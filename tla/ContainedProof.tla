---------------------------- MODULE ContainedProof ----------------------------
(***************************************************************************)
(* Proofs about the parse loop in its container, for every tree of parsers *)
(* and every number of calls: it implements module ParserContainer as one  *)
(* thread sees it, and what the container gives access to is satisfied.    *)
(***************************************************************************)
EXTENDS ContainedParser, ParserProof

(***************************************************************************)
(* The state of the container tells where the call in it is.               *)
(***************************************************************************)
StateInv ==
  /\ state \in {"not_parsed", "parsing", "parsed"}
  /\ calls = 0 <=> result = "none" /\ phase = "idle"
  /\ phase # "idle" => state = "parsing" /\ result = "none"
  /\ state = "parsing" => calls # 0
  /\ state = "parsed" => result = "ok"

CInv == IInv /\ StateInv

LEMMA ContainerStepIsStep == ContainerNext => Next \/ UNCHANGED vars
BY DEF ContainerNext, ContainerCall, ParserStep, ContainerReturns, ContainerRecovers, Next

LEMMA StateStep ==
  ASSUME TypeOK, StateInv, [ContainerNext]_cvars
  PROVE  StateInv'
<1>1. CASE UNCHANGED cvars
  BY <1>1 DEF cvars, vars, StateInv
<1>2. CASE ContainerCall
  <2>1. calls' # 0
    BY <1>2 DEF ContainerCall, Call, TypeOK
  <2> QED BY <1>2, <2>1 DEF ContainerCall, Call, StateInv
<1>3. CASE ParserStep
  <2>1. phase # "idle" /\ state' = state /\ calls' = calls
    BY <1>3, StepOutcome DEF ParserStep
  <2>2. IF phase' = "idle" THEN result' \in {"ok", "exit", "error"} ELSE result' = result
    BY <1>3, StepOutcome DEF ParserStep
  <2> QED BY <2>1, <2>2 DEF StateInv
<1>4. CASE ContainerReturns
  BY <1>4 DEF ContainerReturns, StateAfter, vars, StateInv
<1>5. CASE ContainerRecovers
  BY <1>5 DEF ContainerRecovers, vars, StateInv
<1> QED BY <1>1, <1>2, <1>3, <1>4, <1>5 DEF ContainerNext

THEOREM ContainedInvariantHolds == ContainerSpec => []CInv
<1>1. ContainerInit => CInv
  BY InvariantInit DEF ContainerInit, Init, CInv, StateInv
<1>2. CInv /\ [ContainerNext]_cvars => CInv'
  <2> SUFFICES ASSUME CInv, [ContainerNext]_cvars PROVE CInv'
    OBVIOUS
  <2>1. [Next]_vars
    BY ContainerStepIsStep DEF cvars
  <2>2. IInv'
    BY <2>1, InvariantStep DEF CInv
  <2>3. StateInv'
    BY StateStep DEF CInv, IInv
  <2> QED BY <2>2, <2>3 DEF CInv
<1> QED BY <1>1, <1>2, PTL DEF ContainerSpec

(***************************************************************************)
(* After a parse_and_validate() through the container all active parsers   *)
(* are satisfied, whatever calls were interrupted before.                  *)
(***************************************************************************)
THEOREM UsedIsSatisfiedHolds == ContainerSpec => []UsedIsSatisfied
<1>1. CInv => UsedIsSatisfied
  BY DEF CInv, IInv, StateInv, AcceptedMeansSatisfied, UsedIsSatisfied
<1> QED BY <1>1, ContainedInvariantHolds, PTL

-----------------------------------------------------------------------------

(***************************************************************************)
(* The parse loop in the container is a behaviour of module                *)
(* ParserContainer: a call begins a parse, the last step of the loop is    *)
(* the return or the exception of the wrapped parser, all others stutter.  *)
(***************************************************************************)
THEOREM ContainerImplemented == ContainerSpec => ImplementsContainer
<1>1. ContainerInit => Container!Init
  BY DEF ContainerInit, Init, Container!Init, ParserSeen, Place
<1>2. ASSUME CInv, [ContainerNext]_cvars
      PROVE  [Container!Next]_(Container!vars)
  <2> USE DEF Container!Go, Container!Result, Container!Switches, ParserSeen, Place
  <2>1. CASE UNCHANGED cvars
    BY <2>1 DEF cvars, vars, Container!vars
  <2>2. CASE ContainerCall
    <3>1. /\ state = "not_parsed" /\ state' = "parsing"
          /\ phase' = "parse" /\ result' = "none" /\ calls' # 0
      BY <1>2, <2>2 DEF ContainerCall, Call, CInv, IInv, TypeOK
    <3>2. Container!BeginParse(Client)
      BY <3>1 DEF Container!BeginParse
    <3> QED BY <3>2 DEF Container!Next, Container!Client
  <2>3. CASE ParserStep
    <3>1. /\ phase # "idle" /\ state' = state /\ calls' = calls
          /\ IF phase' = "idle" THEN result' \in {"ok", "exit", "error"} ELSE result' = result
      BY <1>2, <2>3, StepOutcome DEF ParserStep, CInv, IInv
    <3>2. state = "parsing" /\ result = "none" /\ calls # 0
      BY <1>2, <3>1 DEF CInv, StateInv
    <3>3. CASE phase' # "idle"
      BY <3>1, <3>2, <3>3 DEF Container!vars
    <3>4. CASE phase' = "idle" /\ result' \in {"ok", "exit"}
      <4>1. Container!ParserReturns(Client)
        BY <3>1, <3>2, <3>4 DEF Container!ParserReturns
      <4> QED BY <4>1 DEF Container!Next, Container!Running
    <3>5. CASE phase' = "idle" /\ result' = "error"
      <4>1. Container!ParserThrows(Client)
        BY <3>1, <3>2, <3>5 DEF Container!ParserThrows
      <4> QED BY <4>1 DEF Container!Next, Container!Running
    <3> QED BY <3>1, <3>3, <3>4, <3>5
  <2>4. CASE ContainerReturns
    <3>1. /\ state = "parsing" /\ phase = "idle" /\ result \in {"ok", "exit"}
          /\ state' = IF result = "exit" THEN "not_parsed" ELSE "parsed"
          /\ UNCHANGED <<phase, result, calls>>
      BY <2>4 DEF ContainerReturns, StateAfter, vars
    <3>2. Container!EndParse(Client)
      BY <3>1 DEF Container!EndParse, Container!EndState
    <3> QED BY <3>2 DEF Container!Next, Container!Running
  <2>5. CASE ContainerRecovers
    <3>1. /\ state = "parsing" /\ phase = "idle" /\ result = "error"
          /\ state' = "not_parsed"
          /\ UNCHANGED <<phase, result, calls>>
      BY <2>5 DEF ContainerRecovers, vars
    <3>2. Container!Recover(Client)
      BY <3>1 DEF Container!Recover, Container!RecoverState
    <3> QED BY <3>2 DEF Container!Next, Container!Client
  <2> QED BY <1>2, <2>1, <2>2, <2>3, <2>4, <2>5 DEF ContainerNext
<1> QED BY <1>1, <1>2, ContainedInvariantHolds, PTL
        DEF ContainerSpec, ImplementsContainer, Container!Safety
=============================================================================
