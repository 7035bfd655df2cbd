---------------------------- MODULE ContainerProof ----------------------------
(***************************************************************************)
(* Proofs about the parser container, for any set of threads: exclusive    *)
(* use of the parser, and that the container implements OneShot.           *)
(***************************************************************************)
EXTENDS ParserContainer, TLAPS

\* The threads that a parse call keeps busy
Owns(t) == pc[t] \in {"in", "leaving", "thrown"}

(***************************************************************************)
(* The inductive invariant: the state is "parsing" as long as somebody     *)
(* owns the parser, there is one owner at most, and the state tells the    *)
(* truth about the parser.                                                 *)
(***************************************************************************)
OwnerInv ==
  /\ \A t \in Thread : Owns(t) => state = "parsing"
  /\ \A t, u \in Thread : Owns(t) /\ Owns(u) => t = u

ResultInv ==
  /\ \A t \in Thread : pc[t] = "leaving" =>
       /\ outcome[t] \in {"ok", "exit"}
       /\ outcome[t] = "ok" => parser = "complete"
  /\ state = "parsed" => parser = "complete"
  /\ \A t \in Thread : pc[t] = "using" => state = "parsed"

IInv == TypeOK /\ OwnerInv /\ ResultInv /\ NothingLost

LEMMA InitInvariant == Init => IInv
BY DEF Init, IInv, TypeOK, OwnerInv, Owns, ResultInv, NothingLost

LEMMA TypeStep == TypeOK /\ [Next]_vars => TypeOK'
<1> USE DEF TypeOK
<1> SUFFICES ASSUME TypeOK, [Next]_vars PROVE TypeOK'
  OBVIOUS
<1>1. ASSUME NEW t \in Thread, Running(t)
      PROVE  TypeOK'
  BY <1>1 DEF Running, ParserReturns, ParserThrows, EndParse, Go, Result, Switches, EndState
<1>2. ASSUME NEW t \in Thread, Client(t)
      PROVE  TypeOK'
  BY <1>2 DEF Client, BeginParse, RefuseParse, GiveUp, Recover, Access, RefuseAccess,
              EndAccess, Go, Result, Switches, RecoverState
<1>3. CASE UNCHANGED vars
  BY <1>3 DEF vars
<1> QED BY <1>1, <1>2, <1>3 DEF Next

LEMMA OwnerStep == TypeOK /\ OwnerInv /\ [Next]_vars => OwnerInv'
<1> USE DEF OwnerInv, Owns, TypeOK
<1> SUFFICES ASSUME TypeOK, OwnerInv, [Next]_vars PROVE OwnerInv'
  OBVIOUS
<1>1. ASSUME NEW t \in Thread, ParserReturns(t) \/ ParserThrows(t)
      PROVE  OwnerInv'
  BY <1>1 DEF ParserReturns, ParserThrows, Go
<1>2. ASSUME NEW t \in Thread, EndParse(t) \/ Recover(t) \/ GiveUp(t)
      PROVE  OwnerInv'
  <2>1. \A u \in Thread : u # t => ~Owns(u) /\ pc'[u] = pc[u]
    BY <1>2 DEF EndParse, Recover, GiveUp, Go
  <2>2. pc'[t] = "out"
    BY <1>2 DEF EndParse, Recover, GiveUp, Go
  <2> QED BY <2>1, <2>2
<1>3. ASSUME NEW t \in Thread, BeginParse(t)
      PROVE  OwnerInv'
  <2>1. \A u \in Thread : ~Owns(u)
    BY <1>3 DEF BeginParse, Switches
  <2>2. state' = "parsing" /\ \A u \in Thread : u # t => pc'[u] = pc[u]
    BY <1>3 DEF BeginParse, Switches, Go
  <2> QED BY <2>1, <2>2
<1>4. ASSUME NEW t \in Thread, RefuseParse(t) \/ RefuseAccess(t)
      PROVE  OwnerInv'
  BY <1>4 DEF RefuseParse, RefuseAccess
<1>5. ASSUME NEW t \in Thread, Access(t) \/ EndAccess(t)
      PROVE  OwnerInv'
  BY <1>5 DEF Access, EndAccess, Go
<1>6. CASE UNCHANGED vars
  BY <1>6 DEF vars
<1> QED BY <1>1, <1>2, <1>3, <1>4, <1>5, <1>6 DEF Next, Running, Client

LEMMA ResultStep ==
  TypeOK /\ OwnerInv /\ ResultInv /\ NothingLost /\ [Next]_vars
    => ResultInv' /\ NothingLost'
<1> SUFFICES ASSUME TypeOK, OwnerInv, ResultInv, NothingLost, [Next]_vars
             PROVE  ResultInv' /\ NothingLost'
  OBVIOUS
<1> USE DEF TypeOK, ResultInv, NothingLost
<1>1. ASSUME NEW t \in Thread, Owns(t)
      PROVE  state = "parsing" /\ \A u \in Thread : u # t => ~Owns(u)
  BY <1>1 DEF OwnerInv
<1>2. ASSUME NEW t \in Thread, ParserReturns(t) \/ ParserThrows(t)
      PROVE  ResultInv' /\ NothingLost'
  BY <1>1, <1>2 DEF ParserReturns, ParserThrows, Go, Result, Owns
<1>3. ASSUME NEW t \in Thread, EndParse(t)
      PROVE  ResultInv' /\ NothingLost'
  BY <1>1, <1>3 DEF EndParse, Go, Result, Switches, EndState, Owns
<1>4. ASSUME NEW t \in Thread, Recover(t) \/ GiveUp(t)
      PROVE  ResultInv' /\ NothingLost'
  BY <1>1, <1>4 DEF Recover, GiveUp, Go, Result, Switches, RecoverState, Owns
<1>5. ASSUME NEW t \in Thread, BeginParse(t)
      PROVE  ResultInv' /\ NothingLost'
  BY <1>1, <1>5 DEF BeginParse, Go, Result, Switches, Owns
<1>6. ASSUME NEW t \in Thread, RefuseParse(t) \/ RefuseAccess(t)
      PROVE  ResultInv' /\ NothingLost'
  BY <1>6 DEF RefuseParse, RefuseAccess, Result
<1>7. ASSUME NEW t \in Thread, Access(t) \/ EndAccess(t)
      PROVE  ResultInv' /\ NothingLost'
  BY <1>7 DEF Access, EndAccess, Go
<1>8. CASE UNCHANGED vars
  BY <1>8 DEF vars
<1> QED BY <1>2, <1>3, <1>4, <1>5, <1>6, <1>7, <1>8 DEF Next, Running, Client

LEMMA InvariantHolds == Safety => []IInv
<1>1. IInv /\ [Next]_vars => IInv'
  BY TypeStep, OwnerStep, ResultStep DEF IInv
<1> QED BY <1>1, InitInvariant, PTL DEF Safety

-----------------------------------------------------------------------------

(***************************************************************************)
(* What the container keeps, the state of its parser and what each thread  *)
(* is doing with it, stays within the values it has names for.             *)
(***************************************************************************)
THEOREM TypeCorrect == Spec => []TypeOK
BY InvariantHolds, PTL DEF Spec, IInv

(***************************************************************************)
(* Whatever the threads do, one at most is in the parser, and then no      *)
(* other one holds a reference to it.                                      *)
(***************************************************************************)
THEOREM ExclusiveHolds == Spec => []Exclusive
<1>1. IInv => Exclusive
  BY DEF IInv, OwnerInv, Owns, ResultInv, Exclusive
<1> QED BY <1>1, InvariantHolds, PTL DEF Spec

(***************************************************************************)
(* A reference is to a parser that has run through.                        *)
(***************************************************************************)
THEOREM UseIsCompleteHolds == Spec => []UseIsComplete
<1>1. IInv => UseIsComplete
  BY DEF IInv, ResultInv, UseIsComplete
<1> QED BY <1>1, InvariantHolds, PTL DEF Spec

(***************************************************************************)
(* The change_state() at the end of a call never throws.                   *)
(***************************************************************************)
THEOREM NothingLostHolds == Spec => []NothingLost
BY InvariantHolds, PTL DEF Spec, IInv

-----------------------------------------------------------------------------

owner == {t \in Thread : pc[t] \in {"in", "leaving", "thrown"}}
readers == {t \in Thread : pc[t] = "using"}

LEMMA RefineInit == Init => Abstract!Init
BY DEF Init, Abstract!Init

LEMMA RefineStep == IInv /\ [Next]_vars => [Abstract!Next]_(Abstract!vars)
<1> SUFFICES ASSUME IInv, [Next]_vars
             PROVE  Abstract!Next \/ UNCHANGED <<state = "parsed", owner, readers>>
  BY DEF Abstract!vars, owner, readers
<1> USE DEF IInv, TypeOK
<1>1. ASSUME NEW t \in Thread, BeginParse(t)
      PROVE  Abstract!Take(t)
  <2>1. owner = {} /\ state = "not_parsed" /\ state' = "parsing"
    BY <1>1 DEF BeginParse, Switches, OwnerInv, Owns, owner
  <2>2. owner' = {t} /\ readers' = readers
    BY <1>1, <2>1 DEF BeginParse, Go, owner, readers
  <2> QED BY <2>1, <2>2 DEF Abstract!Take, owner, readers
<1>2. ASSUME NEW t \in Thread, EndParse(t) \/ Recover(t) \/ GiveUp(t)
      PROVE  Abstract!GiveBack(t)
  <2>1. Owns(t)
    BY <1>2 DEF EndParse, Recover, GiveUp, Go, Owns
  <2>2. owner = {t}
    BY <2>1 DEF OwnerInv, Owns, owner
  <2>3. owner' = {} /\ readers' = readers
    BY <1>2, <2>2 DEF EndParse, Recover, GiveUp, Go, owner, readers
  <2> QED BY <2>2, <2>3 DEF Abstract!GiveBack, owner, readers
<1>3. ASSUME NEW t \in Thread, Access(t)
      PROVE  Abstract!StartReading(t)
  <2>1. owner' = owner /\ readers' = readers \cup {t} /\ state = "parsed" /\ state' = state
    BY <1>3 DEF Access, Go, owner, readers
  <2> QED BY <2>1 DEF Abstract!StartReading, owner, readers
<1>4. ASSUME NEW t \in Thread, EndAccess(t)
      PROVE  Abstract!StopReading(t)
  <2>1. owner' = owner /\ readers' = readers \ {t} /\ state' = state
    BY <1>4 DEF EndAccess, Go, owner, readers
  <2> QED BY <2>1 DEF Abstract!StopReading, owner, readers
<1>5. ASSUME NEW t \in Thread, ParserReturns(t) \/ ParserThrows(t)
      PROVE  owner' = owner /\ readers' = readers /\ state' = state
  BY <1>5 DEF ParserReturns, ParserThrows, Go, owner, readers
<1>6. ASSUME NEW t \in Thread, RefuseParse(t) \/ RefuseAccess(t)
      PROVE  owner' = owner /\ readers' = readers /\ state' = state
  BY <1>6 DEF RefuseParse, RefuseAccess, owner, readers
<1>7. CASE UNCHANGED vars
  BY <1>7 DEF vars, owner, readers
<1> QED BY <1>1, <1>2, <1>3, <1>4, <1>5, <1>6, <1>7
        DEF Next, Running, Client, Abstract!Next

(***************************************************************************)
(* The container with its two compare-and-swaps implements the one-shot    *)
(* parser: parsing is exclusive, and final once it has succeeded.          *)
(***************************************************************************)
THEOREM ContainerIsOneShot == Spec => IsOneShot
BY RefineInit, RefineStep, InvariantHolds, PTL DEF Spec, Safety, IsOneShot, Abstract!Spec
=============================================================================
