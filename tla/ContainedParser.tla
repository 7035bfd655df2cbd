--------------------------- MODULE ContainedParser ----------------------------
(***************************************************************************)
(* A main parser in a container, used by one thread: the parse loop of     *)
(* module Parser between the two change_state() of the container's         *)
(* parse() and parse_and_validate().                                       *)
(***************************************************************************)
EXTENDS Parser

CONSTANT Recovers   \* does the client call change_state() after an exception?

ASSUME ClientAssumption == Recovers \in BOOLEAN

VARIABLE state   \* of the container: "not_parsed", "parsing" or "parsed"

cvars == <<vars, state>>

ContainerInit == Init /\ state = "not_parsed"

\* The container hands the line on, unless it refuses.
ContainerCall ==
  /\ state = "not_parsed"
  /\ Call
  /\ state' = "parsing"

ParserStep == Step /\ UNCHANGED state

\* Faulty: an exit request counts as a successful parse.
StateAfterFaulty(r) == "parsed"

StateAfter(r) == IF r = "exit" THEN "not_parsed" ELSE "parsed"

\* The parser has returned; the container sets its state and returns, too.
ContainerReturns ==
  /\ state = "parsing"
  /\ phase = "idle"
  /\ result \in {"ok", "exit"}
  /\ state' = StateAfter(result)
  /\ UNCHANGED vars

\* The parser has thrown, and nobody has set the state back: a client that
\* catches the exception may do it, with change_state(parsing, not_parsed).
ContainerRecovers ==
  /\ Recovers
  /\ state = "parsing"
  /\ phase = "idle"
  /\ result = "error"
  /\ state' = "not_parsed"
  /\ UNCHANGED vars

ContainerNext ==
  ContainerCall \/ ParserStep \/ ContainerReturns \/ ContainerRecovers

ContainerSpec ==
  /\ ContainerInit
  /\ [][ContainerNext]_cvars
  /\ WF_cvars(ParserStep)
  /\ WF_cvars(ContainerReturns)

-----------------------------------------------------------------------------

Client == "client"

\* What module ParserContainer knows of the parser, and where its thread is
ParserSeen ==
  IF calls = 0 THEN "fresh"
  ELSE IF phase # "idle" THEN "busy"
  ELSE IF result = "ok" THEN "complete"
  ELSE "partial"

Place ==
  IF state # "parsing" THEN "out"
  ELSE IF phase # "idle" THEN "in"
  ELSE IF result = "error" THEN "thrown"
  ELSE "leaving"

(***************************************************************************)
(* With the parse loop in it, the container is the container of module     *)
(* ParserContainer, as its only thread sees it.                            *)
(***************************************************************************)
Container ==
  INSTANCE ParserContainer WITH
    Thread <- {Client},
    Careless <- {Client},
    parser <- ParserSeen,
    pc <- [t \in {Client} |-> Place],
    outcome <- [t \in {Client} |-> IF result = "error" THEN "threw" ELSE result]

ImplementsContainer == Container!Safety

(***************************************************************************)
(* A client that gets at the parser after parse_and_validate() meets       *)
(* active parsers only that satisfy their requirements, also if an         *)
(* interrupted call had activated them.                                    *)
(***************************************************************************)
UsedIsSatisfied ==
  (state = "parsed" /\ checks) => \A p \in {Main} \cup active : Satisfied(p)
=============================================================================
