--------------------------- MODULE ParserContainer ----------------------------
(***************************************************************************)
(* clapp::basic_parser_container_t: a main parser together with an atomic  *)
(* state that says whether the parser may be parsed with, is parsed with   *)
(* or may be read.  Threads share the container; the only atomic steps are *)
(* the compare-and-swap of change_state() and the load of operator-> and   *)
(* operator*, between them the threads interleave.                         *)
(*                                                                         *)
(* change_state() is public.  A client is taken to use it as it is needed: *)
(* after a parse that threw, to make the container parse again.            *)
(***************************************************************************)
CONSTANTS
  Thread,
  Careless   \* the threads that may leave the state alone after an exception

ASSUME ThreadAssumption == Careless \subseteq Thread

VARIABLES
  state,    \* the atomic member: "not_parsed", "parsing" or "parsed"
  parser,   \* the wrapped parser: "fresh", "busy" (members are being written),
            \* "partial" (left by an exit or an exception) or "complete"
  pc,       \* where a thread is: "out" of the container, "in" the parser,
            \* "leaving" (before the last change_state()), "thrown" (the
            \* handler of an exception of the parser) or "using" a reference
  outcome   \* what the last call of a thread gave: "none", "ok", "exit",
            \* "threw" (by the parser), "refused" (by the container) or
            \* "lost" (a change_state() that follows a parse has thrown)

vars == <<state, parser, pc, outcome>>

TypeOK ==
  /\ state \in {"not_parsed", "parsing", "parsed"}
  /\ parser \in {"fresh", "busy", "partial", "complete"}
  /\ pc \in [Thread -> {"out", "in", "leaving", "thrown", "using"}]
  /\ outcome \in [Thread -> {"none", "ok", "exit", "threw", "refused", "lost"}]

Init ==
  /\ state = "not_parsed"
  /\ parser = "fresh"
  /\ pc = [t \in Thread |-> "out"]
  /\ outcome = [t \in Thread |-> "none"]

-----------------------------------------------------------------------------

Go(t, from, to) == pc[t] = from /\ pc' = [pc EXCEPT ![t] = to]
Result(t, r) == outcome' = [outcome EXCEPT ![t] = r]

\* Faulty: the state is stored without a look at the old one.
SwitchesFaulty(from, to) == state' = to

\* change_state(from, to) succeeds.
Switches(from, to) == state = from /\ state' = to

\* parse() and parse_and_validate(): the container is free, or refuses
BeginParse(t) ==
  /\ Go(t, "out", "in")
  /\ Switches("not_parsed", "parsing")
  /\ parser' = "busy"
  /\ Result(t, "none")

RefuseParse(t) ==
  /\ pc[t] = "out"
  /\ state # "not_parsed"
  /\ Result(t, "refused")
  /\ UNCHANGED <<state, parser, pc>>

\* The wrapped parser returns, with or without an exit request, or throws.
ParserReturns(t) ==
  /\ Go(t, "in", "leaving")
  /\ \/ parser' = "complete" /\ Result(t, "ok")
     \/ parser' = "partial" /\ Result(t, "exit")
  /\ UNCHANGED state

ParserThrows(t) ==
  /\ Go(t, "in", "thrown")
  /\ parser' = "partial"
  /\ Result(t, "threw")
  /\ UNCHANGED state

\* Faulty: an exit request counts as a successful parse.
EndStateFaulty(t) == "parsed"

\* Faulty: the state is not reset after an exit request.
EndStateKept(t) == IF outcome[t] = "exit" THEN "parsing" ELSE "parsed"

\* Faulty: the reason of the exit is stored in its place.
EndStateReason(t) == IF outcome[t] = "exit" THEN outcome[t] ELSE "parsed"

EndState(t) == IF outcome[t] = "exit" THEN "not_parsed" ELSE "parsed"

\* The call ends with a second change_state(), which may throw, too.
EndParse(t) ==
  /\ Go(t, "leaving", "out")
  /\ UNCHANGED parser
  /\ IF state = "parsing"
     THEN Switches("parsing", EndState(t)) /\ UNCHANGED outcome
     ELSE Result(t, "lost") /\ UNCHANGED state

\* Faulty: a client makes the container usable, not the parser parse again.
RecoverStateFaulty == "parsed"

RecoverState == "not_parsed"

\* After an exception the container stays in "parsing", until the client that
\* caught the exception, if it cares, calls change_state() itself.
GiveUp(t) ==
  /\ t \in Careless
  /\ Go(t, "thrown", "out")
  /\ UNCHANGED <<state, parser, outcome>>

Recover(t) ==
  /\ Go(t, "thrown", "out")
  /\ UNCHANGED parser
  /\ IF state = "parsing"
     THEN Switches("parsing", RecoverState) /\ UNCHANGED outcome
     ELSE Result(t, "lost") /\ UNCHANGED state

\* operator-> and operator*: a reference that the thread uses for a while
Access(t) ==
  /\ Go(t, "out", "using")
  /\ state = "parsed"
  /\ UNCHANGED <<state, parser, outcome>>

RefuseAccess(t) ==
  /\ pc[t] = "out"
  /\ state # "parsed"
  /\ Result(t, "refused")
  /\ UNCHANGED <<state, parser, pc>>

EndAccess(t) == Go(t, "using", "out") /\ UNCHANGED <<state, parser, outcome>>

Running(t) == ParserReturns(t) \/ ParserThrows(t) \/ EndParse(t)

Client(t) ==
  \/ BeginParse(t)
  \/ RefuseParse(t)
  \/ GiveUp(t)
  \/ Recover(t)
  \/ Access(t)
  \/ RefuseAccess(t)
  \/ EndAccess(t)

Next == \E t \in Thread : Running(t) \/ Client(t)

\* Nothing makes a thread call the container, but a call, once begun, goes on:
\* it is sequential code that waits for nobody.  So is an exception handler.
Safety == Init /\ [][Next]_vars

Spec ==
  /\ Safety
  /\ \A t \in Thread : WF_vars(Running(t) \/ Recover(t) \/ GiveUp(t))

-----------------------------------------------------------------------------

(***************************************************************************)
(* No two threads write the members of the parser, or read them while      *)
(* another one writes: the container turns the parser, which has no lock,  *)
(* into an object that threads may share.                                  *)
(***************************************************************************)
Exclusive ==
  \A t, u \in Thread : t # u /\ pc[t] = "in" =>
    pc[u] \notin {"in", "leaving", "thrown", "using"}

(***************************************************************************)
(* Whoever got a reference reads a parser that has run through, also if an *)
(* exit request or an exception came before: "prevent the users from       *)
(* accessing members in an unspecified state".                             *)
(***************************************************************************)
UseIsComplete ==
  \A t \in Thread : pc[t] = "using" => state = "parsed" /\ parser = "complete"

(***************************************************************************)
(* The second change_state() of a parse call, and the one of the handler   *)
(* of its exception, always find the state "parsing": the call never fails *)
(* for its bookkeeping, and no result of a parse is lost.                  *)
(***************************************************************************)
NothingLost == \A t \in Thread : outcome[t] # "lost"

(***************************************************************************)
(* The parse of a thread whose client cares for exceptions, whatever comes *)
(* of it, takes the container out of "parsing", where it refuses every     *)
(* call.  (The exception alone does not: a careless client blocks it.)     *)
(***************************************************************************)
NotStuck ==
  \A t \in Thread \ Careless : pc[t] = "in" ~> state # "parsing"

(***************************************************************************)
(* The container implements the one-shot parser.                           *)
(***************************************************************************)
Abstract ==
  INSTANCE OneShot WITH
    ready <- state = "parsed",
    owner <- {t \in Thread : pc[t] \in {"in", "leaving", "thrown"}},
    readers <- {t \in Thread : pc[t] = "using"}

IsOneShot == Abstract!Spec
=============================================================================
