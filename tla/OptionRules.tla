------------------------------ MODULE OptionRules -------------------------------
(***************************************************************************)
(* The option containers of the parsers: what validate_options() decides   *)
(* at the end of the parse loop (OptionsMeet of module Parser) and what    *)
(* the containers say it should decide, by module OptionValidation.        *)
(***************************************************************************)
EXTENDS Parser

CONSTANTS
  Containers(_), \* Containers(p): the option container of p, with those below it
  Parts(_),      \* Parts(p): all of these containers
  Height(_)      \* a bound of the number of levels below a container

\* Option validation, when the options g are given and the values of r refused
Rules(g, r) ==
  INSTANCE OptionValidation WITH
    Shape <- Parser, Tree <- Containers, OptionName <- Option,
    Refused <- SUBSET Option, shape <- Main, given <- g, refused <- r,
    verdict <- "none"

\* The containers are such as registration makes them.
ASSUME ContainersAssumption == Rules({}, {})!Trees

\* What the walks of validate_options() decide: the meaning of OptionsMeet
WalkAccepts(p, g, r) ==
  Rules(g, r)!Verdict(Rules(g, r)!Top(Containers(p))) = "accept"

\* What the containers say
FormulaAccepts(p, g, r) ==
  /\ Rules(g, r)!Meets[Containers(p)]
  /\ Rules(g, r)!Looked(Containers(p)) \cap r = {}
=============================================================================
