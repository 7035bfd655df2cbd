----------------------------- MODULE MCContained ------------------------------
(***************************************************************************)
(* The parsers of module MCParser in a container.                          *)
(***************************************************************************)
EXTENDS ContainedParser, MCParser

(***************************************************************************)
(* The container was made "to prevent the users from accessing members in  *)
(* an unspecified state" (doc.md, "Parser-Container"): what a client finds *)
(* given in it was given by the command line the last call has parsed.     *)
(***************************************************************************)
ParsedIsCurrent ==
  state = "parsed" =>
    LET f == Reading(args) IN
      \A x \in given : Occurrences(args, f, x) # <<>>
=============================================================================
