-------------------------------- MODULE MCHelp --------------------------------
(***************************************************************************)
(* The parser tree of MCParser with the sizes of its names.  The argument  *)
(* of "del" has a name of one letter, so the name of the sub-parser "deep" *)
(* does not fit into the column: the message of "del" and that of the main *)
(* parser cannot be made, the one of "add" can.                            *)
(***************************************************************************)
EXTENDS MCParser, Help

MCHelpOption == {"help", "usage"}

MCNameSize ==
  [x \in MCOptions \cup MCArguments |->
     CASE x \in {"number", "level"} -> 10
       [] x = "target" -> 1
       [] OTHER -> 4]

MCWordSize == [w \in MCWords |-> IF w = "deep" THEN 4 ELSE 3]

MCRank == [w \in MCWords |-> IF w = "add" THEN 1 ELSE IF w = "deep" THEN 2 ELSE 3]
=============================================================================
