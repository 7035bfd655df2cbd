----------------------------- MODULE MCRegistration -----------------------------
(***************************************************************************)
(* A parser with an xor container and an and container in it; option names *)
(* that clash within and across containers; two argument names.            *)
(***************************************************************************)
EXTENDS Registration

MCContainers == {"parser", "xor", "and"}
MCParent == [c \in {"xor", "and"} |-> IF c = "xor" THEN "parser" ELSE "xor"]
MCNames == {"a", "b"}
MCOptConf ==
  [names : {<<n>> : n \in MCNames} \cup (MCNames \X MCNames) \cup {<<"a", "b ">>},
   mandatory : BOOLEAN]
MCArgConf ==
  [name : {"", "x", "y", "z"}, mandatory : BOOLEAN, variadic : BOOLEAN]
=============================================================================
