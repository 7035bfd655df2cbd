------------------------------ MODULE MCOptions -------------------------------
(***************************************************************************)
(* Containers of up to three levels: at the top some options and one or    *)
(* two containers, one of which may hold a container of its own.  Option   *)
(* names are fixed by the place, since all names of a parser differ.       *)
(***************************************************************************)
EXTENDS OptionValidation

MCNames == {"h", "a", "b", "c", "d"}

Kinds == {"and", "xor"}
C(kind, options, subs) == [kind |-> kind, options |-> options, subs |-> subs]

\* What is in a container itself: nothing, a mandatory or an optional option
Own(what, n) ==
  IF what = "none" THEN <<>> ELSE <<[name |-> n, mandatory |-> what = "mandatory"]>>

\* Optional options cannot be registered in an xor container.
Owns == {<<"and", "optional">>} \cup Kinds \X {"none", "mandatory"}

MCShape ==
  [top : Owns, middle : Owns, low : {"none"} \cup Kinds, lowOptions : 1..2,
   side : {"none"} \cup Kinds, sideFirst : BOOLEAN]

Low(s) ==
  LET mandatory(n) == [name |-> n, mandatory |-> TRUE] IN
    IF s.low = "none" THEN <<>>
    ELSE <<C(s.low, [i \in 1..s.lowOptions |-> mandatory(<<"a", "b">>[i])], <<>>)>>

Middle(s) == <<C(s.middle[1], Own(s.middle[2], "c"), Low(s))>>

Side(s) == IF s.side = "none" THEN <<>> ELSE <<C(s.side, Own("mandatory", "d"), <<>>)>>

MCTree(s) ==
  C(s.top[1], Own(s.top[2], "h"),
    IF s.sideFirst THEN Side(s) \o Middle(s) ELSE Middle(s) \o Side(s))

MCParts(s) == {MCTree(s)} \cup {(Low(s) \o Middle(s) \o Side(s))[i] :
                                  i \in 1..Len(Low(s) \o Middle(s) \o Side(s))}

MCHeight(c) ==
  IF c.subs = <<>> THEN 0
  ELSE IF \A i \in 1..Len(c.subs) : c.subs[i].subs = <<>> THEN 1 ELSE 2

MCRefused == {{}, {"a"}, {"c"}}

\* -h | ( -a | -b ), with the last two in an xor container in an and container
MCNested ==
  {[top |-> <<"xor", "mandatory">>, middle |-> <<"and", "none">>, low |-> "xor",
    lowOptions |-> 2, side |-> "none", sideFirst |-> FALSE]}
=============================================================================
