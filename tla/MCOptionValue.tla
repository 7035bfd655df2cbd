--------------------------- MODULE MCOptionValue ---------------------------
(***************************************************************************)
(* Small widths: 4 bits for the widest integers, 2 for narrow ones and for *)
(* the counter.  Magnitudes around every bound of a type, with both signs.  *)
(***************************************************************************)
EXTENDS OptionValue

T(c, l, h) == [conv |-> c, lo |-> l, hi |-> h]
Uint64 == T("uint", 0, 15)
Uint32 == T("uint", 0, 3)
Int64 == T("int", -8, 7)
Int32 == T("int", -2, 1)
Chrono == T("chrono", -8, 7)
Bool == T("bool", 0, 1)
MCHalf == 8
MCType == {Uint64, Uint32, Int64, Int32, Chrono, Bool}

Numeral(n, m) == [number |-> TRUE, neg |-> n, mag |-> m,
                  truth |-> IF n \/ m > 1 THEN "none"
                            ELSE IF m = 1 THEN "true" ELSE "false"]
Text(t) == [number |-> FALSE, neg |-> FALSE, mag |-> 0, truth |-> t]
MCWord == {Numeral(n, m) : n \in BOOLEAN, m \in {0, 1, 2, 3, 4, 8, 9, 15, 16}}
          \cup {Text("none"), Text("true")}

DefaultOf(v) == [what |-> "default", value |-> v]
Between(t, a, b) == [what |-> "min_max", type |-> t, min |-> a, max |-> b]
NonZero(t) == [what |-> "not_null", type |-> t]
Optional == [what |-> "purpose", mandatory |-> FALSE]
Callback == [what |-> "found"]
Declare(ks, t, ps) == {[kind |-> k, type |-> t, params |-> p] : k \in ks, p \in ps}

MCDeclaration ==
  LET Any == Scalar \cup Repeated IN
    Declare(Any, Uint64, {<<>>, <<Between(Uint64, 1, 9), NonZero(Uint32)>>})
    \cup Declare(Any, Uint32, {<<Between(Uint64, 1, 2), Between(Int64, 0, 1)>>})
    \cup Declare(Any, Int64, {<<Between(Int64, -4, 4), NonZero(Int64), Optional>>,
                              <<DefaultOf(5), DefaultOf(-9), Optional>>})
    \cup Declare(Any, Int32, {<<Callback>>, <<Between(Bool, 0, 1)>>})
    \cup Declare(Any, Chrono, {<<Optional, Between(Chrono, 0, 7)>>})
    \cup Declare({"param_option", "argument"}, Bool, {<<>>, <<NonZero(Bool)>>})
    \cup Declare({"bool_option"}, Bool, {<<>>, <<DefaultOf(1), Optional>>})
    \cup Declare({"count_option"}, Uint32,
           {<<>>, <<Callback, Between(Uint64, 0, 2), DefaultOf(7), Optional>>,
            <<Between(Uint32, 1, 2)>>})
=============================================================================
