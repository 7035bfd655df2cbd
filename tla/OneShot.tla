------------------------------- MODULE OneShot --------------------------------
(***************************************************************************)
(* What a parser container promises its clients: one thread at a time may  *)
(* have the parser to parse with, and only until a parse has succeeded;    *)
(* from then on everybody may read it, and nobody may parse again.         *)
(***************************************************************************)
CONSTANT Thread

VARIABLES
  ready,    \* a parse has succeeded
  owner,    \* the thread, if any, that parses
  readers   \* the threads that hold a reference to the parser

vars == <<ready, owner, readers>>

Init == ready = FALSE /\ owner = {} /\ readers = {}

Take(t) ==
  /\ ~ready
  /\ owner = {}
  /\ owner' = {t}
  /\ UNCHANGED <<ready, readers>>

\* The parse ends, successfully or not.
GiveBack(t) ==
  /\ owner = {t}
  /\ owner' = {}
  /\ ready' \in BOOLEAN
  /\ UNCHANGED readers

StartReading(t) ==
  /\ ready
  /\ readers' = readers \cup {t}
  /\ UNCHANGED <<ready, owner>>

StopReading(t) ==
  /\ readers' = readers \ {t}
  /\ UNCHANGED <<ready, owner>>

Next ==
  \E t \in Thread :
    Take(t) \/ GiveBack(t) \/ StartReading(t) \/ StopReading(t)

Spec == Init /\ [][Next]_vars
=============================================================================
