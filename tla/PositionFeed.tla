---------------------------- MODULE PositionFeed ----------------------------
(***************************************************************************)
(* What the server promises of positions, without its queues, threads and  *)
(* registries: characters walk, and a viewer is only ever told where a     *)
(* character was, never older news than it was told before.                *)
(***************************************************************************)
EXTENDS Naturals

CONSTANTS Viewer, Char, MaxMoves, None

VARIABLES
  walked,   \* the last coordinates of every character
  view      \* the coordinates a viewer was last told of a character, or None

vars == <<walked, view>>

Init ==
  /\ walked = [id \in Char |-> 0]
  /\ view = [c \in Viewer |-> [id \in Char |-> None]]

Walk(id, pos) ==
  /\ walked[id] < pos
  /\ walked' = [walked EXCEPT ![id] = pos]
  /\ UNCHANGED view

Tell(c, id, pos) ==
  /\ pos <= walked[id]
  /\ view[c][id] # None => view[c][id] <= pos
  /\ view' = [view EXCEPT ![c][id] = pos]
  /\ UNCHANGED walked

Next ==
  \/ \E id \in Char, pos \in 0 .. MaxMoves : Walk(id, pos)
  \/ \E c \in Viewer, id \in Char, pos \in 0 .. MaxMoves : Tell(c, id, pos)

Spec == Init /\ [][Next]_vars
=============================================================================
