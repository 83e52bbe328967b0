--------------------------- MODULE PositionHistory ---------------------------
(***************************************************************************)
(* What positions and attributions promise, without transactions, versions *)
(* or locks: a holder's history is a sequence of positions that only grows *)
(* at its end, each position differing from the one before; and each entry *)
(* after the first keeps the arguments credited for it, never more than a  *)
(* change may credit and never fewer than before.                          *)
(***************************************************************************)
EXTENDS Integers, Sequences, FiniteSets

CONSTANTS Holders, Positions, Arguments, Versions, MaxAttributions

VARIABLES path,         \* the positions each holder took, in order
          credited      \* the arguments credited for each of them

vars == <<path, credited>>

Init ==
  /\ path = [h \in Holders |-> << >>]
  /\ credited = [h \in Holders |-> [v \in Versions |-> {}]]

Take(h, p) ==
  /\ path[h] # << >> => path[h][Len(path[h])] # p
  /\ path' = [path EXCEPT ![h] = Append(@, p)]
  /\ UNCHANGED credited

Credit(h, v, selection) ==
  /\ v \in 2 .. Len(path[h])
  /\ Cardinality(credited[h][v] \cup selection) <= MaxAttributions
  /\ credited' = [credited EXCEPT ![h][v] = @ \cup selection]
  /\ UNCHANGED path

Next ==
  \E h \in Holders :
    \/ \E p \in Positions : Take(h, p)
    \/ \E v \in Versions, selection \in SUBSET Arguments : Credit(h, v, selection)

Spec == Init /\ [][Next]_vars
=============================================================================
