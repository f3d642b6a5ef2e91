----------------------------- MODULE SlotTable -----------------------------
(***************************************************************************)
(* What the table of controllers promises to the players, without the      *)
(* events, files and resets that Controllers has to do it with: one sits   *)
(* down on the first free slot, stays there until his number is called,    *)
(* and only a restart makes all of them get up.  number is always the      *)
(* number of players.                                                      *)
(***************************************************************************)
EXTENDS Integers, FiniteSets

CONSTANTS
  Slots,    \* the slots, numbers
  Numbers   \* the numbers players have

VARIABLES
  player,   \* the number of the player on each slot, or Nobody
  number

Nobody == -1
Tables == [Slots -> Numbers \cup {Nobody}]
Taken(t) == {s \in Slots : t[s] # Nobody}

\* A player takes the first free slot of t: u is what comes of it.
Join(t, u) ==
  \E s \in Slots \ Taken(t) :
    /\ \A r \in Slots : r < s => r \in Taken(t)
    /\ u[s] # Nobody
    /\ u = [t EXCEPT ![s] = u[s]]

\* Players of one number leave, or nobody does.
Leave(t, u) ==
  \E gone \in SUBSET Taken(t) :
    /\ \A s, r \in gone : t[s] = t[r]
    /\ u = [s \in Slots |-> IF s \in gone THEN Nobody ELSE t[s]]

Change(t, u) == Join(t, u) \/ Leave(t, u)

Empty == [s \in Slots |-> Nobody]

Init == player = Empty /\ number = 0

\* Up to two changes, which are made one after the other, or a restart.
Next ==
  /\ \/ \E t \in Tables : Change(player, t) /\ Change(t, player')
     \/ player' = Empty
  /\ number' = Cardinality(Taken(player'))

Spec == Init /\ [][Next]_<<player, number>>
=============================================================================
