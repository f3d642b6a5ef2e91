------------------------------ MODULE Catalog ------------------------------
(***************************************************************************)
(* What the list of games promises to those who count in it: it grows at   *)
(* its end or is dropped as a whole, so that the game at a position stays  *)
(* the game at that position; no game is in it twice; and games are        *)
(* offered only while there are some.  GameList implements it by its       *)
(* searches.  Launcher, which keeps only the length of the list, does so   *)
(* with any games.                                                         *)
(***************************************************************************)
EXTENDS Naturals, Sequences

CONSTANT
  Games     \* what may be in the list

VARIABLES
  list,
  offered   \* the menu offers the games

Lists == {l \in Seq(Games) : \A k, m \in DOMAIN l : l[k] = l[m] => k = m}

Begins(l, longer) ==
  Len(l) <= Len(longer) /\ \A k \in DOMAIN l : longer[k] = l[k]

Init == list \in Lists /\ offered = FALSE

\* Games are added; they may be offered later.
Add ==
  /\ list' \in Lists /\ Begins(list, list')
  /\ offered' \in {offered, list' # <<>>}

Drop == list' = <<>> /\ offered' = FALSE

Next == Add \/ Drop

Spec == Init /\ [][Next]_<<list, offered>>
=============================================================================
