---------------------------- MODULE Tournament ----------------------------
(***************************************************************************)
(* What the server's GameGenerator promises, whatever data structures it   *)
(* keeps: every pairing of two bots on a map is a stock of NumGames games. *)
(* A game is handed out to a client that owns both bots and the map, comes *)
(* back as a success (played for good) or a failure (back in the stock),   *)
(* and the stock is never overdrawn.                                       *)
(***************************************************************************)
EXTENDS Integers

CONSTANTS
  Bots,      \* digests of the bots the tournament is played with
  Maps,      \* digests of the maps it is played on
  NumGames,  \* games to be played by each pairing on each map
  Offers     \* what clients may own: records [bots, maps] of digest sets

VARIABLES
  played,      \* successes reported for each game
  outstanding  \* copies of each game handed out and not reported yet

vars == <<played, outstanding>>

(* Two different bots, the smaller digest first, on a map. *)
Games == {g \in [bot0 : Bots, bot1 : Bots, map : Maps] : g.bot0 < g.bot1}

Owns(o, g) == {g.bot0, g.bot1} \subseteq o.bots /\ g.map \in o.maps

Init ==
  /\ played = [g \in Games |-> 0]
  /\ outstanding = [g \in Games |-> 0]

HandOut(o, g) ==
  /\ Owns(o, g)
  /\ played[g] + outstanding[g] < NumGames
  /\ outstanding' = [outstanding EXCEPT ![g] = @ + 1]
  /\ UNCHANGED played

Succeed(g) ==
  /\ outstanding[g] > 0
  /\ outstanding' = [outstanding EXCEPT ![g] = @ - 1]
  /\ played' = [played EXCEPT ![g] = @ + 1]

Fail(g) ==
  /\ outstanding[g] > 0
  /\ outstanding' = [outstanding EXCEPT ![g] = @ - 1]
  /\ UNCHANGED played

Next ==
  \E g \in Games :
    \/ \E o \in Offers : HandOut(o, g)
    \/ Succeed(g)
    \/ Fail(g)

Spec == Init /\ [][Next]_vars

===========================================================================
