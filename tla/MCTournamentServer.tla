------------------------- MODULE MCTournamentServer -------------------------
(* Two bots on two maps; clients that have everything in the order of the  *)
(* server's names, that lack a map, and that lack a bot.                   *)
EXTENDS TournamentServer

TwoBots == <<1, 2>>
TwoMaps == <<"m1", "m2">>

SomeKinds ==
  {[bots |-> Bots, maps |-> Maps], [bots |-> Bots, maps |-> <<"m1">>],
   [bots |-> <<1>>, maps |-> Maps]}
===========================================================================
