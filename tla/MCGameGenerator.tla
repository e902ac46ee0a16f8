-------------------------- MODULE MCGameGenerator --------------------------
(* Small tournaments for GameGenerator and the clients that ask for games. *)
EXTENDS GameGenerator

(* In the order of their names, which is not that of the digests. *)
ThreeBots == <<2, 1, 3>>
ThreeMaps == <<"m1", "m2", "m3">>

(* A digest none of the server's bots has. *)
Foreign == 9

(* Of the kinds of client the header asks to be tested (GameGenerator.h    *)
(* lines 9 to 13): one that has what the server has, in the server's       *)
(* order, and one that has more and less, its maps in another order.       *)
Same    == [bots |-> Bots, maps |-> Maps]
Overlap == [bots |-> <<Bots[2], Bots[3], Foreign>>, maps |-> <<"m2", "x", "m1">>]

TwoKinds == {Same, Overlap}

===========================================================================
