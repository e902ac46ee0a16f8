----------------------- MODULE MCGameGeneratorBuilt -----------------------
(* Clients that own all maps, name their files differently, lack maps or  *)
(* own one the server does not know.                                       *)
EXTENDS GameGeneratorBuilt

TwoBots == <<"b1", "b2">>

TwoMaps == <<"m1", "m2">>
ThreeMaps == <<"m1", "m2", "m3">>

ClientMaps == {TwoMaps, <<"m2", "m1">>, <<"m1">>, <<"m2">>, <<"x", "m2", "m1">>, <<"m1", "x", "m2">>}

AllOffers ==
  {[bots |-> TwoBots, maps |-> ms] : ms \in ClientMaps}
    \cup {[bots |-> <<"b2", "b1">>, maps |-> TwoMaps]}

IdealOffers == {[bots |-> TwoBots, maps |-> ThreeMaps]}

===========================================================================
