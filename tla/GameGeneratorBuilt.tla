------------------------- MODULE GameGeneratorBuilt -------------------------
(***************************************************************************)
(* The GameGenerator over the containers the build gets (Containers), for  *)
(* a tournament of two bots.  With one matchup, active and finished have   *)
(* at most one entry and are exact; what is left are the sets of maps and  *)
(* the CounterMap, in which a lookup can miss.  Two bots are never retired *)
(* either (each "fails" to be done), so finishedBots stays empty.          *)
(*                                                                         *)
(* Up to three maps erasing a node that was found leaves the root where    *)
(* Containers has it for the new size: shape stays a function of size.     *)
(***************************************************************************)
EXTENDS Containers, FiniteSets

CONSTANTS
  Bots,      \* GameGenerator::bots in iteration order
  Maps,      \* GameGenerator::maps in iteration order
  NumGames,  \* config.h numGames
  Offers,    \* [bots, maps] HashSets clients announce, in iteration order
  MaxGiven   \* bound on the games handed out, again or unasked for included

ASSUME BuiltAssumption ==
  /\ Len(Bots) = 2 /\ Len(Maps) \in 1..3 /\ Unique(Bots) /\ Unique(Maps)
  /\ NumGames \in Nat \ {0}
  /\ \A set \in {Bots, Maps} \cup {o.bots : o \in Offers} \cup {o.maps : o \in Offers} :
       set \in Seq(Range(set))
  /\ \A o \in Offers : Len(o.bots) <= MaxNodes /\ Len(o.maps) <= MaxNodes
  /\ MaxGiven \in Nat

VARIABLES
  started,      \* active has an entry for the matchup
  counters,     \* its CounterMap: [map, left, done] in iteration order
  finished,     \* finished[matchup], <<>> while there is no entry
  reply,        \* what the last generateGame returned and left in its Game
  aborted,      \* an assert failed: the process is gone
  outstanding,  \* map |-> games handed out and not reported (clients)
  played,       \* map |-> successes reported so far (history)
  nice          \* no client but those with all bots and maps has asked (history)

tallies == <<outstanding, played>>
vars == <<started, counters, finished, reply, aborted, outstanding, played, nice>>

Keys(cs) == [i \in DOMAIN cs |-> cs[i].map]

(* Positions of counters a lookup of m comes to. *)
Seen(m) == Found(Keys(counters), m)

---------------------------------------------------------------------------
(* generateGame. *)

HandOut(m) ==
  /\ reply' = [ok |-> TRUE, game |-> {m}]
  /\ outstanding' = [outstanding EXCEPT ![m] = @ + 1]

Return(ok) ==
  /\ reply' = [ok |-> ok, game |-> {}]
  /\ UNCHANGED <<started, counters, outstanding, aborted>>

AssertFails ==
  /\ aborted' = TRUE
  /\ UNCHANGED <<started, counters, reply, outstanding>>

Open(m) == \E i \in Seen(m) : counters[i].left > 0

(* The first map of cm whose counter is found and has games left. *)
GenerateActiveMap(cm) ==
  \E k \in DOMAIN cm :
    /\ Open(cm[k]) /\ \A j \in 1..k - 1 : ~ Open(cm[j])
    /\ \E i \in Seen(cm[k]) : counters' = [counters EXCEPT ![i].left = @ - 1]
    /\ HandOut(cm[k])
    /\ UNCHANGED <<started, aborted>>

(* Mistake: the game is not taken. *)
CounterNotTaken(m) == [map |-> m, left |-> NumGames, done |-> NumGames]

NewCounter(m) == [map |-> m, left |-> NumGames - 1, done |-> NumGames]

(* Mistake: a second counter for the same map. *)
EmplaceAlways(cs, m) == <<NewCounter(m)>> \o cs

(* emplace, which leaves a container that has the key as it is. *)
Emplace(cs, m) == IF Collides(Keys(cs), m) THEN cs ELSE <<NewCounter(m)>> \o cs

(* Mistake: the finished maps are not subtracted. *)
MapsNotActive(cm) == Difference(cm, Reverse(Keys(counters)))

(* cMaps, less activeMaps (filled in iteration order, hence reversed) and  *)
(* finished[matchup], each if there is one.                                *)
UsableMaps(cm) ==
  LET nonActive == Difference(cm, Reverse(Keys(counters)))
  IN IF finished = <<>> THEN nonActive ELSE Difference(nonActive, finished)

GenerateActiveMatchup(usable) ==
  /\ started /\ usable # <<>>
  /\ IF Seen(Head(usable)) # {} THEN AssertFails
     ELSE /\ counters' = Emplace(counters, Head(usable))
          /\ HandOut(Head(usable))
          /\ UNCHANGED <<started, aborted>>

GenerateNewMatchup(cm) ==
  \/ /\ ~ started
     /\ started' = TRUE
     /\ counters' = Emplace(<<>>, Head(cm))
     /\ HandOut(Head(cm))
     /\ UNCHANGED aborted
  \/ started /\ \E ok \in BOOLEAN : Return(ok)

(* The bots in common less finishedBots, and the maps in common. *)
CommonBots(o) == Difference(Intersection(Bots, o.bots), <<>>)
CommonMaps(o) == Intersection(Maps, o.maps)

(* A client of the ideal situation, "all clients have all bots and maps",  *)
(* and under names that sort like the server's.                            *)
Nice(o) == o.bots = Bots /\ o.maps = Maps

NoneOpen(cm) == \A k \in DOMAIN cm : ~ Open(cm[k])

GenerateGame(o) ==
  /\ ~ aborted
  /\ nice' = (nice /\ Nice(o))
  /\ UNCHANGED <<finished, played>>
  /\ \E cb \in {CommonBots(o)}, cm \in {CommonMaps(o)} :
       IF Len(cb) < 2 \/ cm = <<>> THEN Return(FALSE)
       ELSE \/ GenerateActiveMap(cm)
            \/ /\ NoneOpen(cm)
               /\ \E usable \in {UsableMaps(cm)} :
                    \/ GenerateActiveMatchup(usable)
                    \/ /\ ~ started \/ usable = <<>>
                       /\ GenerateNewMatchup(cm)

---------------------------------------------------------------------------
(* notifySuccess and notifyFail. *)

Returned(m) == outstanding' = [outstanding EXCEPT ![m] = @ - 1]

(* The counter is found; done goes down, or the map is finished. *)
Count(m, i) ==
  IF counters[i].done > 1
  THEN /\ counters' = [counters EXCEPT ![i].done = @ - 1]
       /\ UNCHANGED finished
  ELSE /\ Found(finished, m) = {}
       /\ finished' = Insert(finished, m)
       /\ counters' = RemoveAt(counters, i)

NotifySuccess(m) ==
  /\ ~ aborted /\ outstanding[m] > 0
  /\ \/ /\ \A i \in Seen(m) : counters[i].done <= 1 /\ Found(finished, m) # {}
        /\ AssertFails
        /\ UNCHANGED <<finished, played, nice>>
     \/ /\ \E i \in Seen(m) : Count(m, i)
        /\ Returned(m)
        /\ played' = [played EXCEPT ![m] = @ + 1]
        /\ UNCHANGED <<started, reply, aborted, nice>>

(* Mistake: the failed game is not put back. *)
FailDropsGame(m) ==
  /\ ~ aborted /\ outstanding[m] > 0
  /\ Returned(m)
  /\ UNCHANGED <<started, counters, finished, reply, aborted, played, nice>>

NotifyFail(m) ==
  /\ ~ aborted /\ outstanding[m] > 0
  /\ \/ /\ Seen(m) = {}
        /\ AssertFails
        /\ UNCHANGED <<finished, played, nice>>
     \/ /\ \E i \in Seen(m) : counters' = [counters EXCEPT ![i].left = @ + 1]
        /\ Returned(m)
        /\ UNCHANGED <<started, finished, reply, aborted, played, nice>>

---------------------------------------------------------------------------
Served == Range(Maps)

Init ==
  /\ started = FALSE /\ counters = <<>> /\ finished = <<>>
  /\ reply = [ok |-> FALSE, game |-> {}]
  /\ aborted = FALSE
  /\ outstanding = [m \in Served |-> 0] /\ played = [m \in Served |-> 0]
  /\ nice = TRUE

Given(m) == outstanding[m] + played[m]

Next ==
  \/ \E o \in Offers : (\A m \in Served : Given(m) < MaxGiven) /\ GenerateGame(o)
  \/ \E m \in Served : NotifySuccess(m)
  \/ \E m \in Served : NotifyFail(m)

NiceOffers == {o \in Offers : Nice(o)}

(* Diligence, in a tournament that goes on: nice clients keep asking, and  *)
(* a game handed out again and again is some time played to its end.       *)
Spec ==
  /\ Init /\ [][Next]_vars
  /\ WF_vars(\E o \in NiceOffers : GenerateGame(o))
  /\ \A m \in Served : SF_vars(NotifySuccess(m))

---------------------------------------------------------------------------
(* Properties. *)

(* Every variable keeps its shape; no container outgrows what Containers   *)
(* describes, or holds a map twice.                                        *)
TypeOK ==
  /\ started \in BOOLEAN /\ aborted \in BOOLEAN /\ nice \in BOOLEAN
  /\ \A keys \in {Keys(counters), finished} : keys \in Seq(Served) /\ Unique(keys)
  /\ \A i \in DOMAIN counters : counters[i].left \in Nat /\ counters[i].done \in 1..NumGames
  /\ reply.ok \in BOOLEAN /\ reply.game \subseteq Served
  /\ \A t \in {outstanding, played} : t \in [Served -> 0..MaxGiven]

(* The asserts (GameGenerator.cpp lines 189, 276, 287 and 392) fail in the *)
(* end for one of two reasons.  A game is out of a map that has no         *)
(* counter, or none that a lookup from the root comes to; or of a map      *)
(* whose games were all played when it was given out again.                *)
AbortsOnlyForMissed ==
  aborted => \E m \in Served : outstanding[m] > 0 /\ (Seen(m) = {} \/ played[m] >= NumGames)

(* In the ideal situation of GameGenerator.h line 107, with two maps, the  *)
(* generator keeps its promise although lookups miss: it never hands out   *)
(* more games of a map than there are.                                     *)
Promise == INSTANCE Tournament WITH
  Bots <- {0, 1}, Maps <- Served, Offers <- {[bots |-> {0, 1}, maps |-> Served]},
  played <- [g \in [bot0 : {0}, bot1 : {1}, map : Served] |-> played[g.map]],
  outstanding <- [g \in [bot0 : {0}, bot1 : {1}, map : Served] |-> outstanding[g.map]]

NicePromise == [][nice' => Promise!Next \/ UNCHANGED tallies]_vars

(* ... and each game out has a counter that accounts for it, seen or not.  *)
NiceCounters ==
  nice => \A m \in Served :
    LET cs == {counters[i] : i \in FoundAnywhere(Keys(counters), m)}
    IN /\ cs = {} => outstanding[m] = 0 /\ played[m] \in {0, NumGames}
       /\ \A c \in cs : c.done = NumGames - played[m] /\ c.done - c.left = outstanding[m]

(* A tournament among nice clients is played to its end or ended by an     *)
(* assert: a counter no lookup comes to is come to once those in front of  *)
(* it are finished.                                                        *)
NiceTournamentEnds == <>(~ nice \/ aborted \/ \A m \in Served : played[m] = NumGames)

---------------------------------------------------------------------------
(* What the sources say of it and it does not do: there are numGames games *)
(* "on each map" (config.h line 40), and one handed out has a counter it   *)
(* is taken from.                                                          *)
NeverOverdrawn == \A m \in Served : Given(m) <= NumGames

===========================================================================
