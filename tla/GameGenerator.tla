--------------------------- MODULE GameGenerator ---------------------------
(***************************************************************************)
(* The server's GameGenerator (src/server/GameGenerator.cpp): which game a *)
(* client is given next, and what a reported result does to the schedule.  *)
(* All sets and maps of the class are those of module Containers, in which *)
(* lookups miss: the functors of HashSet, CounterMap and MatchupMap all    *)
(* return a three-way comparison as a bool.                                *)
(*                                                                         *)
(* A tournament has up to three bots, hence three matchups: then no tree   *)
(* outgrows what Containers describes.  A SHA256Hash of a bot is a number, *)
(* so that SHA256Hash::compare is the order of the numbers.  An entry of a *)
(* map is a std::pair, [first, second].                                    *)
(***************************************************************************)
EXTENDS Containers, FiniteSets

CONSTANTS
  Bots,      \* GameGenerator::bots in iteration order
  Maps,      \* GameGenerator::maps in iteration order
  NumGames,  \* config.h numGames
  Offers,    \* [bots, maps] HashSets clients announce, in iteration order
  MaxGiven   \* bound on the copies of a game handed out, reported or not

ASSUME GeneratorAssumption ==
  /\ Bots \in Seq(Nat) /\ Len(Bots) <= 3 /\ Unique(Bots)
  /\ Maps \in Seq(Range(Maps)) /\ Len(Maps) <= 3 /\ Unique(Maps)
  /\ NumGames \in Nat \ {0}
  /\ \A o \in Offers : /\ o.bots \in Seq(Nat) /\ Len(o.bots) <= MaxNodes
                       /\ o.maps \in Seq(Range(o.maps)) /\ Len(o.maps) <= MaxNodes
  /\ MaxGiven \in Nat

VARIABLES
  active,        \* MatchupMap: matchup, CounterMap: map, [left, done]
  finished,      \* FinishedMap: matchup, HashSet of the maps it has completed
  finishedBots,  \* HashSet of the bots that take no further part
  reply,         \* what the last generateGame returned and left in its Game
  aborted,       \* "no", or which assert failed: the process is gone
  outstanding,   \* game |-> copies handed out and not reported (clients)
  played         \* game |-> successes reported so far (history)

schedule == <<active, finished, finishedBots>>
tallies == <<outstanding, played>>
vars == <<active, finished, finishedBots, reply, aborted, outstanding, played>>

---------------------------------------------------------------------------
(* Matchups, games and the maps of the class. *)

Matchup(b0, b1) == IF b0 < b1 THEN <<b0, b1>> ELSE <<b1, b0>>

GameOn(p, m) == [bot0 |-> p[1], bot1 |-> p[2], map |-> m]

Games ==
  {g \in [bot0 : Range(Bots), bot1 : Range(Bots), map : Range(Maps)] : g.bot0 < g.bot1}

MatchupOf(g) == <<g.bot0, g.bot1>>

Matchups == {MatchupOf(g) : g \in Games}

(* Mistakes: the game is not taken, or it is taken from both numbers. *)
CounterNotTaken == [left |-> NumGames, done |-> NumGames]
CounterTakenTwice == [left |-> NumGames - 1, done |-> NumGames - 1]

(* A counter from which one game has been taken. *)
NewCounter == [left |-> NumGames - 1, done |-> NumGames]

Keys(map) == [i \in DOMAIN map |-> map[i].first]

(* map.find(key) # end(), the iterator it returns, and what that points to. *)
Has(map, key) == Found(Keys(map), key) # {}

Position(map, key) == Find(Keys(map), key)

At(map, key) == map[Position(map, key)].second

(* An assignment through that iterator. *)
Update(map, key, value) == [map EXCEPT ![Position(map, key)].second = value]

(* Mistake: a second entry for the same key. *)
EmplaceAlways(map, key, value) == <<[first |-> key, second |-> value]>> \o map

(* map.emplace(key, value), which leaves a map that has the key as it is. *)
Emplace(map, key, value) ==
  IF Collides(Keys(map), key) THEN map
  ELSE <<[first |-> key, second |-> value]>> \o map

(* map.erase(key). *)
Erase(map, key) ==
  LET erased == Erased(Keys(map), key)
  IN IF erased = {} THEN map
     ELSE SubSeq(map, 1, Min(erased) - 1) \o SubSeq(map, Max(erased) + 1, Len(map))

---------------------------------------------------------------------------
(* generateGame: the three generators, tried in this order. *)

(* The nested loops over the bots of cb: pairings, and the first one in P. *)
Visits(cb) == {v \in (DOMAIN cb) \X (DOMAIN cb) : v[1] < v[2]}

Pairing(cb, v) == Matchup(cb[v[1]], cb[v[2]])

Before(u, v) == u[1] < v[1] \/ (u[1] = v[1] /\ u[2] < v[2])

First(cb, P) ==
  {Pairing(cb, v) : v \in {u \in Visits(cb) : /\ Pairing(cb, u) \in P
      /\ \A w \in Visits(cb) : Before(w, u) => Pairing(cb, w) \notin P}}

(* The caller's Game is filled in and the game leaves for a client. *)
HandOut(p, m) ==
  /\ reply' = [ok |-> TRUE, game |-> {GameOn(p, m)}]
  /\ outstanding' = [outstanding EXCEPT ![GameOn(p, m)] = @ + 1]
  /\ UNCHANGED aborted

(* No game is filled in; the caller sees the given return value. *)
Return(ok) ==
  /\ reply' = [ok |-> ok, game |-> {}]
  /\ UNCHANGED <<active, aborted, outstanding>>

HasCounter(p, m) == Has(active, p) /\ Has(At(active, p), m)

CounterOf(p, m) == At(At(active, p), m)

SetCounter(p, m, counter) ==
  active' = Update(active, p, Update(At(active, p), m, counter))

(* The maps of cm on which a matchup still has games to give. *)
Open(p, cm) == {k \in DOMAIN cm : HasCounter(p, cm[k]) /\ CounterOf(p, cm[k]).left > 0}

OpenMatchups(cm) == {p \in Matchups : Open(p, cm) # {}}

GenerateActiveMap(cb, cm) ==
  \E p \in First(cb, OpenMatchups(cm)) :
    LET m == cm[Min(Open(p, cm))]
    IN /\ SetCounter(p, m, [CounterOf(p, m) EXCEPT !.left = @ - 1])
       /\ HandOut(p, m)

Started == {p \in Matchups : Has(active, p) \/ Has(finished, p)}

(* Mistake: the active maps are not subtracted. *)
MapsNotFinished(p, cm) ==
  IF Has(finished, p) THEN Difference(cm, At(finished, p)) ELSE cm

(* cMaps, less activeMaps (filled in iteration order, hence reversed) and  *)
(* the finished maps, each if the matchup is found there.                  *)
UsableMaps(p, cm) ==
  LET nonActive == IF Has(active, p) THEN Difference(cm, Reverse(Keys(At(active, p)))) ELSE cm
  IN IF Has(finished, p) THEN Difference(nonActive, At(finished, p)) ELSE nonActive

(* cMaps is narrowed for good: if the first started matchup leaves no map, *)
(* neither does a later one.                                               *)
Extendable(cb, cm) == {p \in First(cb, Started) : UsableMaps(p, cm) # <<>>}

AssertFails(which) ==
  /\ aborted' = which
  /\ UNCHANGED <<active, reply, outstanding>>

(* active[matchup] finds the matchup: FinishedStillActive. *)
GenerateActiveMatchup(cb, cm) ==
  \E p \in Extendable(cb, cm) :
    LET m == Head(UsableMaps(p, cm))
    IN IF HasCounter(p, m) THEN AssertFails("active")
       ELSE /\ active' = Update(active, p, Emplace(At(active, p), m, NewCounter))
            /\ HandOut(p, m)

(* The keys of active, then those of finished, inserted one by one. *)
ActiveMatchups ==
  LET keys == Keys(active) \o Keys(finished)
      set[n \in 0..Len(keys)] == IF n = 0 THEN <<>> ELSE Insert(set[n - 1], keys[n])
  IN set[Len(keys)]

NewMatchups == {p \in Matchups : Found(ActiveMatchups, p) = {}}

(* When every pairing is found control runs off the end of the function:   *)
(* the caller gets an unspecified bool and an untouched Game.              *)
GenerateNewMatchup(cb, cm) ==
  \/ \E p \in First(cb, NewMatchups) :
       /\ active' = Emplace(active, p, Emplace(<<>>, Head(cm), NewCounter))
       /\ HandOut(p, Head(cm))
  \/ /\ First(cb, NewMatchups) = {}
     /\ \E ok \in BOOLEAN : Return(ok)

CommonBots(o) == Difference(Intersection(Bots, o.bots), finishedBots)

(* Mistake: what maps the client has is not looked at. *)
AllMaps(o) == Reverse(Maps)

CommonMaps(o) == Intersection(Maps, o.maps)

(* Mistake: two bots are too few. *)
TooFewForTwo(cb, cm) == Len(cb) <= 2 \/ cm = <<>>

TooFew(cb, cm) == Len(cb) < 2 \/ cm = <<>>

GenerateGame(o) ==
  /\ aborted = "no"
  /\ \E cb \in {CommonBots(o)}, cm \in {CommonMaps(o)} :
       \/ TooFew(cb, cm) /\ Return(FALSE)
       \/ /\ ~ TooFew(cb, cm)
          /\ \E open \in {First(cb, OpenMatchups(cm))} :
               \/ GenerateActiveMap(cb, cm)
               \/ open = {} /\ GenerateActiveMatchup(cb, cm)
               \/ open = {} /\ Extendable(cb, cm) = {} /\ GenerateNewMatchup(cb, cm)
  /\ UNCHANGED <<finished, finishedBots, played>>

---------------------------------------------------------------------------
(* notifySuccess and notifyFail: a client's report on a game it was given. *)

(* Some game of g's set of games is still to be confirmed after this one. *)
CountDown(p, m) ==
  /\ CounterOf(p, m).done > 1
  /\ SetCounter(p, m, [CounterOf(p, m) EXCEPT !.done = @ - 1])
  /\ UNCHANGED <<finished, finishedBots>>

(* The assert that the map has not ended before calls finished[matchup]    *)
(* twice.  The first entry stays and is found again.  A key other than     *)
(* that entry's is never found: each call hangs a new entry below it, and  *)
(* iterators of two different sets are compared.                           *)
NotEnded(p, m) ==
  \/ finished = <<>>
  \/ Has(finished, p) /\ Found(At(finished, p), m) = {}

(* finished[matchup].insert(map) *)
FinishedWith(p, m) ==
  IF finished = <<>> THEN <<[first |-> p, second |-> <<m>>]>>
  ELSE Update(finished, p, Insert(At(finished, p), m))

(* The entries of b in fin, and among them one with a map missing: the     *)
(* comparison is by the number of maps.                                    *)
EntriesOf(b, fin) == {e \in Range(fin) : b \in Range(e.first)}

(* Mistake: one map is enough. *)
NothingFinished(b, fin) == \E e \in EntriesOf(b, fin) : e.second = <<>>

Unfinished(b, fin) == \E e \in EntriesOf(b, fin) : Len(e.second) # Len(Maps)

(* The "done" sets collected for the two bots of the game.  For bot0 it is *)
(* its opponents; for bot1 the two arms of the conditional are exchanged,  *)
(* and what is collected is bot1 itself.                                   *)
Bot0Done(b, fin) ==
  {IF e.first[1] = b THEN e.first[2] ELSE e.first[1] : e \in EntriesOf(b, fin)}

Bot1Done(b, fin) ==
  {IF e.first[1] = b THEN e.first[1] ELSE e.first[2] : e \in EntriesOf(b, fin)}

(* bot0Fail and bot1Fail: a bot whose set has all the other bots "fails".  *)
Fails(b, fin, done) == Unfinished(b, fin) \/ Cardinality(done) = Len(Bots) - 1

(* The bots that do not, in the order in which they are retired. *)
RetiredBy(p, fin) ==
  (IF Fails(p[1], fin, Bot0Done(p[1], fin)) THEN <<>> ELSE <<p[1]>>)
    \o (IF Fails(p[2], fin, Bot1Done(p[2], fin)) THEN <<>> ELSE <<p[2]>>)

InsertAll(set, hs) ==
  LET rest[n \in 0..Len(hs)] == IF n = 0 THEN set ELSE Insert(rest[n - 1], hs[n])
  IN rest[Len(hs)]

(* What the loop over the bots erases at bot b for the kth of those that   *)
(* retire; the matchup of a bot with itself, which the code skips, is a    *)
(* key of nothing.                                                         *)
EraseMatchup(map, retired, k, b) ==
  IF k <= Len(retired) THEN Erase(map, Matchup(retired[k], b)) ELSE map

Purged(map, retired) ==
  LET rest[n \in 0..Len(Bots)] ==
        IF n = 0 THEN map
        ELSE EraseMatchup(EraseMatchup(rest[n - 1], retired, 1, Bots[n]), retired, 2, Bots[n])
  IN rest[Len(Bots)]

(* Mistake: the matchup leaves active with its last counter. *)
WithoutEmpty(p, m) ==
  IF Len(At(active, p)) = 1 THEN Erase(active, p) ELSE Update(active, p, Erase(At(active, p), m))

WithoutCounter(p, m) == Update(active, p, Erase(At(active, p), m))

(* The map is finished for this matchup, and with it perhaps its bots. *)
FinishMap(p, m) ==
  LET act == WithoutCounter(p, m)
      fin == FinishedWith(p, m)
      retired == RetiredBy(p, fin)
  IN /\ CounterOf(p, m).done <= 1 /\ NotEnded(p, m)
     /\ active' = Purged(act, retired)
     /\ finished' = Purged(fin, retired)
     /\ finishedBots' = InsertAll(finishedBots, retired)

NotifySuccess(g) ==
  LET p == Matchup(g.bot0, g.bot1)
      m == g.map
  IN /\ aborted = "no" /\ outstanding[g] > 0
     /\ \/ /\ ~ HasCounter(p, m) /\ AssertFails("reported")
           /\ UNCHANGED <<finished, finishedBots, played>>
        \/ /\ HasCounter(p, m) /\ CounterOf(p, m).done <= 1 /\ ~ NotEnded(p, m)
           /\ AssertFails("ended")
           /\ UNCHANGED <<finished, finishedBots, played>>
        \/ /\ HasCounter(p, m)
           /\ CountDown(p, m) \/ FinishMap(p, m)
           /\ outstanding' = [outstanding EXCEPT ![g] = @ - 1]
           /\ played' = [played EXCEPT ![g] = @ + 1]
           /\ UNCHANGED <<reply, aborted>>

(* Mistake: the failed game is not put back. *)
FailDropsGame(g) ==
  /\ aborted = "no" /\ outstanding[g] > 0
  /\ HasCounter(Matchup(g.bot0, g.bot1), g.map)
  /\ outstanding' = [outstanding EXCEPT ![g] = @ - 1]
  /\ UNCHANGED <<active, finished, finishedBots, reply, aborted, played>>

NotifyFail(g) ==
  LET p == Matchup(g.bot0, g.bot1)
      m == g.map
  IN /\ aborted = "no" /\ outstanding[g] > 0
     /\ \/ ~ HasCounter(p, m) /\ AssertFails("reported")
        \/ /\ HasCounter(p, m)
           /\ SetCounter(p, m, [CounterOf(p, m) EXCEPT !.left = @ + 1])
           /\ outstanding' = [outstanding EXCEPT ![g] = @ - 1]
           /\ UNCHANGED <<reply, aborted>>
     /\ UNCHANGED <<finished, finishedBots, played>>

---------------------------------------------------------------------------
Init ==
  /\ active = <<>> /\ finished = <<>> /\ finishedBots = <<>>
  /\ reply = [ok |-> FALSE, game |-> {}]
  /\ aborted = "no"
  /\ outstanding = [g \in Games |-> 0] /\ played = [g \in Games |-> 0]

Given(g) == outstanding[g] + played[g]

Next ==
  \/ \E o \in Offers : GenerateGame(o) /\ \A g \in Games : Given(g)' <= MaxGiven
  \/ \E g \in Games : NotifySuccess(g)
  \/ \E g \in Games : NotifyFail(g)

Spec == Init /\ [][Next]_vars

---------------------------------------------------------------------------
(* Properties. *)

(* Every variable keeps its shape: no tree outgrows what Containers        *)
(* describes, and no map has two counters in one CounterMap.               *)
CountersOK(cs) ==
  /\ Keys(cs) \in Seq(Range(Maps)) /\ Unique(Keys(cs))
  /\ \A i \in DOMAIN cs : cs[i].second.left \in Nat /\ cs[i].second.done \in 1..NumGames

TypeOK ==
  /\ Keys(active) \in Seq(Matchups) /\ Len(active) <= MaxNodes
  /\ \A i \in DOMAIN active : CountersOK(active[i].second)
  /\ Keys(finished) \in Seq(Matchups) /\ Len(finished) <= 1
  /\ \A i \in DOMAIN finished :
       finished[i].second \in Seq(Range(Maps)) /\ Unique(finished[i].second)
  /\ finishedBots \in Seq(Range(Bots)) /\ Len(finishedBots) <= MaxNodes
  /\ reply.ok \in BOOLEAN /\ reply.game \subseteq Games
  /\ aborted \in {"no", "active", "reported", "ended"}
  /\ \A t \in {outstanding, played} : t \in [Games -> Nat]

(* A matchup that is found in finished is found in active, however many    *)
(* were started since: active[matchup] in generateActiveMatchup (lines 189 *)
(* and 197) never hangs a new entry over one that is in its place.         *)
FinishedStillActive == \A i \in DOMAIN finished : Has(active, finished[i].first)

(* A map moves to finished after no fewer successes than there are games,  *)
(* although copies that no counter counts are reported as well.            *)
FinishedMeansPlayed ==
  \A i \in DOMAIN finished : \A m \in Range(finished[i].second) :
    played[GameOn(finished[i].first, m)] >= NumGames

(* What is left of "every matchup has been played on every map" for a bot  *)
(* in finishedBots: one of its matchups has been.                          *)
RetiredPlayedAMatchup ==
  \A b \in Range(finishedBots) : \E p \in Matchups :
    b \in Range(p) /\ \A m \in Range(Maps) : played[GameOn(p, m)] >= NumGames

(* Until a bot is retired no game is lost: those a counter has given away  *)
(* and not got back are with clients, whatever fails and whichever lookups *)
(* missed before ("The difference between these two numbers is the number  *)
(* of games currently being played", GameGenerator.h line 28).             *)
NoGameLost ==
  finishedBots = <<>> =>
    \A g \in Games : HasCounter(MatchupOf(g), g.map) =>
      LET c == CounterOf(MatchupOf(g), g.map) IN c.done - c.left <= outstanding[g]

(* The reasons an assert has to fail.  Line 189: a matchup has counters    *)
(* for three maps, which is more than set_difference takes away.  Lines    *)
(* 271, 276, 387, 392: the lookup of a game that is out misses.  Line 287: *)
(* a game is out of a matchup while another one has finished a map, or of  *)
(* a map that was played to its end before.                                *)
AbortsExplained ==
  /\ aborted = "active" => \E p \in Matchups : Has(active, p) /\ Len(At(active, p)) = 3
  /\ aborted = "reported" =>
       \E g \in Games : outstanding[g] > 0 /\ ~ HasCounter(MatchupOf(g), g.map)
  /\ aborted = "ended" =>
       \E g \in Games : /\ outstanding[g] > 0
                        /\ ~ Has(finished, MatchupOf(g)) \/ played[g] >= NumGames

(* No game goes out to a client that lacks a bot or the map of it, in      *)
(* whatever order its names sort and whatever was given out before.        *)
Owns(o, g) == {g.bot0, g.bot1} \subseteq Range(o.bots) /\ g.map \in Range(o.maps)

OwnersServed ==
  [][\A g \in Games : outstanding'[g] > outstanding[g] =>
       \A o \in Offers : Owns(o, g) \/ ~ GenerateGame(o)]_vars

---------------------------------------------------------------------------
(* What the sources say of the generator and it does not do: finishedBots  *)
(* is "the set of bots that have played all of their matchups"             *)
(* (GameGenerator.h line 123).                                             *)
FinishedBotsPlayedAll ==
  \A g \in Games :
    {g.bot0, g.bot1} \cap Range(finishedBots) # {} => played[g] >= NumGames

(* "It shouldn't have ended before" (GameGenerator.cpp line 286): if that  *)
(* assert fails, the map had ended.                                        *)
OnlyEndedRefused ==
  aborted = "ended" => \E g \in Games : outstanding[g] > 0 /\ played[g] >= NumGames

============================================================================
