------------------------- MODULE GameGeneratorProofs -------------------------
(***************************************************************************)
(* Theorems about GameGenerator, for up to three bots and three maps, any  *)
(* number of games and any clients.  What carries them is that the keys of *)
(* the trees stay distinct where an insert looks (Spine), so that no tree  *)
(* outgrows what Containers describes, and that a matchup, once lookups    *)
(* come to it, is come to until it is purged.                              *)
(***************************************************************************)
EXTENDS GameGenerator, Foundations

(* What is in a std::map: entries of keys in K and values in V. *)
Entry(K, V) == [first : K, second : V]

Counter == [left : Nat, done : 1..NumGames]

CounterMaps == {cs \in Seq(Entry(Range(Maps), Counter)) : Unique(Keys(cs))}

MapSets == {ms \in Seq(Range(Maps)) : Unique(ms)}

(* Four keys at most, and those that the descent of an insert compares are *)
(* different where they have to be for the next insert to be refused.      *)
Spine(keys) ==
  /\ Len(keys) <= 4
  /\ Len(keys) >= 3 => keys[1] # keys[2]
  /\ Len(keys) = 4 => keys[1] # keys[3] /\ keys[2] # keys[3]

Typed ==
  /\ active \in Seq(Entry(Matchups, CounterMaps)) /\ Spine(Keys(active))
  /\ finished \in Seq(Entry(Matchups, MapSets)) /\ Len(finished) <= 1
  /\ finishedBots \in Seq(Range(Bots)) /\ Spine(finishedBots)
  /\ reply \in [ok : BOOLEAN, game : SUBSET Games]
  /\ aborted \in {"no", "active", "reported", "ended"}
  /\ outstanding \in [Games -> Nat] /\ played \in [Games -> Nat]

(* No counter forgets a game that was played. *)
Tally(cs, p, plays) ==
  \A j \in DOMAIN cs : cs[j].second.done + plays[GameOn(p, cs[j].first)] >= NumGames

Tallied == \A i \in DOMAIN active : Tally(active[i].second, active[i].first, played)

(* The inductive invariant.  FinishedStillActive is what keeps operator[]  *)
(* from hanging a new entry; Tallied is what makes a counter reach its     *)
(* last success only after NumGames of them.                               *)
IInv ==
  /\ Typed /\ FinishedStillActive /\ Tallied
  /\ FinishedMeansPlayed /\ RetiredPlayedAMatchup /\ AbortsExplained

---------------------------------------------------------------------------
(* The constants. *)

(* The assumption on the constants, with the bots and maps counted out. *)
LEMMA ConstantsTyped ==
  /\ Bots \in Seq(Nat) /\ Len(Bots) \in 0..3 /\ DOMAIN Bots = 1..Len(Bots)
  /\ \A i \in 1..Len(Bots) : Bots[i] \in Nat
  /\ Maps \in Seq(Range(Maps)) /\ Len(Maps) \in 0..3 /\ DOMAIN Maps = 1..Len(Maps)
  /\ Unique(Maps) /\ NumGames \in Nat \ {0} /\ MaxGiven \in Nat
<1>1. /\ Bots \in Seq(Nat) /\ Len(Bots) <= 3 /\ Maps \in Seq(Range(Maps)) /\ Len(Maps) <= 3
      /\ Unique(Maps) /\ NumGames \in Nat \ {0} /\ MaxGiven \in Nat
  BY GeneratorAssumption
<1>2. /\ Len(Bots) \in Nat /\ DOMAIN Bots = 1..Len(Bots)
      /\ Len(Maps) \in Nat /\ DOMAIN Maps = 1..Len(Maps)
  BY <1>1, LenProperties
<1>3. Len(Bots) \in 0..3 /\ Len(Maps) \in 0..3
  <2> DEFINE b == Len(Bots)
             m == Len(Maps)
  <2>1. b \in Nat /\ b <= 3 /\ m \in Nat /\ m <= 3
    BY <1>1, <1>2
  <2> HIDE DEF b, m
  <2>2. b \in 0..3 /\ m \in 0..3
    BY <2>1
  <2> QED
    BY <2>2 DEF b, m
<1> QED
  BY <1>1, <1>2, <1>3

(* The bots of a matchup, by their places among the server's. *)
LEMMA MatchupPlaces ==
  ASSUME NEW p \in Matchups
  PROVE  \E i, j \in {1, 2, 3} :
           /\ i # j /\ i <= Len(Bots) /\ j <= Len(Bots)
           /\ p = <<Bots[i], Bots[j]>> /\ Bots[i] < Bots[j]
<1>1. PICK g \in Games : p = <<g.bot0, g.bot1>>
  BY DEF Matchups, MatchupOf
<1>2. g.bot0 \in Range(Bots) /\ g.bot1 \in Range(Bots) /\ g.bot0 < g.bot1
  BY DEF Games
<1>3. PICK i \in 1..Len(Bots), j \in 1..Len(Bots) : g.bot0 = Bots[i] /\ g.bot1 = Bots[j]
  BY <1>2, ConstantsTyped DEF Range
<1>4. i \in {1, 2, 3} /\ j \in {1, 2, 3} /\ i <= Len(Bots) /\ j <= Len(Bots)
  <2> DEFINE n == Len(Bots)
  <2>1. n \in 0..3 /\ i \in 1..n /\ j \in 1..n
    BY ConstantsTyped
  <2> HIDE DEF n
  <2>2. i \in {1, 2, 3} /\ j \in {1, 2, 3} /\ i <= n /\ j <= n
    BY <2>1
  <2> QED
    BY <2>2 DEF n
<1>5. Bots[i] \in Nat /\ Bots[j] \in Nat
  BY <1>3, ConstantsTyped
<1>6. i # j
  BY <1>2, <1>3, <1>5
<1> QED
  BY <1>1, <1>2, <1>3, <1>4, <1>6

(* Three bots make three matchups. *)
LEMMA ThreeMatchups ==
  ASSUME NEW p \in Matchups, NEW q \in Matchups, NEW r \in Matchups, NEW s \in Matchups,
         p # q, p # r, q # r
  PROVE  s \in {p, q, r}
<1> DEFINE Sum(x, n) == \E i, j \in {1, 2, 3} :
             /\ i # j /\ i <= Len(Bots) /\ j <= Len(Bots) /\ n = i + j
             /\ x = <<Bots[i], Bots[j]>> /\ Bots[i] < Bots[j]
<1>1. \A x \in Matchups : \E n \in {3, 4, 5} : Sum(x, n)
  <2> SUFFICES ASSUME NEW x \in Matchups PROVE \E n \in {3, 4, 5} : Sum(x, n)
    OBVIOUS
  <2>1. PICK i \in {1, 2, 3}, j \in {1, 2, 3} :
          /\ i # j /\ i <= Len(Bots) /\ j <= Len(Bots)
          /\ x = <<Bots[i], Bots[j]>> /\ Bots[i] < Bots[j]
    BY MatchupPlaces
  <2>2. i + j \in {3, 4, 5}
    BY <2>1
  <2> QED
    BY <2>1, <2>2
<1>2. ASSUME NEW x \in Matchups, NEW y \in Matchups, NEW n \in {3, 4, 5}, Sum(x, n), Sum(y, n)
      PROVE  x = y
  <2>1. PICK i \in {1, 2, 3}, j \in {1, 2, 3} :
          /\ i # j /\ i <= Len(Bots) /\ j <= Len(Bots) /\ n = i + j
          /\ x = <<Bots[i], Bots[j]>> /\ Bots[i] < Bots[j]
    BY <1>2
  <2>2. PICK k \in {1, 2, 3}, l \in {1, 2, 3} :
          /\ k # l /\ k <= Len(Bots) /\ l <= Len(Bots) /\ n = k + l
          /\ y = <<Bots[k], Bots[l]>> /\ Bots[k] < Bots[l]
    BY <1>2
  <2>3. (k = i /\ l = j) \/ (k = j /\ l = i)
    BY <2>1, <2>2
  <2>4. ~ (k = j /\ l = i)
    <3>1. i \in 1..Len(Bots) /\ j \in 1..Len(Bots)
      BY <2>1, ConstantsTyped
    <3>2. Bots[i] \in Nat /\ Bots[j] \in Nat
      BY <3>1, ConstantsTyped
    <3> QED
      BY <2>1, <2>2, <3>2
  <2> QED
    BY <2>1, <2>2, <2>3, <2>4
<1> HIDE DEF Sum
<1> QED
  BY <1>1, <1>2

---------------------------------------------------------------------------
(* Maps. *)

(* A map is made of entries, and its keys are theirs. *)
LEMMA KeysOf ==
  ASSUME NEW K, NEW V, NEW map \in Seq(Entry(K, V))
  PROVE  /\ Len(map) \in Nat /\ DOMAIN map = 1..Len(map)
         /\ Keys(map) \in Seq(K) /\ Len(Keys(map)) = Len(map) /\ DOMAIN Keys(map) = 1..Len(map)
         /\ \A i \in 1..Len(map) : /\ map[i].first \in K /\ map[i].second \in V
                                   /\ Keys(map)[i] = map[i].first
<1>1. /\ Len(map) \in Nat /\ DOMAIN map = 1..Len(map)
      /\ \A i \in 1..Len(map) : map[i] \in Entry(K, V)
  BY LenProperties
<1>2. \A i \in 1..Len(map) : map[i].first \in K /\ map[i].second \in V
  BY <1>1 DEF Entry
<1>3. DOMAIN Keys(map) = 1..Len(map) /\ \A i \in 1..Len(map) : Keys(map)[i] = map[i].first
  BY <1>1 DEF Keys
<1>4. Keys(map) \in [1..Len(map) -> K]
  BY <1>1, <1>2 DEF Keys
<1>5. Keys(map) \in Seq(K) /\ Len(Keys(map)) = Len(map)
  BY <1>1, <1>4, FunctionSeq
<1> QED
  BY <1>1, <1>2, <1>3, <1>5

(* Where the root is. *)
LEMMA RootOf ==
  ASSUME NEW s
  PROVE  /\ Len(s) = 1 => Root(s) = 1
         /\ Len(s) = 2 => Root(s) = 2
         /\ Len(s) = 3 => Root(s) = 2
         /\ Len(s) = 4 => Root(s) = 3
<1>1. Len(s) = 1 => <<1, 2, 2, 3>>[Len(s)] = 1
  OBVIOUS
<1>2. Len(s) = 2 => <<1, 2, 2, 3>>[Len(s)] = 2
  OBVIOUS
<1>3. Len(s) = 3 => <<1, 2, 2, 3>>[Len(s)] = 2
  OBVIOUS
<1>4. Len(s) = 4 => <<1, 2, 2, 3>>[Len(s)] = 3
  OBVIOUS
<1> QED
  BY <1>1, <1>2, <1>3, <1>4 DEF Root

(* A lookup that comes to a key comes to it where it is; so do at and      *)
(* operator[].                                                             *)
LEMMA PositionOf ==
  ASSUME NEW K, NEW V, NEW map \in Seq(Entry(K, V)), NEW key, Has(map, key)
  PROVE  /\ Position(map, key) \in 1..Len(map)
         /\ Position(map, key) \in Found(Keys(map), key)
         /\ map[Position(map, key)].first = key
         /\ At(map, key) = map[Position(map, key)].second /\ At(map, key) \in V
<1> DEFINE F == Found(Keys(map), key)
           n == Len(map)
<1>1. DOMAIN Keys(map) = 1..n /\ \A i \in 1..n : Keys(map)[i] = map[i].first /\ map[i].second \in V
  BY KeysOf
<1>2. F \subseteq 1..n /\ \A i \in F : Keys(map)[i] = key
  BY <1>1 DEF Found, Less
<1>3. F # {}
  BY DEF Has
<1>4. n \in Nat
  BY KeysOf
<1> HIDE DEF F, n
<1>5. F \subseteq Nat
  BY <1>2, <1>4
<1>6. \E x \in F : \A y \in F : x <= y
  BY <1>3, <1>5, LeastElement
<1>7. Min(F) \in F
  BY <1>6 DEF Min
<1>8. Position(map, key) = Min(F)
  BY DEF Position, Find, F
<1> QED
  BY <1>1, <1>2, <1>7, <1>8 DEF At, F, n

(* An assignment through an iterator changes that one value. *)
LEMMA Updated ==
  ASSUME NEW K, NEW V, NEW map \in Seq(Entry(K, V)), NEW key, Has(map, key), NEW v \in V,
         NEW new, new = Update(map, key, v)
  PROVE  /\ new \in Seq(Entry(K, V)) /\ Len(new) = Len(map) /\ Keys(new) = Keys(map)
         /\ \A i \in 1..Len(map) :
              /\ new[i].first = map[i].first
              /\ new[i].second = IF i = Position(map, key) THEN v ELSE map[i].second
<1> DEFINE k == Position(map, key)
           n == Len(map)
<1>1. /\ n \in Nat /\ DOMAIN map = 1..n
      /\ \A i \in 1..n : /\ map[i] \in Entry(K, V)
                         /\ map[i] = [first |-> map[i].first, second |-> map[i].second]
                         /\ map[i].first \in K
  <2>1. n \in Nat /\ DOMAIN map = 1..n /\ \A i \in 1..n : map[i] \in Entry(K, V)
    BY LenProperties
  <2>2. \A e \in Entry(K, V) : e = [first |-> e.first, second |-> e.second] /\ e.first \in K
    BY DEF Entry
  <2> QED
    BY <2>1, <2>2, Zenon
<1>2. k \in 1..n
  BY PositionOf
<1>3. new = [i \in 1..n |-> IF i = k THEN [map[i] EXCEPT !.second = v] ELSE map[i]]
  BY <1>1, <1>2 DEF Update
<1>4. \A i \in 1..n : /\ new[i] \in Entry(K, V) /\ new[i].first = map[i].first
                      /\ new[i].second = IF i = k THEN v ELSE map[i].second
  <2> SUFFICES ASSUME NEW i \in 1..n
               PROVE  /\ new[i] \in Entry(K, V) /\ new[i].first = map[i].first
                      /\ new[i].second = IF i = k THEN v ELSE map[i].second
    OBVIOUS
  <2>1. CASE i = k
    <3>1. new[i] = [first |-> map[i].first, second |-> v]
      <4>1. new[i] = [map[i] EXCEPT !.second = v]
        BY <1>3, <2>1
      <4>2. map[i] = [first |-> map[i].first, second |-> map[i].second]
        BY <1>1
      <4> DEFINE f == map[i].first
                 s == map[i].second
      <4>3. map[i] = [first |-> f, second |-> s]
        BY <4>2
      <4> HIDE DEF f, s
      <4> QED
        BY <4>1, <4>3 DEF f
    <3> QED
      BY <1>1, <2>1, <3>1 DEF Entry
  <2>2. CASE i # k
    <3>1. new[i] = map[i]
      BY <1>3, <2>2
    <3> QED
      BY <1>1, <2>2, <3>1
  <2> QED
    BY <2>1, <2>2
<1>5. DOMAIN new = 1..n
  BY <1>3
<1> HIDE DEF k
<1>6. new \in Seq(Entry(K, V)) /\ Len(new) = n
  <2>1. new \in [1..n -> Entry(K, V)]
    BY <1>3, <1>4
  <2> HIDE DEF n
  <2> QED
    BY <1>1, <2>1, FunctionSeq
<1>7. Keys(new) = Keys(map)
  <2> QED
    BY <1>1, <1>4, <1>5 DEF Keys
<1> QED
  BY <1>4, <1>6, <1>7 DEF k

(* An emplace that is not refused puts its entry in front. *)
LEMMA Emplaced ==
  ASSUME NEW K, NEW V, NEW map \in Seq(Entry(K, V)), NEW key \in K, NEW v \in V,
         ~ Collides(Keys(map), key), NEW new, new = Emplace(map, key, v)
  PROVE  /\ new \in Seq(Entry(K, V)) /\ Len(new) = Len(map) + 1
         /\ new[1].first = key /\ new[1].second = v
         /\ \A i \in 1..Len(map) : new[i + 1] = map[i]
         /\ Keys(new)[1] = key /\ \A i \in 1..Len(map) : Keys(new)[i + 1] = Keys(map)[i]
<1> DEFINE e == [first |-> key, second |-> v]
           n == Len(map)
<1>1. new = <<e>> \o map
  BY DEF Emplace
<1>2. e \in Entry(K, V)
  BY DEF Entry
<1> HIDE DEF e
<1>3. /\ new \in Seq(Entry(K, V)) /\ Len(new) = n + 1 /\ new[1] = e
      /\ \A i \in 1..n : new[i + 1] = map[i]
  BY <1>1, <1>2, Prepended
<1>4. \A i \in 1..n + 1 : Keys(new)[i] = new[i].first
  BY <1>3, KeysOf
<1>5. /\ n \in Nat /\ \A i \in 1..n : Keys(map)[i] = map[i].first
  BY KeysOf
<1>6. 1 \in 1..n + 1 /\ \A i \in 1..n : i + 1 \in 1..n + 1
  BY <1>5
<1>7. e.first = key
  BY DEF e
<1> QED
  BY <1>3, <1>4, <1>5, <1>6, <1>7 DEF e

(* A sequence without the elements from a to b. *)
Cut(s, a, b) == SubSeq(s, 1, a - 1) \o SubSeq(s, b + 1, Len(s))

(* What is left keeps its order. *)
LEMMA CutOut ==
  ASSUME NEW S, NEW s \in Seq(S), NEW a \in 1..Len(s), NEW b \in a..Len(s)
  PROVE  /\ Cut(s, a, b) \in Seq(S) /\ Len(Cut(s, a, b)) = Len(s) - (b - a + 1)
         /\ \A j \in 1..Len(Cut(s, a, b)) :
              Cut(s, a, b)[j] = s[IF j < a THEN j ELSE j + (b - a + 1)]
<1> DEFINE l == SubSeq(s, 1, a - 1)
           r == SubSeq(s, b + 1, Len(s))
           n == Len(s)
           t == l \o r
<1>0. Cut(s, a, b) = t
  BY DEF Cut
<1>1. l \in Seq(S) /\ Len(l) = a - 1 /\ \A j \in 1..a - 1 : l[j] = s[j]
  OBVIOUS
<1>2. r \in Seq(S) /\ Len(r) = n - b /\ \A j \in 1..n - b : r[j] = s[b + j]
  OBVIOUS
<1>3. n \in Nat /\ a \in 1..n /\ b \in a..n
  BY LenProperties
<1> HIDE DEF l, r, n
<1>4. /\ t \in Seq(S) /\ Len(t) = Len(l) + Len(r)
      /\ \A j \in 1..Len(l) + Len(r) : t[j] = IF j <= Len(l) THEN l[j] ELSE r[j - Len(l)]
  BY <1>1, <1>2, ConcatProperties
<1> HIDE DEF t
<1>5. Len(t) = n - (b - a + 1)
  BY <1>1, <1>2, <1>3, <1>4
<1>6. ASSUME NEW j \in 1..Len(t)
      PROVE  t[j] = s[IF j < a THEN j ELSE j + (b - a + 1)]
  <2>1. CASE j < a
    <3>1. j \in 1..Len(l) + Len(r) /\ j <= Len(l) /\ j \in 1..a - 1
      BY <1>1, <1>2, <1>3, <1>4, <2>1
    <3> QED
      BY <1>1, <1>4, <2>1, <3>1
  <2>2. CASE ~ (j < a)
    <3>1. /\ j \in 1..Len(l) + Len(r) /\ ~ (j <= Len(l)) /\ j - Len(l) \in 1..n - b
          /\ b + (j - Len(l)) = j + (b - a + 1)
      BY <1>1, <1>2, <1>3, <1>4, <2>2
    <3> QED
      BY <1>2, <1>4, <2>2, <3>1
  <2> QED
    BY <2>1, <2>2
<1> QED
  BY <1>0, <1>4, <1>5, <1>6 DEF n

(* What is left of a map, each entry from a place of its own. *)
Thinned(new, map) ==
  \E from \in [1..Len(new) -> 1..Len(map)] :
    /\ \A i \in 1..Len(new) : new[i] = map[from[i]]
    /\ \A i, j \in 1..Len(new) : from[i] = from[j] => i = j

(* An erase leaves a map that keeps its order, and what is left of a map   *)
(* of four entries begins with the same two.                               *)
LEMMA ErasedFrom ==
  ASSUME NEW K, NEW V, NEW map \in Seq(Entry(K, V)), NEW key
  PROVE  /\ Erase(map, key) \in Seq(Entry(K, V)) /\ Len(Erase(map, key)) <= Len(map)
         /\ Thinned(Erase(map, key), map)
         /\ Spine(Keys(map)) => Spine(Keys(Erase(map, key)))
<1> DEFINE new == Erase(map, key)
           E == Erased(Keys(map), key)
           n == Len(map)
           Kept == /\ new \in Seq(Entry(K, V)) /\ Len(new) <= n
                   /\ Thinned(new, map)
                   /\ Spine(Keys(map)) => Spine(Keys(new))
<1> SUFFICES Kept
  OBVIOUS
<1>0. new = Erase(map, key)
  OBVIOUS
<1> HIDE DEF new
<1>1. n \in Nat /\ Len(Keys(map)) = n /\ DOMAIN Keys(map) = 1..n
  BY KeysOf
<1>2. CASE E = {}
  <2>1. new = map
    BY <1>0, <1>2 DEF Erase
  <2> DEFINE f == [i \in 1..n |-> i]
  <2>2. f \in [1..n -> 1..n] /\ \A i \in 1..n : f[i] = i
    OBVIOUS
  <2> HIDE DEF f
  <2>3. new \in Seq(Entry(K, V)) /\ Len(new) <= n /\ (Spine(Keys(map)) => Spine(Keys(new)))
    BY <1>1, <2>1
  <2>4. Thinned(new, map)
    <3>1. \E from \in [1..Len(new) -> 1..n] :
            /\ \A i \in 1..Len(new) : new[i] = map[from[i]]
            /\ \A i, j \in 1..Len(new) : from[i] = from[j] => i = j
      <4>1. Len(new) = n
        BY <2>1
      <4> HIDE DEF n
      <4> QED
        BY <2>1, <2>2, <4>1
    <3> QED
      BY <3>1 DEF Thinned
  <2> QED
    BY <2>3, <2>4 DEF Kept
<1>3. CASE E # {}
  <2> DEFINE a == Min(E)
             b == Max(E)
             w == b - a + 1
  <2>1. /\ E \subseteq 1..n
        /\ \A i \in E : Keys(map)[i] = key /\ \A j \in i..Root(Keys(map)) : Keys(map)[j] = key
    BY <1>1 DEF Erased, Less
  <2>2. a \in E /\ b \in E /\ a <= b
    <3> HIDE DEF E
    <3> HIDE DEF n
    <3>2. \E x \in E : \A y \in E : x <= y
      <4>1. E \subseteq Nat
        BY <1>1, <2>1
      <4> QED
        BY <1>3, <4>1, LeastElement
    <3>3. \E x \in E : \A y \in E : x >= y
      <4> DEFINE F == {n - x : x \in E}
      <4>1. F \subseteq Nat /\ F # {}
        <5>1. \A x \in E : n - x \in Nat
          BY <1>1, <2>1
        <5> QED
          BY <1>3, <5>1
      <4> HIDE DEF F
      <4>2. PICK f \in F : \A g \in F : f <= g
        BY <4>1, LeastElement
      <4>3. PICK x \in E : f = n - x
        BY <4>2 DEF F
      <4>4. \A y \in E : n - y \in F
        BY DEF F
      <4>5. \A y \in E : f <= n - y
        BY <4>2, <4>4
      <4>6. \A y \in E : x >= y
        BY <1>1, <2>1, <4>3, <4>5
      <4> QED
        BY <4>6
    <3>4. a \in E /\ \A y \in E : a <= y
      BY <3>2 DEF Min
    <3>5. b \in E
      BY <3>3 DEF Max
    <3> QED
      BY <3>4, <3>5
  <2>3. a \in 1..n /\ b \in a..n
    <3> HIDE DEF E, a, b
    <3> QED
      BY <1>1, <2>1, <2>2
  <2>4. new = Cut(map, a, b)
    BY <1>0, <1>3 DEF Erase, Cut
  <2>5. /\ Keys(map)[a] = key /\ Keys(map)[b] = key
        /\ \A j \in a..Root(Keys(map)) : Keys(map)[j] = key
    BY <2>1, <2>2
  <2> HIDE DEF a, b, E
  <2>6. /\ new \in Seq(Entry(K, V)) /\ Len(new) = n - w
        /\ \A j \in 1..Len(new) : new[j] = map[IF j < a THEN j ELSE j + w]
    BY <2>3, <2>4, CutOut DEF n
  <2> HIDE DEF n
  <2>7. w \in 1..n /\ Len(new) \in Nat /\ Len(new) < n
    BY <1>1, <2>3, <2>6
  <2>8. Thinned(new, map)
    <3> DEFINE f == [j \in 1..Len(new) |-> IF j < a THEN j ELSE j + w]
    <3>1. f \in [1..Len(new) -> 1..n]
      BY <1>1, <2>3, <2>6
    <3>2. \A i \in 1..Len(new) : new[i] = map[f[i]]
      BY <2>6
    <3>3. \A i, j \in 1..Len(new) : f[i] = f[j] => i = j
      BY <1>1, <2>3, <2>6
    <3> HIDE DEF f
    <3> QED
      BY <3>1, <3>2, <3>3 DEF Thinned, n
  <2>9. Spine(Keys(map)) => Spine(Keys(new))
    <3> SUFFICES ASSUME Spine(Keys(map)) PROVE Spine(Keys(new))
      OBVIOUS
    <3>1. n <= 4 /\ (n = 4 => /\ Keys(map)[1] # Keys(map)[2] /\ Keys(map)[1] # Keys(map)[3]
                              /\ Keys(map)[2] # Keys(map)[3])
          /\ (n = 3 => Keys(map)[1] # Keys(map)[2])
      BY <1>1 DEF Spine
    <3>2. /\ Len(Keys(new)) = Len(new) /\ \A i \in 1..Len(new) : Keys(new)[i] = new[i].first
          /\ \A i \in 1..n : Keys(map)[i] = map[i].first
      BY <2>6, KeysOf DEF n
    <3>3. CASE Len(new) <= 2
      BY <2>7, <3>2, <3>3 DEF Spine
    <3>4. CASE Len(new) = 3
      <4>1. n = 4
        BY <1>1, <2>7, <3>1, <3>4
      <4>2. Root(Keys(map)) = 3
        BY <1>1, <4>1, RootOf
      <4>3. a >= 3
        <5>1. a = 1 \/ a = 2 => Keys(map)[2] = key /\ Keys(map)[3] = key
          BY <2>5, <4>2
        <5> QED
          BY <2>3, <3>1, <4>1, <5>1
      <4>4. new[1] = map[1] /\ new[2] = map[2]
        <5>1. 1 \in 1..Len(new) /\ 2 \in 1..Len(new) /\ 1 < a /\ 2 < a
          BY <2>3, <3>4, <4>3
        <5> HIDE DEF w
        <5> QED
          BY <2>6, <5>1
      <4>5. Keys(new)[1] = Keys(map)[1] /\ Keys(new)[2] = Keys(map)[2]
        BY <3>2, <3>4, <4>1, <4>4
      <4>6. Len(Keys(new)) = 3 /\ Keys(new)[1] # Keys(new)[2]
        BY <3>1, <3>2, <3>4, <4>1, <4>5
      <4> DEFINE kn == Keys(new)
      <4>7. Len(kn) = 3 /\ kn[1] # kn[2]
        BY <4>6
      <4> HIDE DEF kn
      <4>8. Spine(kn)
        BY <4>7 DEF Spine
      <4> QED
        BY <4>8 DEF kn
    <3>5. Len(new) <= 2 \/ Len(new) = 3
      <4> DEFINE l == Len(new)
      <4>1. l \in Nat /\ l < n /\ n \in Nat /\ n <= 4
        BY <1>1, <2>7, <3>1
      <4> HIDE DEF l
      <4>2. l <= 2 \/ l = 3
        BY <4>1
      <4> QED
        BY <4>2 DEF l
    <3> QED
      BY <3>3, <3>4, <3>5, Zenon
  <2>10. Len(new) <= n
    BY <1>1, <2>7
  <2> QED
    BY <2>6, <2>8, <2>9, <2>10, Zenon DEF Kept
<1> HIDE DEF E, Kept
<1> QED
  BY <1>2, <1>3

(* A sequence grows in front and stays one that the next insert can judge. *)
LEMMA SpineGrows ==
  ASSUME NEW K, NEW s \in Seq(K), NEW t \in Seq(K), NEW key, Spine(s), ~ Collides(s, key),
         Len(s) = 4 => key \in {s[1], s[2], s[3]},
         Len(t) = Len(s) + 1, t[1] = key, \A i \in 1..Len(s) : t[i + 1] = s[i]
  PROVE  Spine(t)
<1>1. Len(s) \in 0..4
  <2> DEFINE n == Len(s)
  <2>1. n \in Nat /\ n <= 4
    BY LenProperties DEF Spine
  <2> HIDE DEF n
  <2>2. n \in 0..4
    BY <2>1
  <2> QED
    BY <2>2 DEF n
<1>2. s # <<>> => \A i \in 1..Root(s) : key # s[i]
  BY DEF Collides, Less
<1>3. Len(s) > 0 => s # <<>>
  BY <1>1, EmptySeq
<1>4. Len(s) # 4
  <2> SUFFICES ASSUME Len(s) = 4 PROVE FALSE
    OBVIOUS
  <2>1. \A i \in 1..3 : key # s[i]
    BY <1>2, <1>3, RootOf
  <2> QED
    BY <2>1
<1>5. CASE Len(s) <= 1
  <2> DEFINE n == Len(t)
  <2>1. n <= 2
    BY <1>1, <1>5
  <2> HIDE DEF n
  <2>2. n <= 4 /\ ~ (n >= 3) /\ n # 4
    <3>1. n \in Nat
      BY LenProperties DEF n
    <3> QED
      BY <2>1, <3>1
  <2> QED
    BY <2>2 DEF Spine, n
<1>6. CASE Len(s) = 2 \/ Len(s) = 3
  <2>1. key # s[1] /\ key # s[2]
    BY <1>2, <1>3, <1>6, RootOf
  <2>2. t[1] = key /\ t[2] = s[1] /\ t[3] = s[2]
    BY <1>6
  <2>3. Len(s) = 3 => s[1] # s[2]
    BY DEF Spine
  <2>4. Len(t) = 3 \/ (Len(t) = 4 /\ Len(s) = 3)
    BY <1>6
  <2> DEFINE n == Len(t)
  <2>5. (n = 3 \/ n = 4) /\ t[1] # t[2] /\ (n = 4 => t[1] # t[3] /\ t[2] # t[3])
    BY <2>1, <2>2, <2>3, <2>4
  <2> HIDE DEF n
  <2> QED
    BY <2>5 DEF Spine, n
<1> QED
  BY <1>1, <1>4, <1>5, <1>6

(* Active keeps its keys apart where inserts look, and never outgrows four *)
(* entries: by then the insert meets all three matchups there are.         *)
LEMMA ActiveGrows ==
  ASSUME NEW V, NEW map \in Seq(Entry(Matchups, V)), Spine(Keys(map)),
         NEW p \in Matchups, NEW v \in V
  PROVE  LET new == Emplace(map, p, v)
         IN new \in Seq(Entry(Matchups, V)) /\ Spine(Keys(new))
<1> DEFINE new == Emplace(map, p, v)
<1>1. CASE Collides(Keys(map), p)
  BY <1>1 DEF Emplace
<1>2. CASE ~ Collides(Keys(map), p)
  <2>0. new = Emplace(map, p, v)
    OBVIOUS
  <2> HIDE DEF new
  <2>1. /\ new \in Seq(Entry(Matchups, V)) /\ Len(new) = Len(map) + 1
        /\ Keys(new)[1] = p /\ \A i \in 1..Len(map) : Keys(new)[i + 1] = Keys(map)[i]
    BY <1>2, <2>0, Emplaced
  <2> DEFINE s == Keys(map)
             t == Keys(new)
  <2>2. s \in Seq(Matchups) /\ Len(s) = Len(map) /\ t \in Seq(Matchups) /\ Len(t) = Len(new)
    BY <2>1, KeysOf
  <2>3. Len(s) = 4 => s[1] # s[2] /\ s[1] # s[3] /\ s[2] # s[3]
    <3>1. Spine(s)
      OBVIOUS
    <3> HIDE DEF s
    <3> QED
      BY <3>1 DEF Spine
  <2>4. Spine(s) /\ ~ Collides(s, p)
    BY <1>2
  <2>5. /\ Len(t) = Len(s) + 1 /\ t[1] = p /\ \A i \in 1..Len(s) : t[i + 1] = s[i]
    BY <2>1, <2>2
  <2> HIDE DEF s, t
  <2>6. Len(s) = 4 => p \in {s[1], s[2], s[3]}
    <3> SUFFICES ASSUME Len(s) = 4 PROVE p \in {s[1], s[2], s[3]}
      OBVIOUS
    <3>1. s[1] \in Matchups /\ s[2] \in Matchups /\ s[3] \in Matchups
      <4>1. 1 \in 1..4 /\ 2 \in 1..4 /\ 3 \in 1..4
        OBVIOUS
      <4>2. \A i \in 1..Len(s) : s[i] \in Matchups
        BY <2>2, LenProperties
      <4> QED
        BY <4>1, <4>2
    <3> QED
      BY <2>3, <3>1, ThreeMatchups
  <2>7. Spine(t)
    BY <2>2, <2>4, <2>5, <2>6, SpineGrows
  <2> QED
    BY <2>1, <2>7 DEF t, new
<1> QED
  BY <1>1, <1>2

(* What lookups come to stays so when the tree grows, however its root     *)
(* moves.                                                                  *)
LEMMA FoundStays ==
  ASSUME NEW K, NEW V, NEW map \in Seq(Entry(K, V)), Spine(Keys(map)), NEW key \in K,
         NEW v \in V, Spine(Keys(Emplace(map, key, v))), NEW k, Has(map, k)
  PROVE  Has(Emplace(map, key, v), k)
<1> DEFINE new == Emplace(map, key, v)
<1>1. CASE Collides(Keys(map), key)
  BY <1>1 DEF Emplace
<1>2. CASE ~ Collides(Keys(map), key)
  <2>0. new = Emplace(map, key, v)
    OBVIOUS
  <2> HIDE DEF new
  <2>1. /\ new \in Seq(Entry(K, V)) /\ Len(new) = Len(map) + 1
        /\ \A i \in 1..Len(map) : Keys(new)[i + 1] = Keys(map)[i]
    BY <1>2, <2>0, Emplaced
  <2> DEFINE s == Keys(map)
             t == Keys(new)
             n == Len(map)
  <2>2. n \in Nat /\ Len(s) = n /\ DOMAIN s = 1..n /\ Len(t) = n + 1 /\ DOMAIN t = 1..n + 1
    <3>1. n \in Nat /\ Len(s) = n /\ DOMAIN s = 1..n
      BY KeysOf
    <3>2. Len(t) = Len(new) /\ DOMAIN t = 1..Len(new)
      BY <2>1, KeysOf
    <3> QED
      BY <2>1, <3>1, <3>2
  <2>3. PICK i \in Found(s, k) : TRUE
    BY DEF Has
  <2>4. \A i1 \in 1..n : t[i1 + 1] = s[i1]
    BY <2>1
  <2>5. Len(t) <= 4
    BY DEF Spine, new
  <2> HIDE DEF s, t, n
  <2>6. i \in 1..n /\ i >= Root(s) /\ s[i] = k
    BY <2>2, <2>3 DEF Found, Less
  <2>7. n \in 1..3
    BY <2>2, <2>5, <2>6
  <2>8. Root(t) <= Root(s) + 1 /\ Root(s) \in Nat /\ Root(t) \in Nat
    <3>1. n = 1 => Root(s) = 1 /\ Root(t) = 2
      BY <2>2, RootOf
    <3>2. n = 2 => Root(s) = 2 /\ Root(t) = 2
      BY <2>2, RootOf
    <3>3. n = 3 => Root(s) = 2 /\ Root(t) = 3
      BY <2>2, RootOf
    <3> QED
      BY <2>7, <3>1, <3>2, <3>3
  <2>9. i + 1 \in DOMAIN t /\ i + 1 >= Root(t) /\ t[i + 1] = k
    BY <2>2, <2>4, <2>6, <2>7, <2>8
  <2>10. i + 1 \in Found(t, k)
    BY <2>9 DEF Found, Less
  <2> QED
    BY <2>10 DEF Has, t, new
<1> QED
  BY <1>1, <1>2

---------------------------------------------------------------------------
(* The purge, and the bots that retire. *)

(* What the loop leaves of a map at bot n. *)
PurgedAt(map, retired, n) ==
  EraseMatchup(EraseMatchup(map, retired, 1, Bots[n]), retired, 2, Bots[n])

(* What holds of a map at every turn of the loop holds when it ends. *)
LEMMA PurgeLoop ==
  ASSUME NEW map, NEW retired, NEW good, map \in good[0],
         \A n \in 1..Len(Bots) : \A s \in good[n - 1] : PurgedAt(s, retired, n) \in good[n]
  PROVE  Purged(map, retired) \in good[Len(Bots)]
<1> DEFINE L == Len(Bots)
           R(r) == r = [n \in 0..L |-> IF n = 0 THEN map ELSE PurgedAt(r[n - 1], retired, n)]
           w1 == PurgedAt(map, retired, 1)
           w2 == PurgedAt(w1, retired, 2)
           w3 == PurgedAt(w2, retired, 3)
           g == [n \in 0..L |-> IF n = 0 THEN map ELSE IF n = 1 THEN w1
                                ELSE IF n = 2 THEN w2 ELSE w3]
           f == CHOOSE r : R(r)
<1>1. L \in 0..3
  BY ConstantsTyped
<1>2. Purged(map, retired) = f[L]
  BY DEF Purged, PurgedAt
<1>3. \A n \in 1..L : \A s \in good[n - 1] : PurgedAt(s, retired, n) \in good[n]
  OBVIOUS
<1> HIDE DEF L
<1>4. R(g)
  <2>1. \A n \in 0..L : g[n] = IF n = 0 THEN map ELSE PurgedAt(g[n - 1], retired, n)
    <3> SUFFICES ASSUME NEW n \in 0..L
                 PROVE  g[n] = IF n = 0 THEN map ELSE PurgedAt(g[n - 1], retired, n)
      OBVIOUS
    <3>1. n = 0 \/ n = 1 \/ n = 2 \/ n = 3
      BY <1>1
    <3>2. CASE n = 0
      BY <3>2
    <3>3. CASE n = 1
      <4>1. g[1] = w1 /\ g[0] = map
        BY <1>1, <3>3
      <4> HIDE DEF g
      <4> QED
        BY <3>3, <4>1
    <3>4. CASE n = 2
      <4>1. g[2] = w2 /\ g[1] = w1
        BY <1>1, <3>4
      <4> HIDE DEF g, w1
      <4> QED
        BY <3>4, <4>1
    <3>5. CASE n = 3
      <4>1. g[3] = w3 /\ g[2] = w2
        BY <1>1, <3>5
      <4> HIDE DEF g, w2
      <4> QED
        BY <3>5, <4>1
    <3> QED
      BY <3>1, <3>2, <3>3, <3>4, <3>5
  <2>2. g = [n \in 0..L |-> g[n]]
    OBVIOUS
  <2> HIDE DEF g
  <2> QED
    BY <2>1, <2>2
<1> HIDE DEF g
<1>5. R(f)
  <2> HIDE DEF R
  <2> QED
    BY <1>4
<1>6. \A n \in 0..L : f[n] = IF n = 0 THEN map ELSE PurgedAt(f[n - 1], retired, n)
  <2> HIDE DEF f
  <2>1. \A r : R(r) => \A n \in 0..L : r[n] = IF n = 0 THEN map ELSE PurgedAt(r[n - 1], retired, n)
    OBVIOUS
  <2> HIDE DEF R
  <2> QED
    BY <1>5, <2>1
<1> HIDE DEF f, R
<1>7. f[0] \in good[0]
  BY <1>1, <1>6
<1>8. L >= 1 => f[1] \in good[1]
  BY <1>1, <1>3, <1>6, <1>7
<1>9. L >= 2 => f[2] \in good[2]
  BY <1>1, <1>3, <1>6, <1>8
<1>10. L >= 3 => f[3] \in good[3]
  BY <1>1, <1>3, <1>6, <1>9
<1>11. f[L] \in good[L]
  BY <1>1, <1>7, <1>8, <1>9, <1>10
<1> QED
  BY <1>2, <1>11 DEF L

(* One turn of it erases twice, once or not at all. *)
LEMMA PurgedByErases ==
  ASSUME NEW S, NEW map \in S, NEW retired, NEW n,
         \A s \in S : \A key : Erase(s, key) \in S
  PROVE  PurgedAt(map, retired, n) \in S
  BY DEF PurgedAt, EraseMatchup

(* A purge keeps entries whole and the keys apart. *)
LEMMA PurgedFrom ==
  ASSUME NEW K, NEW V, NEW map \in Seq(Entry(K, V)), Spine(Keys(map)), NEW retired
  PROVE  /\ Purged(map, retired) \in Seq(Entry(K, V)) /\ Spine(Keys(Purged(map, retired)))
         /\ Len(Purged(map, retired)) <= Len(map)
         /\ \A i \in DOMAIN Purged(map, retired) :
              \E j \in DOMAIN map : Purged(map, retired)[i] = map[j]
<1> DEFINE S == {s \in Seq(Entry(K, V)) : /\ Spine(Keys(s)) /\ Len(s) <= Len(map)
                                         /\ \A i \in 1..Len(s) : \E j \in 1..Len(map) : s[i] = map[j]}
           good == [n \in 0..Len(Bots) |-> S]
<1>1. Len(map) \in Nat /\ DOMAIN map = 1..Len(map)
  BY LenProperties
<1>2. map \in S
  BY <1>1
<1>3. ASSUME NEW s \in S, NEW key
      PROVE  Erase(s, key) \in S
  <2> DEFINE new == Erase(s, key)
  <2>1. s \in Seq(Entry(K, V)) /\ Spine(Keys(s)) /\ Len(s) <= Len(map)
        /\ \A i \in 1..Len(s) : \E j \in 1..Len(map) : s[i] = map[j]
    OBVIOUS
  <2> HIDE DEF S
  <2>2. /\ new \in Seq(Entry(K, V)) /\ Len(new) <= Len(s) /\ Spine(Keys(new))
    BY <2>1, ErasedFrom
  <2>3. PICK from \in [1..Len(new) -> 1..Len(s)] :
          /\ \A i \in 1..Len(new) : new[i] = s[from[i]]
          /\ \A i, j \in 1..Len(new) : from[i] = from[j] => i = j
    <3>1. Thinned(new, s)
      BY <2>1, ErasedFrom
    <3> HIDE DEF new
    <3> QED
      BY <3>1 DEF Thinned
  <2> HIDE DEF new
  <2>4. Len(s) \in Nat /\ Len(new) \in Nat
    BY <2>1, <2>2, LenProperties
  <2>5. ASSUME NEW i \in 1..Len(new)
        PROVE  \E j \in 1..Len(map) : new[i] = map[j]
    <3>1. from[i] \in 1..Len(s) /\ new[i] = s[from[i]]
      BY <2>3
    <3> QED
      BY <2>1, <3>1
  <2>6. Len(new) <= Len(map)
    BY <1>1, <2>1, <2>2, <2>4
  <2> QED
    BY <2>2, <2>5, <2>6 DEF S, new
<1> HIDE DEF S
<1>4. \A n \in 1..Len(Bots) : \A s \in good[n - 1] : PurgedAt(s, retired, n) \in good[n]
  <2> SUFFICES ASSUME NEW n \in 1..Len(Bots), NEW s \in good[n - 1]
               PROVE  PurgedAt(s, retired, n) \in good[n]
    OBVIOUS
  <2>1. n - 1 \in 0..Len(Bots) /\ n \in 0..Len(Bots)
    BY ConstantsTyped
  <2>2. s \in S /\ good[n] = S
    BY <2>1
  <2> QED
    BY <1>3, <2>2, PurgedByErases
<1>5. map \in good[0] /\ good[Len(Bots)] = S
  BY <1>2, ConstantsTyped
<1> HIDE DEF good
<1>6. Purged(map, retired) \in S
  BY <1>4, <1>5, PurgeLoop
<1> DEFINE new == Purged(map, retired)
<1>7. new \in S
  BY <1>6
<1> HIDE DEF new
<1>8. /\ new \in Seq(Entry(K, V)) /\ Spine(Keys(new)) /\ Len(new) <= Len(map)
      /\ \A i \in 1..Len(new) : \E j \in 1..Len(map) : new[i] = map[j]
  BY <1>7 DEF S
<1>9. DOMAIN new = 1..Len(new)
  BY <1>8, LenProperties
<1> QED
  BY <1>1, <1>8, <1>9 DEF new

(* No bot retires: nothing is purged. *)
LEMMA NothingPurged ==
  ASSUME NEW map
  PROVE  Purged(map, <<>>) = map
<1> DEFINE good == [n \in 0..Len(Bots) |-> {map}]
<1>1. Len(<<>>) = 0
  OBVIOUS
<1>2. \A s, n : PurgedAt(s, <<>>, n) = s
  BY <1>1 DEF PurgedAt, EraseMatchup
<1>3. \A n \in 1..Len(Bots) : \A s \in good[n - 1] : PurgedAt(s, <<>>, n) \in good[n]
  <2>1. \A n \in 1..Len(Bots) : n - 1 \in 0..Len(Bots) /\ n \in 0..Len(Bots)
    BY ConstantsTyped
  <2> QED
    BY <1>2, <2>1
<1>4. map \in good[0] /\ good[Len(Bots)] = {map}
  BY ConstantsTyped
<1> HIDE DEF good
<1> QED
  BY <1>3, <1>4, PurgeLoop

(* An erase on a map of one entry, or of none. *)
LEMMA ErasedLone ==
  ASSUME NEW K, NEW V, NEW map \in Seq(Entry(K, V)), Len(map) = 1, NEW key
  PROVE  /\ Erase(map, key) = IF map[1].first = key THEN <<>> ELSE map
         /\ Erase(<<>>, key) = <<>>
<1>1. Erase(<<>>, key) = <<>>
  <2> DEFINE none == <<>>
  <2>1. DOMAIN Keys(none) = {}
    <3>1. DOMAIN none = {}
      OBVIOUS
    <3> HIDE DEF none
    <3> QED
      BY <3>1 DEF Keys
  <2>2. Erased(Keys(none), key) = {}
    BY <2>1 DEF Erased
  <2> HIDE DEF none
  <2>3. Erase(none, key) = none
    BY <2>2 DEF Erase
  <2> QED
    BY <2>3 DEF none
<1>2. Len(Keys(map)) = 1 /\ DOMAIN Keys(map) = 1..1 /\ Keys(map)[1] = map[1].first
  BY KeysOf
<1>3. Root(Keys(map)) = 1
  BY <1>2, RootOf
<1> DEFINE E == Erased(Keys(map), key)
<1>4. CASE map[1].first = key
  <2>1. E = {1}
    BY <1>2, <1>3, <1>4 DEF Erased, Less
  <2> HIDE DEF E
  <2>2. Min(E) = 1 /\ Max(E) = 1
    BY <2>1 DEF Min, Max
  <2>3. Erase(map, key) = Cut(map, 1, 1)
    <3>1. E # {}
      BY <2>1
    <3> QED
      BY <2>2, <3>1 DEF Erase, E, Cut
  <2>4. Cut(map, 1, 1) \in Seq(Entry(K, V)) /\ Len(Cut(map, 1, 1)) = 0
    <3>1. 1 \in 1..Len(map) /\ 1 \in 1..Len(map) /\ Len(map) - (1 - 1 + 1) = 0
      OBVIOUS
    <3> QED
      BY <3>1, CutOut
  <2>5. Cut(map, 1, 1) = <<>>
    BY <2>4, EmptySeq
  <2> QED
    BY <1>1, <1>4, <2>3, <2>5
<1>5. CASE map[1].first # key
  <2>1. E = {}
    BY <1>2, <1>5 DEF Erased, Less
  <2>2. Erase(map, key) = map
    BY <2>1 DEF Erase
  <2> QED
    BY <1>1, <1>5, <2>2
<1> QED
  BY <1>4, <1>5

(* The matchup that retires a bot goes: the loop comes to its other bot,   *)
(* and a lone entry is found.                                              *)
LEMMA LonePurged ==
  ASSUME NEW V, NEW map \in Seq(Entry(Matchups, V)), Len(map) = 1, NEW retired,
         retired \in {<<map[1].first[1]>>, <<map[1].first[2]>>,
                      <<map[1].first[1], map[1].first[2]>>}
  PROVE  Purged(map, retired) = <<>>
<1> DEFINE p == map[1].first
           both == {map, <<>>}
<1>1. p \in Matchups
  BY KeysOf
<1>2. PICK i, j \in {1, 2, 3} :
        /\ i # j /\ i <= Len(Bots) /\ j <= Len(Bots)
        /\ p = <<Bots[i], Bots[j]>> /\ Bots[i] < Bots[j]
  BY <1>1, MatchupPlaces
<1>3. Len(Bots) \in 0..3 /\ i \in 1..Len(Bots) /\ j \in 1..Len(Bots)
  BY <1>2, ConstantsTyped
<1>4. Bots[i] \in Nat /\ Bots[j] \in Nat
  BY <1>3, ConstantsTyped
<1>5. Matchup(Bots[i], Bots[j]) = p /\ Matchup(Bots[j], Bots[i]) = p
  BY <1>2, <1>4 DEF Matchup
<1>6. \A key : /\ Erase(map, key) \in both /\ Erase(<<>>, key) = <<>>
               /\ Erase(map, p) = <<>>
  BY ErasedLone
<1>7. \E n0 \in 1..Len(Bots) : retired[1] \in {Bots[i], Bots[j]} /\ Matchup(retired[1], Bots[n0]) = p
  <2>1. p[1] = Bots[i] /\ p[2] = Bots[j]
    BY <1>2
  <2>2. retired[1] = Bots[i] \/ retired[1] = Bots[j]
    BY <2>1
  <2> QED
    BY <1>3, <1>5, <2>2
<1>8. PICK n0 \in 1..Len(Bots) : Matchup(retired[1], Bots[n0]) = p
  BY <1>7
<1>9. 1 <= Len(retired)
  <2> DEFINE x == map[1].first[1]
             y == map[1].first[2]
  <2>1. retired = <<x>> \/ retired = <<y>> \/ retired = <<x, y>>
    OBVIOUS
  <2> HIDE DEF x, y
  <2>2. Len(<<x>>) = 1 /\ Len(<<y>>) = 1 /\ Len(<<x, y>>) = 2
    OBVIOUS
  <2> DEFINE n == Len(retired)
  <2>3. n = 1 \/ n = 2
    BY <2>1, <2>2, Zenon
  <2> HIDE DEF n
  <2>4. 1 <= n
    BY <2>3
  <2> QED
    BY <2>4 DEF n
<1> DEFINE good == [n \in 0..Len(Bots) |-> IF n < n0 THEN both ELSE {<<>>}]
<1> HIDE DEF p
<1>10. \A n : \A s \in both : PurgedAt(s, retired, n) \in both
  BY <1>6 DEF PurgedAt, EraseMatchup
<1>11. \A n : PurgedAt(<<>>, retired, n) = <<>>
  BY <1>6 DEF PurgedAt, EraseMatchup
<1>12. \A s \in both : PurgedAt(s, retired, n0) = <<>>
  BY <1>6, <1>8, <1>9 DEF PurgedAt, EraseMatchup
<1>13. ASSUME NEW n \in 1..Len(Bots), NEW s \in good[n - 1]
       PROVE  PurgedAt(s, retired, n) \in good[n]
  <2>1. n - 1 \in 0..Len(Bots) /\ n \in 0..Len(Bots) /\ n0 \in Nat /\ n \in Nat
    BY <1>3
  <2> HIDE DEF both
  <2>2. CASE n < n0
    <3>1. good[n - 1] = both /\ good[n] = both
      BY <2>1, <2>2
    <3> QED
      BY <1>10, <3>1
  <2>3. CASE n = n0
    <3>1. good[n - 1] = both /\ good[n] = {<<>>}
      BY <2>1, <2>3
    <3> QED
      BY <1>12, <2>3, <3>1
  <2>4. CASE n > n0
    <3>1. good[n - 1] = {<<>>} /\ good[n] = {<<>>}
      BY <2>1, <2>4
    <3> QED
      BY <1>11, <3>1
  <2> QED
    BY <2>1, <2>2, <2>3, <2>4
<1>14. map \in good[0] /\ good[Len(Bots)] = {<<>>}
  <2>1. 0 \in 0..Len(Bots) /\ 0 < n0 /\ Len(Bots) \in 0..Len(Bots) /\ ~ (Len(Bots) < n0)
    BY <1>3
  <2> QED
    BY <2>1
<1> HIDE DEF good
<1> QED
  BY <1>13, <1>14, PurgeLoop

(* At most the two bots of the matchup retire, and a bot that does has all *)
(* maps in its entries.                                                    *)
LEMMA RetiredOf ==
  ASSUME NEW p, NEW fin
  PROVE  /\ RetiredBy(p, fin) \in {<<>>, <<p[1]>>, <<p[2]>>, <<p[1], p[2]>>}
         /\ \A b \in Range(RetiredBy(p, fin)) : b \in {p[1], p[2]} /\ ~ Unfinished(b, fin)
<1> DEFINE f0 == Fails(p[1], fin, Bot0Done(p[1], fin))
           f1 == Fails(p[2], fin, Bot1Done(p[2], fin))
           r == RetiredBy(p, fin)
           h0 == p[1]
           h1 == p[2]
<1>1. r = (IF f0 THEN <<>> ELSE <<h0>>) \o (IF f1 THEN <<>> ELSE <<h1>>)
  BY DEF RetiredBy
<1>2. (f0 \/ ~ Unfinished(h0, fin)) /\ (f1 \/ ~ Unfinished(h1, fin))
  BY DEF Fails
<1>3. <<>> \o <<>> = <<>> /\ <<h0>> \o <<>> = <<h0>> /\ <<h0>> \o <<h1>> = <<h0, h1>>
  <2>1. <<>> \o <<>> = <<>>
    OBVIOUS
  <2> QED
    BY <2>1, PrependToFew
<1>4. <<>> \o <<h1>> = <<h1>>
  OBVIOUS
<1>5. Range(<<>>) = {} /\ Range(<<h0>>) = {h0} /\ Range(<<h1>>) = {h1}
      /\ Range(<<h0, h1>>) = {h0, h1}
  BY DEF Range
<1> HIDE DEF f0, f1, r, h0, h1
<1>6. CASE f0 /\ f1
  BY <1>1, <1>3, <1>5, <1>6 DEF r, h0, h1
<1>7. CASE f0 /\ ~ f1
  BY <1>1, <1>2, <1>4, <1>5, <1>7 DEF r, h0, h1
<1>8. CASE ~ f0 /\ f1
  BY <1>1, <1>2, <1>3, <1>5, <1>8 DEF r, h0, h1
<1>9. CASE ~ f0 /\ ~ f1
  BY <1>1, <1>2, <1>3, <1>5, <1>9 DEF r, h0, h1
<1> QED
  BY <1>6, <1>7, <1>8, <1>9

(* A HashSet of the server's bots grows by an insert, by at most the bot,  *)
(* and keeps its digests apart where inserts look.                         *)
LEMMA BotsGrow ==
  ASSUME NEW s \in Seq(Range(Bots)), Spine(s), NEW b \in Range(Bots)
  PROVE  /\ Insert(s, b) \in Seq(Range(Bots)) /\ Spine(Insert(s, b))
         /\ Range(Insert(s, b)) \subseteq Range(s) \cup {b}
<1>1. CASE Collides(s, b)
  BY <1>1 DEF Insert
<1>2. CASE ~ Collides(s, b)
  <2> DEFINE t == <<b>> \o s
  <2>1. Insert(s, b) = t
    BY <1>2 DEF Insert
  <2>2. /\ t \in Seq(Range(Bots)) /\ Len(t) = Len(s) + 1 /\ DOMAIN t = 1..Len(s) + 1 /\ t[1] = b
        /\ \A i \in 1..Len(s) : t[i + 1] = s[i]
        /\ \A i \in 2..Len(s) + 1 : t[i] = s[i - 1]
    BY Prepended
  <2> HIDE DEF t
  <2>3. Len(s) \in Nat /\ DOMAIN s = 1..Len(s) /\ \A i \in 1..Len(s) : s[i] \in Range(Bots)
    BY LenProperties
  <2>4. Len(s) = 4 => b \in {s[1], s[2], s[3]}
    <3> SUFFICES ASSUME Len(s) = 4 PROVE b \in {s[1], s[2], s[3]}
      OBVIOUS
    <3>1. s[1] # s[2] /\ s[1] # s[3] /\ s[2] # s[3]
      BY DEF Spine
    <3>2. 1 \in 1..4 /\ 2 \in 1..4 /\ 3 \in 1..4
      OBVIOUS
    <3>3. s[1] \in Range(Bots) /\ s[2] \in Range(Bots) /\ s[3] \in Range(Bots)
      BY <2>3, <3>2
    <3>4. \A x \in Range(Bots) : x = Bots[1] \/ x = Bots[2] \/ x = Bots[3]
      <4> DEFINE n == Len(Bots)
      <4>1. n \in 0..3 /\ DOMAIN Bots = 1..n
        BY ConstantsTyped
      <4> HIDE DEF n
      <4>2. \A i \in 1..n : i = 1 \/ i = 2 \/ i = 3
        BY <4>1
      <4> QED
        BY <4>1, <4>2 DEF Range
    <3> QED
      BY <3>1, <3>3, <3>4
  <2>5. Spine(t)
    BY <1>2, <2>2, <2>4, SpineGrows
  <2>6. Range(t) \subseteq Range(s) \cup {b}
    <3> SUFFICES ASSUME NEW i \in 1..Len(s) + 1 PROVE t[i] \in Range(s) \cup {b}
      BY <2>2 DEF Range
    <3>1. CASE i = 1
      BY <2>2, <3>1
    <3>2. CASE i \in 2..Len(s) + 1
      <4>1. i - 1 \in DOMAIN s /\ t[i] = s[i - 1]
        BY <2>2, <2>3, <3>2
      <4> QED
        BY <4>1 DEF Range
    <3> QED
      BY <2>3, <3>1, <3>2
  <2> QED
    BY <2>1, <2>2, <2>5, <2>6
<1> QED
  BY <1>1, <1>2

(* Inserting a few, in so many words. *)
LEMMA InsertedAll ==
  ASSUME NEW s, NEW hs, Len(hs) \in 0..2
  PROVE  /\ Len(hs) = 0 => InsertAll(s, hs) = s
         /\ Len(hs) = 1 => InsertAll(s, hs) = Insert(s, hs[1])
         /\ Len(hs) = 2 => InsertAll(s, hs) = Insert(Insert(s, hs[1]), hs[2])
<1> DEFINE R(r) == r = [n \in 0..Len(hs) |-> IF n = 0 THEN s ELSE Insert(r[n - 1], hs[n])]
           L == Len(hs)
           w1 == Insert(s, hs[1])
           w2 == Insert(w1, hs[2])
           g == [n \in 0..L |-> IF n = 0 THEN s ELSE IF n = 1 THEN w1 ELSE w2]
           f == CHOOSE r : R(r)
<1>1. InsertAll(s, hs) = f[L]
  BY DEF InsertAll
<1>2. L \in 0..2
  OBVIOUS
<1> HIDE DEF L
<1>3. \A n \in 0..L : g[n] = IF n = 0 THEN s ELSE Insert(g[n - 1], hs[n])
  <2> SUFFICES ASSUME NEW n \in 0..L
               PROVE  g[n] = IF n = 0 THEN s ELSE Insert(g[n - 1], hs[n])
    OBVIOUS
  <2>1. n = 0 \/ n = 1 \/ n = 2
    BY <1>2
  <2>2. CASE n = 0
    BY <2>2
  <2>3. CASE n = 1
    <3>1. g[1] = w1 /\ g[0] = s
      BY <1>2, <2>3
    <3> HIDE DEF g
    <3> QED
      BY <2>3, <3>1
  <2>4. CASE n = 2
    <3>1. g[2] = w2 /\ g[1] = w1
      BY <1>2, <2>4
    <3> HIDE DEF g, w1
    <3> QED
      BY <2>4, <3>1
  <2> QED
    BY <2>1, <2>2, <2>3, <2>4
<1>4. R(g)
  <2>1. g = [n \in 0..L |-> g[n]]
    OBVIOUS
  <2> HIDE DEF g
  <2> QED
    BY <1>3, <2>1 DEF L
<1> HIDE DEF g
<1>5. R(f)
  <2> HIDE DEF R
  <2> QED
    BY <1>4
<1>6. \A n \in 0..L : f[n] = IF n = 0 THEN s ELSE Insert(f[n - 1], hs[n])
  <2> HIDE DEF f
  <2>1. \A r : R(r) => \A n \in 0..L : r[n] = IF n = 0 THEN s ELSE Insert(r[n - 1], hs[n])
    BY DEF L
  <2> HIDE DEF R
  <2> QED
    BY <1>5, <2>1
<1> HIDE DEF f, R
<1>7. L = 0 => f[L] = s
  BY <1>6
<1>8. L >= 1 => f[1] = w1
  <2> SUFFICES ASSUME L >= 1 PROVE f[1] = w1
    OBVIOUS
  <2>1. f[0] = s /\ f[1] = Insert(f[0], hs[1])
    BY <1>2, <1>6
  <2> QED
    BY <2>1
<1>9. L = 2 => f[2] = w2
  <2> SUFFICES ASSUME L = 2 PROVE f[2] = w2
    OBVIOUS
  <2>1. f[2] = Insert(f[1], hs[2])
    BY <1>6
  <2> QED
    BY <1>8, <2>1
<1>10. /\ L = 0 => InsertAll(s, hs) = s
       /\ L = 1 => InsertAll(s, hs) = w1
       /\ L = 2 => InsertAll(s, hs) = w2
  <2>1. L = 1 => L >= 1
    OBVIOUS
  <2> HIDE DEF w1, w2
  <2> QED
    BY <1>1, <1>7, <1>8, <1>9, <2>1, Zenon
<1> QED
  BY <1>10 DEF L

(* finishedBots keeps its shape and gains no more than the bots of the     *)
(* matchup that have all maps.                                             *)
LEMMA RetiredInserted ==
  ASSUME NEW s \in Seq(Range(Bots)), Spine(s), NEW p, p[1] \in Range(Bots), p[2] \in Range(Bots),
         NEW fin
  PROVE  LET r == RetiredBy(p, fin)
         IN /\ InsertAll(s, r) \in Seq(Range(Bots)) /\ Spine(InsertAll(s, r))
            /\ Range(InsertAll(s, r)) \subseteq Range(s) \cup Range(r)
<1> DEFINE r == RetiredBy(p, fin)
           a == p[1]
           b == p[2]
<1>1. r = <<>> \/ r = <<a>> \/ r = <<b>> \/ r = <<a, b>>
  BY RetiredOf
<1>2. Range(<<>>) = {} /\ Range(<<a>>) = {a} /\ Range(<<b>>) = {b} /\ Range(<<a, b>>) = {a, b}
  BY DEF Range
<1>3. a \in Range(Bots) /\ b \in Range(Bots)
  OBVIOUS
<1> HIDE DEF r, a, b
<1> DEFINE Good(t, h) == t \in Seq(Range(Bots)) /\ Spine(t) /\ Range(t) \subseteq Range(s) \cup h
<1>4. ASSUME NEW h, NEW t, Good(t, h), NEW x \in Range(Bots)
      PROVE  Good(Insert(t, x), h \cup {x})
  BY <1>4, BotsGrow
<1>5. Good(s, {})
  OBVIOUS
<1> HIDE DEF Good
<1>6. Good(Insert(s, a), {a}) /\ Good(Insert(s, b), {b}) /\ Good(Insert(Insert(s, a), b), {a, b})
  <2>1. {} \cup {a} = {a} /\ {} \cup {b} = {b} /\ {a} \cup {b} = {a, b}
    OBVIOUS
  <2>2. Good(Insert(s, a), {a}) /\ Good(Insert(s, b), {b})
    BY <1>3, <1>4, <1>5, <2>1
  <2>3. Good(Insert(Insert(s, a), b), {a} \cup {b})
    BY <1>3, <1>4, <2>2
  <2> QED
    BY <2>1, <2>2, <2>3
<1>7. Good(InsertAll(s, r), Range(r))
  <2>1. CASE r = <<>>
    <3>1. Len(r) = 0
      BY <2>1
    <3>2. InsertAll(s, r) = s
      BY <3>1, InsertedAll
    <3>3. Range(r) = {}
      BY <1>2, <2>1
    <3> HIDE DEF Good
    <3> QED
      BY <1>5, <3>2, <3>3
  <2>2. CASE r = <<a>>
    <3>1. Len(r) = 1 /\ r[1] = a
      BY <2>2
    <3>2. InsertAll(s, r) = Insert(s, a)
      BY <3>1, InsertedAll
    <3> QED
      BY <1>2, <1>6, <2>2, <3>2
  <2>3. CASE r = <<b>>
    <3>1. Len(r) = 1 /\ r[1] = b
      BY <2>3
    <3>2. InsertAll(s, r) = Insert(s, b)
      BY <3>1, InsertedAll
    <3> QED
      BY <1>2, <1>6, <2>3, <3>2
  <2>4. CASE r = <<a, b>>
    <3>1. Len(r) = 2 /\ r[1] = a /\ r[2] = b
      BY <2>4
    <3>2. InsertAll(s, r) = Insert(Insert(s, a), b)
      BY <3>1, InsertedAll
    <3> QED
      BY <1>2, <1>6, <2>4, <3>2
  <2> QED
    BY <1>1, <2>1, <2>2, <2>3, <2>4
<1> QED
  BY <1>7 DEF Good, r

---------------------------------------------------------------------------
(* The maps of a matchup. *)

(* Maps that differ are no more than the server has, and if they are as    *)
(* many they are all of them.                                              *)
LEMMA MapsCounted ==
  ASSUME NEW s \in Seq(Range(Maps)), Unique(s)
  PROVE  /\ Len(s) \in 0..3 /\ DOMAIN s = 1..Len(s) /\ \A i \in 1..Len(s) : s[i] \in Range(Maps)
         /\ Len(s) = Len(Maps) => Range(s) = Range(Maps)
<1>1. Len(s) \in Nat /\ DOMAIN s = 1..Len(s) /\ \A i \in 1..Len(s) : s[i] \in Range(Maps)
  BY LenProperties
<1>2. \A i, j \in 1..Len(s) : i # j => s[i] # s[j]
  BY <1>1 DEF Unique, IsInjective
<1> DEFINE n == Len(Maps)
           l == Len(s)
<1>3. n \in 0..3 /\ DOMAIN Maps = 1..n
  BY ConstantsTyped
<1>4. \A m \in Range(Maps) : \E i \in 1..n : m = Maps[i]
  BY <1>3 DEF Range
<1> HIDE DEF n, l
<1>5. /\ \A m \in Range(Maps) : n >= 1 /\ (m = Maps[1] \/ m = Maps[2] \/ m = Maps[3])
      /\ n <= 2 => \A m \in Range(Maps) : m = Maps[1] \/ m = Maps[2]
      /\ n <= 1 => \A m \in Range(Maps) : m = Maps[1]
  <2> SUFFICES ASSUME NEW m \in Range(Maps)
               PROVE  /\ n >= 1 /\ (m = Maps[1] \/ m = Maps[2] \/ m = Maps[3])
                      /\ n <= 2 => m = Maps[1] \/ m = Maps[2]
                      /\ n <= 1 => m = Maps[1]
    OBVIOUS
  <2>1. PICK i \in 1..n : m = Maps[i]
    BY <1>4
  <2>2. n >= 1 /\ i \in {1, 2, 3} /\ (n <= 2 => i \in {1, 2}) /\ (n <= 1 => i = 1)
    BY <1>3
  <2> QED
    BY <2>1, <2>2
<1>6. ASSUME l >= 4 PROVE FALSE
  <2>1. {1, 2, 3, 4} \subseteq 1..Len(s)
    BY <1>1, <1>6 DEF l
  <2>2. \A i, j \in {1, 2, 3, 4} : i # j => s[i] # s[j]
    BY <1>2, <2>1
  <2>3. \A i \in {1, 2, 3, 4} : s[i] = Maps[1] \/ s[i] = Maps[2] \/ s[i] = Maps[3]
    BY <1>1, <1>5, <2>1
  <2> QED
    BY <2>2, <2>3
<1>7. l \in 0..3
  BY <1>1, <1>6 DEF l
<1>8. ASSUME l = n, NEW m \in Range(Maps)
      PROVE  m \in Range(s)
  <2>1. n \in {1, 2, 3}
    BY <1>3, <1>5
  <2>2. /\ n >= 1 => s[1] \in Range(Maps)
        /\ n >= 2 => s[2] \in Range(Maps) /\ s[1] # s[2]
        /\ n >= 3 => s[3] \in Range(Maps) /\ s[1] # s[3] /\ s[2] # s[3]
    <3>1. /\ n >= 1 => 1 \in 1..Len(s)
          /\ n >= 2 => 2 \in 1..Len(s)
          /\ n >= 3 => 3 \in 1..Len(s)
      BY <1>1, <1>8 DEF l
    <3>2. n >= 2 => n >= 1
      BY <2>1
    <3>3. n >= 3 => n >= 1 /\ n >= 2
      BY <2>1
    <3> QED
      BY <1>1, <1>2, <3>1, <3>2, <3>3
  <2>3. \/ n >= 1 /\ m = s[1]
        \/ n >= 2 /\ m = s[2]
        \/ n >= 3 /\ m = s[3]
    <3>1. CASE n = 1
      BY <1>5, <2>2, <3>1
    <3>2. CASE n = 2
      BY <1>5, <2>2, <3>2
    <3>3. CASE n = 3
      BY <1>5, <2>2, <3>3
    <3> QED
      BY <2>1, <3>1, <3>2, <3>3
  <2>4. \A k \in 1..3 : n >= k => k \in DOMAIN s
    BY <1>1, <1>8, <2>1 DEF l
  <2> QED
    BY <2>3, <2>4 DEF Range
<1>9. Range(s) \subseteq Range(Maps)
  BY <1>1 DEF Range
<1> QED
  BY <1>1, <1>7, <1>8, <1>9 DEF l, n

(* The counters of a matchup, one by one. *)
LEMMA CountersCounted ==
  ASSUME NEW cs \in CounterMaps
  PROVE  /\ cs \in Seq(Entry(Range(Maps), Counter)) /\ Len(cs) \in 0..3 /\ DOMAIN cs = 1..Len(cs)
         /\ Keys(cs) \in Seq(Range(Maps)) /\ Unique(Keys(cs)) /\ Len(Keys(cs)) = Len(cs)
         /\ \A i \in 1..Len(cs) : /\ cs[i].first \in Range(Maps) /\ cs[i].second \in Counter
                                  /\ Keys(cs)[i] = cs[i].first
         /\ \A i, j \in 1..Len(cs) : cs[i].first = cs[j].first => i = j
<1>1. cs \in Seq(Entry(Range(Maps), Counter)) /\ Unique(Keys(cs))
  BY DEF CounterMaps
<1>2. /\ DOMAIN cs = 1..Len(cs) /\ Keys(cs) \in Seq(Range(Maps)) /\ Len(Keys(cs)) = Len(cs)
      /\ DOMAIN Keys(cs) = 1..Len(cs)
      /\ \A i \in 1..Len(cs) : /\ cs[i].first \in Range(Maps) /\ cs[i].second \in Counter
                               /\ Keys(cs)[i] = cs[i].first
  BY <1>1, KeysOf
<1>3. Len(cs) \in 0..3
  BY <1>1, <1>2, MapsCounted
<1>4. \A i, j \in 1..Len(cs) : cs[i].first = cs[j].first => i = j
  BY <1>1, <1>2 DEF Unique, IsInjective
<1> QED
  BY <1>1, <1>2, <1>3, <1>4

(* Entries of maps that differ are a CounterMap. *)
LEMMA CountersMade ==
  ASSUME NEW cs \in Seq(Entry(Range(Maps), Counter)),
         \A i, j \in 1..Len(cs) : cs[i].first = cs[j].first => i = j
  PROVE  cs \in CounterMaps
<1>1. DOMAIN Keys(cs) = 1..Len(cs) /\ \A i \in 1..Len(cs) : Keys(cs)[i] = cs[i].first
  BY KeysOf
<1>2. Unique(Keys(cs))
  BY <1>1 DEF Unique, IsInjective
<1> QED
  BY <1>2 DEF CounterMaps

(* A counter is set. *)
LEMMA CounterSet ==
  ASSUME NEW cs \in CounterMaps, NEW m, Has(cs, m), NEW c \in Counter
  PROVE  /\ Update(cs, m, c) \in CounterMaps
         /\ Len(Update(cs, m, c)) = Len(cs) /\ Keys(Update(cs, m, c)) = Keys(cs)
         /\ \A i \in 1..Len(cs) :
              /\ Update(cs, m, c)[i].first = cs[i].first
              /\ Update(cs, m, c)[i].second = IF i = Position(cs, m) THEN c ELSE cs[i].second
<1> DEFINE new == Update(cs, m, c)
<1>1. cs \in Seq(Entry(Range(Maps), Counter))
      /\ \A i, j \in 1..Len(cs) : cs[i].first = cs[j].first => i = j
  BY CountersCounted
<1>2. new = Update(cs, m, c)
  OBVIOUS
<1> HIDE DEF new
<1>3. /\ new \in Seq(Entry(Range(Maps), Counter)) /\ Len(new) = Len(cs) /\ Keys(new) = Keys(cs)
      /\ \A i \in 1..Len(cs) :
           /\ new[i].first = cs[i].first
           /\ new[i].second = IF i = Position(cs, m) THEN c ELSE cs[i].second
  BY <1>1, <1>2, Updated
<1>4. new \in CounterMaps
  BY <1>1, <1>3, CountersMade
<1> QED
  BY <1>3, <1>4 DEF new

(* A counter comes, for a map that lookups miss; if there is one that they *)
(* miss, the insert meets it and is refused.                               *)
LEMMA CounterAdded ==
  ASSUME NEW cs \in CounterMaps, NEW m \in Range(Maps), ~ Has(cs, m), NEW c \in Counter
  PROVE  /\ Emplace(cs, m, c) \in CounterMaps
         /\ \A i \in 1..Len(Emplace(cs, m, c)) :
              \/ \E j \in 1..Len(cs) : Emplace(cs, m, c)[i] = cs[j]
              \/ Emplace(cs, m, c)[i].first = m /\ Emplace(cs, m, c)[i].second = c
<1> DEFINE new == Emplace(cs, m, c)
<1>1. /\ cs \in Seq(Entry(Range(Maps), Counter)) /\ Len(cs) \in 0..3
      /\ Keys(cs) \in Seq(Range(Maps)) /\ Len(Keys(cs)) = Len(cs)
      /\ DOMAIN Keys(cs) = 1..Len(cs)
      /\ \A i \in 1..Len(cs) : Keys(cs)[i] = cs[i].first
      /\ \A i, j \in 1..Len(cs) : cs[i].first = cs[j].first => i = j
  BY CountersCounted, LenProperties
<1>2. CASE Collides(Keys(cs), m)
  <2>1. new = cs
    BY <1>2 DEF Emplace
  <2> QED
    BY <2>1
<1>3. CASE ~ Collides(Keys(cs), m)
  <2>0. new = Emplace(cs, m, c)
    OBVIOUS
  <2> HIDE DEF new
  <2>1. /\ new \in Seq(Entry(Range(Maps), Counter)) /\ Len(new) = Len(cs) + 1
        /\ new[1].first = m /\ new[1].second = c
        /\ \A i \in 1..Len(cs) : new[i + 1] = cs[i]
    BY <1>1, <1>3, <2>0, Emplaced
  <2>2. m \notin Range(Keys(cs))
    <3>1. Found(Keys(cs), m) = {}
      BY DEF Has
    <3>2. Len(Keys(cs)) <= 3
      <4> DEFINE n == Len(cs)
      <4>1. n \in 0..3
        BY <1>1
      <4> HIDE DEF n
      <4>2. n <= 3
        BY <4>1
      <4> QED
        BY <1>1, <4>2 DEF n
    <3> QED
      BY <1>1, <1>3, <3>1, <3>2, LookedUp
  <2>3. \A i \in 1..Len(cs) : cs[i].first # m
    BY <1>1, <2>2 DEF Range
  <2>4. \A i \in 1..Len(new) : i = 1 \/ (i - 1 \in 1..Len(cs) /\ new[i] = cs[i - 1])
    <3> SUFFICES ASSUME NEW i \in 1..Len(new), i # 1
                 PROVE  i - 1 \in 1..Len(cs) /\ new[i] = cs[i - 1]
      OBVIOUS
    <3>1. i - 1 \in 1..Len(cs) /\ (i - 1) + 1 = i
      BY <1>1, <2>1
    <3> QED
      BY <2>1, <3>1
  <2>5. \A i, j \in 1..Len(new) : new[i].first = new[j].first => i = j
    <3> SUFFICES ASSUME NEW i \in 1..Len(new), NEW j \in 1..Len(new), new[i].first = new[j].first
                 PROVE  i = j
      OBVIOUS
    <3>1. CASE i = 1 \/ j = 1
      BY <2>1, <2>3, <2>4, <3>1
    <3>2. CASE i # 1 /\ j # 1
      <4>1. /\ i - 1 \in 1..Len(cs) /\ j - 1 \in 1..Len(cs)
            /\ cs[i - 1].first = cs[j - 1].first
        BY <2>4, <3>2
      <4>2. i - 1 = j - 1
        BY <1>1, <4>1
      <4>3. i \in Int /\ j \in Int
        OBVIOUS
      <4> QED
        BY <4>2, <4>3
    <3> QED
      BY <3>1, <3>2
  <2>6. new \in CounterMaps
    BY <2>1, <2>5, CountersMade
  <2>7. \A i \in 1..Len(new) :
          (\E j \in 1..Len(cs) : new[i] = cs[j]) \/ (new[i].first = m /\ new[i].second = c)
    BY <2>1, <2>4
  <2> QED
    BY <2>6, <2>7 DEF new
<1> QED
  BY <1>2, <1>3

(* A counter goes. *)
LEMMA CounterErased ==
  ASSUME NEW cs \in CounterMaps, NEW m
  PROVE  /\ Erase(cs, m) \in CounterMaps
         /\ \A i \in 1..Len(Erase(cs, m)) : \E j \in 1..Len(cs) : Erase(cs, m)[i] = cs[j]
<1> DEFINE new == Erase(cs, m)
<1>1. cs \in Seq(Entry(Range(Maps), Counter))
      /\ \A i, j \in 1..Len(cs) : cs[i].first = cs[j].first => i = j
  BY CountersCounted
<1>2. new \in Seq(Entry(Range(Maps), Counter)) /\ Thinned(new, cs)
  BY <1>1, ErasedFrom
<1> HIDE DEF new
<1>3. PICK from \in [1..Len(new) -> 1..Len(cs)] :
        /\ \A i \in 1..Len(new) : new[i] = cs[from[i]]
        /\ \A i, j \in 1..Len(new) : from[i] = from[j] => i = j
  BY <1>2 DEF Thinned
<1>4. \A i \in 1..Len(new) : from[i] \in 1..Len(cs) /\ new[i] = cs[from[i]]
  BY <1>3
<1>5. \A i, j \in 1..Len(new) : new[i].first = new[j].first => i = j
  <2> SUFFICES ASSUME NEW i \in 1..Len(new), NEW j \in 1..Len(new), new[i].first = new[j].first
               PROVE  i = j
    OBVIOUS
  <2>1. from[i] \in 1..Len(cs) /\ from[j] \in 1..Len(cs) /\ cs[from[i]].first = cs[from[j]].first
    BY <1>4
  <2>2. from[i] = from[j]
    BY <1>1, <2>1
  <2> QED
    BY <1>3, <2>2
<1>6. new \in CounterMaps
  BY <1>2, <1>5, CountersMade
<1> QED
  BY <1>4, <1>6 DEF new

---------------------------------------------------------------------------
(* What generateGame works with. *)

(* A sequence is one of any set that holds its elements. *)
LEMMA SeqWithin ==
  ASSUME NEW H, NEW T, NEW s \in Seq(H), Range(s) \subseteq T
  PROVE  s \in Seq(T)
<1>1. Len(s) \in Nat /\ DOMAIN s = 1..Len(s) /\ s \in [1..Len(s) -> H]
  BY LenProperties
<1>2. \A i \in 1..Len(s) : s[i] \in T
  BY <1>1 DEF Range
<1>3. s \in [1..Len(s) -> T]
  BY <1>1, <1>2
<1> QED
  BY <1>1, <1>3, FunctionSeq

(* The bots in common are the client's and the server's. *)
LEMMA CommonBotsTyped ==
  ASSUME Typed, NEW o \in Offers
  PROVE  \A v \in DOMAIN CommonBots(o) :
           CommonBots(o)[v] \in Range(o.bots) \cap Range(Bots)
<1> DEFINE shared == Intersection(Bots, o.bots)
           cb == CommonBots(o)
<1>1. Bots \in Seq(Nat) /\ o.bots \in Seq(Nat)
  BY GeneratorAssumption
<1>2. finishedBots \in Seq(Nat)
  <2>1. Range(Bots) \subseteq Nat
    BY ConstantsTyped DEF Range
  <2>2. finishedBots \in Seq(Range(Bots))
    BY DEF Typed
  <2> QED
    BY <2>1, <2>2, SeqMonotonic
<1>3. shared \in Seq(Nat) /\ Range(shared) \subseteq Range(Bots) \cap Range(o.bots)
  BY <1>1, IntersectionShared
<1>4. cb = Difference(shared, finishedBots)
  BY DEF CommonBots
<1> HIDE DEF shared, cb
<1>5. Range(cb) \subseteq Range(shared)
  BY <1>2, <1>3, <1>4, DifferenceTaken
<1>6. \A v \in DOMAIN cb : cb[v] \in Range(cb)
  BY DEF Range
<1>7. \A v \in DOMAIN cb : cb[v] \in Range(o.bots) \cap Range(Bots)
  BY <1>3, <1>5, <1>6
<1> QED
  BY <1>7 DEF cb

(* The maps in common are the client's and the server's, none twice. *)
LEMMA CommonMapsTyped ==
  ASSUME NEW o \in Offers
  PROVE  /\ CommonMaps(o) \in Seq(Range(Maps)) /\ Unique(CommonMaps(o))
         /\ Range(CommonMaps(o)) \subseteq Range(o.maps)
         /\ \A k \in DOMAIN CommonMaps(o) : CommonMaps(o)[k] \in Range(Maps) \cap Range(o.maps)
<1> DEFINE H == Range(Maps) \cup Range(o.maps)
           cm == CommonMaps(o)
<1>1. Maps \in Seq(Range(Maps)) /\ o.maps \in Seq(Range(o.maps))
  BY GeneratorAssumption
<1>2. Maps \in Seq(H) /\ o.maps \in Seq(H)
  BY <1>1, SeqMonotonic
<1> HIDE DEF H
<1>3. cm \in Seq(H) /\ Range(cm) \subseteq Range(Maps) \cap Range(o.maps) /\ Unique(cm)
  BY <1>2, IntersectionShared, ConstantsTyped DEF CommonMaps
<1> HIDE DEF cm
<1>4. cm \in Seq(Range(Maps))
  BY <1>3, SeqWithin
<1>5. \A k \in DOMAIN cm : cm[k] \in Range(Maps) \cap Range(o.maps)
  BY <1>3 DEF Range
<1> QED
  BY <1>3, <1>4, <1>5 DEF cm

(* What Typed says of active, entry by entry. *)
LEMMA ActiveTyped ==
  ASSUME Typed
  PROVE  /\ active \in Seq(Entry(Matchups, CounterMaps)) /\ Spine(Keys(active))
         /\ Len(active) \in Nat /\ DOMAIN active = 1..Len(active)
         /\ \A i \in 1..Len(active) : active[i].first \in Matchups
                                      /\ active[i].second \in CounterMaps
         /\ \A p : Has(active, p) => /\ p \in Matchups /\ At(active, p) \in CounterMaps
                                     /\ Position(active, p) \in 1..Len(active)
                                     /\ active[Position(active, p)].first = p
                                     /\ At(active, p) = active[Position(active, p)].second
<1>1. active \in Seq(Entry(Matchups, CounterMaps)) /\ Spine(Keys(active))
  BY DEF Typed
<1>2. /\ Len(active) \in Nat /\ DOMAIN active = 1..Len(active)
      /\ \A i \in 1..Len(active) : active[i].first \in Matchups
                                   /\ active[i].second \in CounterMaps
  BY <1>1, KeysOf
<1>3. ASSUME NEW p, Has(active, p)
      PROVE  /\ p \in Matchups /\ At(active, p) \in CounterMaps
             /\ Position(active, p) \in 1..Len(active)
             /\ active[Position(active, p)].first = p
             /\ At(active, p) = active[Position(active, p)].second
  BY <1>1, <1>2, <1>3, PositionOf
<1> QED
  BY <1>1, <1>2, <1>3

(* So of finished, which has one entry at most, and that one is found. *)
LEMMA FinishedTyped ==
  ASSUME Typed
  PROVE  /\ finished \in Seq(Entry(Matchups, MapSets)) /\ DOMAIN finished = 1..Len(finished)
         /\ finished = <<>> \/ Len(finished) = 1
         /\ finished # <<>> => /\ finished[1].first \in Matchups /\ finished[1].second \in MapSets
                               /\ DOMAIN finished = {1} /\ 1 \in 1..Len(finished)
         /\ \A p : Has(finished, p) <=> finished # <<>> /\ p = finished[1].first
         /\ \A p : Has(finished, p) => Position(finished, p) = 1 /\ At(finished, p) = finished[1].second
<1>1. finished \in Seq(Entry(Matchups, MapSets)) /\ Len(finished) <= 1
  BY DEF Typed
<1>2. /\ Len(finished) \in Nat /\ DOMAIN finished = 1..Len(finished)
      /\ Len(Keys(finished)) = Len(finished) /\ DOMAIN Keys(finished) = 1..Len(finished)
      /\ \A i \in 1..Len(finished) : /\ finished[i].first \in Matchups
                                     /\ finished[i].second \in MapSets
                                     /\ Keys(finished)[i] = finished[i].first
  BY <1>1, KeysOf
<1>3. finished = <<>> \/ Len(finished) = 1
  BY <1>1, <1>2, EmptySeq
<1>4. finished # <<>> => /\ finished[1].first \in Matchups /\ finished[1].second \in MapSets
                         /\ DOMAIN finished = {1} /\ 1 \in 1..Len(finished)
  BY <1>2, <1>3
<1>5. ASSUME NEW p
      PROVE  /\ finished = <<>> => ~ Has(finished, p)
             /\ finished # <<>> =>
                  /\ Has(finished, p) <=> p = finished[1].first
                  /\ Has(finished, p) =>
                       Position(finished, p) = 1 /\ At(finished, p) = finished[1].second
  <2>1. CASE finished = <<>>
    <3>1. 1..Len(finished) = {}
      BY <2>1
    <3>2. Found(Keys(finished), p) = {}
      BY <1>2, <3>1 DEF Found
    <3> QED
      BY <2>1, <3>2 DEF Has
  <2>2. CASE finished # <<>>
    <3>1. Len(Keys(finished)) = 1 /\ DOMAIN Keys(finished) = {1}
          /\ Keys(finished)[1] = finished[1].first
      BY <1>2, <1>3, <2>2
    <3>2. Root(Keys(finished)) = 1
      BY <3>1, RootOf
    <3>3. Found(Keys(finished), p) = IF p = finished[1].first THEN {1} ELSE {}
      BY <3>1, <3>2 DEF Found, Less
    <3>4. Has(finished, p) <=> p = finished[1].first
      BY <3>3 DEF Has
    <3>5. Has(finished, p) => Position(finished, p) \in 1..Len(finished)
                              /\ At(finished, p) = finished[Position(finished, p)].second
      BY <1>1, PositionOf
    <3>6. Has(finished, p) => Position(finished, p) = 1
      BY <1>3, <2>2, <3>5
    <3> QED
      BY <2>2, <3>4, <3>5, <3>6
  <2> QED
    BY <2>1, <2>2
<1> QED
  BY <1>1, <1>2, <1>3, <1>4, <1>5

(* What is usable are maps in common; and of a CounterMap of one or two    *)
(* the counter that lookups find has taken its map out of them.            *)
LEMMA UsableTyped ==
  ASSUME Typed, NEW o \in Offers, NEW p, NEW m, UsableMaps(p, CommonMaps(o)) # <<>>,
         m = Head(UsableMaps(p, CommonMaps(o)))
  PROVE  /\ m \in Range(Maps) \cap Range(o.maps)
         /\ Has(active, p) /\ Has(At(active, p), m) => Len(At(active, p)) = 3
<1> DEFINE cm == CommonMaps(o)
           keys == Keys(At(active, p))
           taken == Reverse(keys)
           nonActive == IF Has(active, p) THEN Difference(cm, taken) ELSE cm
           usable == UsableMaps(p, cm)
<1>1. cm \in Seq(Range(Maps)) /\ Unique(cm) /\ Range(cm) \subseteq Range(o.maps)
  BY CommonMapsTyped
<1>2. ASSUME Has(active, p)
      PROVE  /\ keys \in Seq(Range(Maps)) /\ Len(keys) \in 0..3 /\ Len(keys) = Len(At(active, p))
             /\ taken \in Seq(Range(Maps)) /\ Len(taken) = Len(keys)
             /\ Len(keys) = 1 => taken[1] = keys[1]
             /\ Len(keys) = 2 => taken[1] = keys[2]
  <2>1. /\ keys \in Seq(Range(Maps)) /\ Len(keys) \in 0..3 /\ Len(keys) = Len(At(active, p))
        /\ \A i \in 1..Len(keys) : keys[i] \in Range(Maps)
    <3>1. At(active, p) \in CounterMaps
      BY <1>2, ActiveTyped
    <3>2. /\ keys \in Seq(Range(Maps)) /\ Len(At(active, p)) \in 0..3
          /\ Len(keys) = Len(At(active, p))
      BY <3>1, CountersCounted
    <3> HIDE DEF keys
    <3>3. \A i \in 1..Len(keys) : keys[i] \in Range(Maps)
      BY <3>2, LenProperties
    <3> QED
      BY <3>2, <3>3
  <2> HIDE DEF keys
  <2>2. taken = [i \in 1..Len(keys) |-> keys[Len(keys) - i + 1]]
    BY DEF Reverse
  <2>3. \A i \in 1..Len(keys) : Len(keys) - i + 1 \in 1..Len(keys)
    BY <2>1
  <2>4. taken \in [1..Len(keys) -> Range(Maps)]
    BY <2>1, <2>2, <2>3
  <2> HIDE DEF taken
  <2>5. taken \in Seq(Range(Maps)) /\ Len(taken) = Len(keys)
    BY <2>1, <2>4, FunctionSeq
  <2>6. (Len(keys) = 1 => taken[1] = keys[1]) /\ (Len(keys) = 2 => taken[1] = keys[2])
    BY <2>2
  <2> QED
    BY <2>1, <2>5, <2>6
<1>3. usable = IF Has(finished, p) THEN Difference(nonActive, At(finished, p)) ELSE nonActive
  BY DEF UsableMaps
<1> HIDE DEF cm, taken, usable
<1>4. /\ nonActive \in Seq(Range(Maps)) /\ Range(nonActive) \subseteq Range(cm)
      /\ Has(active, p) /\ Len(taken) >= 1 => taken[1] \notin Range(nonActive)
  <2>1. CASE Has(active, p)
    <3>1. nonActive = Difference(cm, taken)
      BY <2>1
    <3> HIDE DEF nonActive
    <3>2. taken \in Seq(Range(Maps))
      BY <1>2, <2>1
    <3> QED
      BY <1>1, <3>1, <3>2, DifferenceTaken
  <2>2. CASE ~ Has(active, p)
    BY <1>1, <2>2
  <2> QED
    BY <2>1, <2>2
<1> HIDE DEF nonActive
<1>5. usable \in Seq(Range(Maps)) /\ Range(usable) \subseteq Range(nonActive)
  <2>1. ASSUME Has(finished, p)
        PROVE  At(finished, p) \in Seq(Range(Maps))
    <3>1. At(finished, p) \in MapSets
      BY <2>1, FinishedTyped
    <3> QED
      BY <3>1 DEF MapSets
  <2> QED
    BY <1>3, <1>4, <2>1, DifferenceTaken
<1>6. usable # <<>> /\ m = Head(usable)
  BY DEF usable, cm
<1>7. m \in Range(usable) /\ m \in Range(Maps)
  <2>1. 1 \in 1..Len(usable) /\ DOMAIN usable = 1..Len(usable) /\ m = usable[1]
    BY <1>5, <1>6
  <2>2. \A i \in 1..Len(usable) : usable[i] \in Range(Maps)
    BY <1>5, LenProperties
  <2> QED
    BY <2>1, <2>2 DEF Range
<1>8. ASSUME Has(active, p), Has(At(active, p), m)
      PROVE  Len(At(active, p)) = 3
  <2>1. Found(keys, m) # {}
    BY <1>8 DEF Has
  <2>2. /\ keys \in Seq(Range(Maps)) /\ Len(keys) \in 0..3 /\ Len(keys) = Len(At(active, p))
        /\ Len(taken) = Len(keys)
        /\ Len(keys) = 1 => taken[1] = keys[1]
        /\ Len(keys) = 2 => taken[1] = keys[2]
    BY <1>2, <1>8
  <2> HIDE DEF keys
  <2>3. Len(keys) <= 3 /\ DOMAIN keys = 1..Len(keys)
    <3> DEFINE n == Len(keys)
    <3>1. n \in 0..3
      BY <2>2
    <3> HIDE DEF n
    <3>2. n <= 3
      BY <3>1
    <3> QED
      BY <2>2, <3>2, LenProperties DEF n
  <2>4. PICK i \in Found(keys, m) : i \in 1..Len(keys) /\ keys[i] = m
    BY <2>1, <2>2, <2>3, LookedUp
  <2>5. m \in Range(nonActive)
    BY <1>5, <1>7
  <2>6. Len(keys) # 0
    BY <2>4
  <2>7. Len(keys) # 1
    <3> SUFFICES ASSUME Len(keys) = 1 PROVE FALSE
      OBVIOUS
    <3>1. i = 1
      BY <2>4
    <3>2. taken[1] = m
      BY <2>2, <2>4, <3>1, Zenon
    <3>3. Len(taken) >= 1
      <4>1. Len(taken) = 1
        BY <2>2, Zenon
      <4> QED
        BY <4>1
    <3> QED
      BY <1>4, <1>8, <2>5, <3>2, <3>3
  <2>8. Len(keys) # 2
    <3> SUFFICES ASSUME Len(keys) = 2 PROVE FALSE
      OBVIOUS
    <3>1. 1 \notin Found(keys, m)
      <4>1. Len(keys) >= 2
        OBVIOUS
      <4> QED
        BY <2>2, <2>3, <4>1, LookedUp
    <3>2. i = 2
      BY <2>4, <3>1
    <3>3. taken[1] = m
      BY <2>2, <2>4, <3>2, Zenon
    <3>4. Len(taken) >= 1
      <4>1. Len(taken) = 2
        BY <2>2, Zenon
      <4> QED
        BY <4>1
    <3> QED
      BY <1>4, <1>8, <2>5, <3>3, <3>4
  <2> QED
    BY <2>2, <2>6, <2>7, <2>8
<1> QED
  BY <1>1, <1>4, <1>5, <1>7, <1>8

---------------------------------------------------------------------------
(* What the steps do to the invariant. *)

(* Games, matchups and maps. *)
LEMMA GamesOf ==
  /\ \A p \in Matchups, m \in Range(Maps) :
       GameOn(p, m) \in Games /\ p = <<p[1], p[2]>>
       /\ p[1] \in Range(Bots) /\ p[2] \in Range(Bots)
  /\ \A p, q \in Matchups, m, k \in Range(Maps) : GameOn(p, m) = GameOn(q, k) => p = q /\ m = k
  /\ \A g \in Games : /\ MatchupOf(g) \in Matchups /\ g.map \in Range(Maps)
                      /\ Matchup(g.bot0, g.bot1) = MatchupOf(g)
                      /\ GameOn(MatchupOf(g), g.map) = g
<1>1. \A g \in Games : /\ g.bot0 \in Range(Bots) /\ g.bot1 \in Range(Bots) /\ g.map \in Range(Maps)
                       /\ g.bot0 < g.bot1 /\ g = [bot0 |-> g.bot0, bot1 |-> g.bot1, map |-> g.map]
  BY DEF Games
<1>2. \A g \in Games : /\ MatchupOf(g) \in Matchups /\ g.map \in Range(Maps)
                       /\ Matchup(g.bot0, g.bot1) = MatchupOf(g)
  BY <1>1 DEF Matchups, MatchupOf, Matchup
<1>3. \A g \in Games : GameOn(MatchupOf(g), g.map) = g
  BY <1>1 DEF GameOn, MatchupOf
<1>4. ASSUME NEW p \in Matchups, NEW m \in Range(Maps)
      PROVE  /\ GameOn(p, m) \in Games /\ p = <<p[1], p[2]>>
             /\ p[1] \in Range(Bots) /\ p[2] \in Range(Bots)
  <2>1. PICK g \in Games : p = <<g.bot0, g.bot1>>
    BY DEF Matchups, MatchupOf
  <2>2. p[1] = g.bot0 /\ p[2] = g.bot1
    BY <2>1
  <2>3. GameOn(p, m) \in Games
    BY <1>1, <2>2 DEF GameOn, Games
  <2> QED
    BY <1>1, <2>1, <2>2, <2>3
<1>5. ASSUME NEW p \in Matchups, NEW q \in Matchups, NEW m \in Range(Maps), NEW k \in Range(Maps),
             GameOn(p, m) = GameOn(q, k)
      PROVE  p = q /\ m = k
  <2>1. p[1] = q[1] /\ p[2] = q[2] /\ m = k
    BY <1>5 DEF GameOn
  <2>2. p = <<p[1], p[2]>> /\ q = <<q[1], q[2]>>
    BY <1>4
  <2> QED
    BY <2>1, <2>2
<1> QED
  BY <1>2, <1>3, <1>4, <1>5

(* The invariant with an entry at a time. *)
LEMMA InvariantUnfolded ==
  ASSUME IInv
  PROVE  /\ Typed /\ FinishedStillActive /\ FinishedMeansPlayed /\ RetiredPlayedAMatchup
         /\ AbortsExplained
         /\ \A i \in 1..Len(active) : Tally(active[i].second, active[i].first, played)
         /\ \A p : Has(active, p) => Tally(At(active, p), p, played)
<1>1. Typed /\ Tallied
  BY DEF IInv
<1>2. \A i \in 1..Len(active) : Tally(active[i].second, active[i].first, played)
  BY <1>1, ActiveTyped DEF Tallied
<1>3. ASSUME NEW p, Has(active, p)
      PROVE  Tally(At(active, p), p, played)
  <2>1. /\ Position(active, p) \in 1..Len(active) /\ active[Position(active, p)].first = p
        /\ At(active, p) = active[Position(active, p)].second
    BY <1>1, <1>3, ActiveTyped
  <2> QED
    BY <1>2, <2>1
<1> QED
  BY <1>2, <1>3 DEF IInv

(* Successes only add up, so nothing is forgotten that was tallied. *)
LEMMA TallyKept ==
  ASSUME NEW cs \in CounterMaps, NEW p \in Matchups, Tally(cs, p, played),
         played \in [Games -> Nat], played' \in [Games -> Nat],
         \A g \in Games : played'[g] >= played[g]
  PROVE  Tally(cs, p, played')
<1> SUFFICES ASSUME NEW j \in DOMAIN cs
             PROVE  cs[j].second.done + played'[GameOn(p, cs[j].first)] >= NumGames
  BY DEF Tally
<1>1. cs[j].second \in Counter /\ cs[j].first \in Range(Maps)
  BY CountersCounted
<1>2. cs[j].second.done \in Nat
  BY <1>1, ConstantsTyped DEF Counter
<1>3. GameOn(p, cs[j].first) \in Games
  BY <1>1, GamesOf
<1> DEFINE d == cs[j].second.done
           u == played[GameOn(p, cs[j].first)]
           v == played'[GameOn(p, cs[j].first)]
<1>4. d \in Nat /\ u \in Nat /\ v \in Nat /\ v >= u /\ d + u >= NumGames /\ NumGames \in Nat
  BY <1>2, <1>3, ConstantsTyped DEF Tally
<1> HIDE DEF d, u, v
<1>5. d + v >= NumGames
  BY <1>4
<1> QED
  BY <1>5 DEF d, v

(* A matchup's counters are replaced by others that are tallied: lookups   *)
(* come to the same matchups.                                              *)
LEMMA CountersReplaced ==
  ASSUME IInv, NEW p, Has(active, p), NEW cs \in CounterMaps,
         played' \in [Games -> Nat], \A g \in Games : played'[g] >= played[g],
         Tally(cs, p, played')
  PROVE  LET act == Update(active, p, cs)
         IN /\ act \in Seq(Entry(Matchups, CounterMaps)) /\ Spine(Keys(act))
            /\ Keys(act) = Keys(active)
            /\ \A i \in 1..Len(act) : Tally(act[i].second, act[i].first, played')
<1> DEFINE act == Update(active, p, cs)
<1>1. /\ active \in Seq(Entry(Matchups, CounterMaps)) /\ Spine(Keys(active)) /\ p \in Matchups
      /\ \A i \in 1..Len(active) : active[i].first \in Matchups /\ active[i].second \in CounterMaps
      /\ Position(active, p) \in 1..Len(active) /\ active[Position(active, p)].first = p
      /\ played \in [Games -> Nat]
  BY InvariantUnfolded, ActiveTyped DEF Typed
<1>2. act = Update(active, p, cs)
  OBVIOUS
<1> HIDE DEF act
<1>3. /\ act \in Seq(Entry(Matchups, CounterMaps)) /\ Len(act) = Len(active)
      /\ Keys(act) = Keys(active)
      /\ \A i \in 1..Len(active) :
           /\ act[i].first = active[i].first
           /\ act[i].second = IF i = Position(active, p) THEN cs ELSE active[i].second
  BY <1>1, <1>2, Updated
<1>4. ASSUME NEW i \in 1..Len(active)
      PROVE  Tally(act[i].second, act[i].first, played')
  <2>1. CASE i = Position(active, p)
    BY <1>1, <1>3, <2>1
  <2>2. CASE i # Position(active, p)
    <3>1. Tally(active[i].second, active[i].first, played)
      BY InvariantUnfolded
    <3>2. Tally(active[i].second, active[i].first, played')
      BY <1>1, <3>1, TallyKept
    <3> QED
      BY <1>3, <2>2, <3>2
  <2> QED
    BY <2>1, <2>2
<1> QED
  BY <1>1, <1>3, <1>4 DEF act

(* A game goes out, and active is as it may be. *)
LEMMA HandedOut ==
  ASSUME IInv, aborted = "no", NEW p \in Matchups, NEW m \in Range(Maps), HandOut(p, m),
         UNCHANGED <<finished, finishedBots, played>>,
         active' \in Seq(Entry(Matchups, CounterMaps)), Spine(Keys(active')),
         \A q : Has(active, q) => Has(active', q),
         \A i \in 1..Len(active') : Tally(active'[i].second, active'[i].first, played)
  PROVE  IInv'
<1>1. Typed /\ FinishedStillActive /\ FinishedMeansPlayed /\ RetiredPlayedAMatchup
  BY InvariantUnfolded
<1>2. GameOn(p, m) \in Games
  BY GamesOf
<1>3. /\ reply' = [ok |-> TRUE, game |-> {GameOn(p, m)}] /\ aborted' = "no"
      /\ outstanding' = [outstanding EXCEPT ![GameOn(p, m)] = outstanding[GameOn(p, m)] + 1]
  BY DEF HandOut
<1>4. outstanding \in [Games -> Nat] /\ played \in [Games -> Nat]
  BY <1>1 DEF Typed
<1>5. outstanding' \in [Games -> Nat]
  BY <1>2, <1>3, <1>4
<1>6. reply' \in [ok : BOOLEAN, game : SUBSET Games]
  BY <1>2, <1>3
<1>7. Typed'
  BY <1>1, <1>3, <1>5, <1>6 DEF Typed
<1>8. FinishedStillActive' /\ FinishedMeansPlayed' /\ RetiredPlayedAMatchup'
  BY <1>1 DEF FinishedStillActive, FinishedMeansPlayed, RetiredPlayedAMatchup
<1>9. AbortsExplained'
  BY <1>3 DEF AbortsExplained
<1>10. Tallied'
  <2>1. DOMAIN active' = 1..Len(active')
    BY LenProperties
  <2> QED
    BY <2>1 DEF Tallied
<1> QED
  BY <1>7, <1>8, <1>9, <1>10 DEF IInv

(* An assert fails, for one of its reasons. *)
LEMMA AssertFailed ==
  ASSUME IInv, NEW which \in {"active", "reported", "ended"}, AssertFails(which),
         UNCHANGED <<finished, finishedBots, played>>,
         which = "active" => \E p \in Matchups : Has(active, p) /\ Len(At(active, p)) = 3,
         which = "reported" =>
           \E g \in Games : outstanding[g] > 0 /\ ~ HasCounter(MatchupOf(g), g.map),
         which = "ended" =>
           \E g \in Games : /\ outstanding[g] > 0
                            /\ ~ Has(finished, MatchupOf(g)) \/ played[g] >= NumGames
  PROVE  IInv'
<1>1. Typed /\ Tallied /\ FinishedStillActive /\ FinishedMeansPlayed /\ RetiredPlayedAMatchup
  BY DEF IInv
<1>2. aborted' = which /\ UNCHANGED <<active, reply, outstanding>>
  BY DEF AssertFails
<1>3. Typed'
  BY <1>1, <1>2 DEF Typed
<1>4. Tallied' /\ FinishedStillActive' /\ FinishedMeansPlayed' /\ RetiredPlayedAMatchup'
  BY <1>1, <1>2 DEF Tallied, FinishedStillActive, FinishedMeansPlayed, RetiredPlayedAMatchup
<1>5. AbortsExplained'
  BY <1>2 DEF AbortsExplained, HasCounter
<1> QED
  BY <1>3, <1>4, <1>5 DEF IInv

(* No game is filled in. *)
LEMMA NothingReturned ==
  ASSUME IInv, NEW ok \in BOOLEAN, Return(ok), UNCHANGED <<finished, finishedBots, played>>
  PROVE  IInv'
<1>1. /\ Typed /\ Tallied /\ FinishedStillActive /\ FinishedMeansPlayed /\ RetiredPlayedAMatchup
      /\ AbortsExplained
  BY DEF IInv
<1>2. reply' = [ok |-> ok, game |-> {}] /\ UNCHANGED <<active, aborted, outstanding>>
  BY DEF Return
<1>3. reply' \in [ok : BOOLEAN, game : SUBSET Games]
  BY <1>2
<1>4. Typed'
  BY <1>1, <1>2, <1>3 DEF Typed
<1>5. /\ Tallied' /\ FinishedStillActive' /\ FinishedMeansPlayed' /\ RetiredPlayedAMatchup'
      /\ AbortsExplained'
  BY <1>1, <1>2 DEF Tallied, FinishedStillActive, FinishedMeansPlayed, RetiredPlayedAMatchup,
                    AbortsExplained, HasCounter
<1> QED
  BY <1>4, <1>5 DEF IInv

(* The counter of a game, and what becomes of it when a number is set. *)
LEMMA CounterFound ==
  ASSUME IInv, NEW p, NEW m, HasCounter(p, m)
  PROVE  /\ Has(active, p) /\ p \in Matchups /\ At(active, p) \in CounterMaps
         /\ Has(At(active, p), m) /\ m \in Range(Maps)
         /\ Position(At(active, p), m) \in 1..Len(At(active, p))
         /\ At(active, p)[Position(At(active, p), m)].first = m
         /\ CounterOf(p, m) = At(active, p)[Position(At(active, p), m)].second
         /\ CounterOf(p, m) \in Counter
         /\ CounterOf(p, m).done + played[GameOn(p, m)] >= NumGames
<1>1. Has(active, p) /\ Has(At(active, p), m)
  BY DEF HasCounter
<1>2. p \in Matchups /\ At(active, p) \in CounterMaps /\ Tally(At(active, p), p, played)
  BY <1>1, InvariantUnfolded, ActiveTyped
<1> DEFINE cs == At(active, p)
<1>3. /\ cs \in Seq(Entry(Range(Maps), Counter)) /\ DOMAIN cs = 1..Len(cs)
      /\ \A i \in 1..Len(cs) : cs[i].first \in Range(Maps) /\ cs[i].second \in Counter
  BY <1>2, CountersCounted
<1>4. CounterOf(p, m) = At(cs, m)
  BY DEF CounterOf
<1>5. cs \in CounterMaps /\ Has(cs, m) /\ Tally(cs, p, played)
  BY <1>1, <1>2
<1> HIDE DEF cs
<1>6. /\ Position(cs, m) \in 1..Len(cs) /\ cs[Position(cs, m)].first = m
      /\ At(cs, m) = cs[Position(cs, m)].second
  BY <1>3, <1>5, PositionOf
<1>7. At(cs, m).done + played[GameOn(p, m)] >= NumGames
  BY <1>3, <1>5, <1>6 DEF Tally
<1>8. m \in Range(Maps) /\ At(cs, m) \in Counter
  BY <1>3, <1>6
<1> QED
  BY <1>1, <1>2, <1>4, <1>6, <1>7, <1>8 DEF cs

(* A number of a counter is set: its successes still to come are not below *)
(* what is not played.                                                     *)
LEMMA CounterChanged ==
  ASSUME IInv, NEW p, NEW m, HasCounter(p, m), NEW c \in Counter,
         played' \in [Games -> Nat], \A g \in Games : played'[g] >= played[g],
         c.done + played'[GameOn(p, m)] >= NumGames,
         SetCounter(p, m, c)
  PROVE  /\ active' \in Seq(Entry(Matchups, CounterMaps)) /\ Spine(Keys(active'))
         /\ \A q : Has(active', q) <=> Has(active, q)
         /\ \A i \in 1..Len(active') : Tally(active'[i].second, active'[i].first, played')
<1> DEFINE cs == At(active, p)
           new == Update(cs, m, c)
<1>1. /\ Has(active, p) /\ p \in Matchups /\ cs \in CounterMaps /\ Has(cs, m)
      /\ Position(cs, m) \in 1..Len(cs) /\ cs[Position(cs, m)].first = m
      /\ Tally(cs, p, played) /\ played \in [Games -> Nat]
  BY CounterFound, InvariantUnfolded DEF Typed
<1>2. active' = Update(active, p, new)
  BY DEF SetCounter
<1> HIDE DEF cs
<1>3. /\ new \in CounterMaps /\ Len(new) = Len(cs)
      /\ \A i \in 1..Len(cs) :
           /\ new[i].first = cs[i].first
           /\ new[i].second = IF i = Position(cs, m) THEN c ELSE cs[i].second
  BY <1>1, CounterSet
<1> HIDE DEF new
<1>4. Tally(cs, p, played')
  BY <1>1, TallyKept
<1>5. DOMAIN new = 1..Len(cs) /\ DOMAIN cs = 1..Len(cs)
  BY <1>1, <1>3, CountersCounted
<1>6. Tally(new, p, played')
  <2> SUFFICES ASSUME NEW j \in 1..Len(cs)
               PROVE  new[j].second.done + played'[GameOn(p, new[j].first)] >= NumGames
    BY <1>5 DEF Tally
  <2>1. CASE j = Position(cs, m)
    BY <1>1, <1>3, <2>1
  <2>2. CASE j # Position(cs, m)
    BY <1>3, <1>4, <1>5, <2>2 DEF Tally
  <2> QED
    BY <2>1, <2>2
<1>7. /\ active' \in Seq(Entry(Matchups, CounterMaps)) /\ Spine(Keys(active'))
      /\ Keys(active') = Keys(active)
      /\ \A i \in 1..Len(active') : Tally(active'[i].second, active'[i].first, played')
  BY <1>1, <1>2, <1>3, <1>6, CountersReplaced
<1> QED
  BY <1>7 DEF Has

(* The pairing that is chosen is one of those looked for, of bots that the *)
(* client has.                                                             *)
LEMMA FirstOwned ==
  ASSUME Typed, NEW o \in Offers, NEW P, NEW p \in First(CommonBots(o), P)
  PROVE  p \in P /\ p[1] \in Range(o.bots) /\ p[2] \in Range(o.bots)
<1> DEFINE cb == CommonBots(o)
<1>1. PICK v \in Visits(cb) : p = Pairing(cb, v) /\ Pairing(cb, v) \in P
  BY DEF First
<1>2. v[1] \in DOMAIN cb /\ v[2] \in DOMAIN cb
  BY DEF Visits
<1>3. cb[v[1]] \in Range(o.bots) /\ cb[v[2]] \in Range(o.bots)
  BY <1>2, CommonBotsTyped
<1> DEFINE a == cb[v[1]]
           b == cb[v[2]]
<1>4. p = Matchup(a, b)
  BY <1>1 DEF Pairing
<1> HIDE DEF cb, a, b
<1>5. p[1] \in {a, b} /\ p[2] \in {a, b}
  BY <1>4 DEF Matchup
<1> QED
  BY <1>1, <1>3, <1>5 DEF a, b

(* Where a game comes from: the counter of its map, a new one, or a new    *)
(* one that a matchup taken for new is refused.                            *)
Taken(p, m) ==
  \/ /\ HasCounter(p, m) /\ CounterOf(p, m).left > 0
     /\ SetCounter(p, m, [CounterOf(p, m) EXCEPT !.left = @ - 1])
  \/ /\ Has(active, p) /\ ~ Has(At(active, p), m)
     /\ active' = Update(active, p, Emplace(At(active, p), m, NewCounter))
  \/ active' = Emplace(active, p, Emplace(<<>>, m, NewCounter))

(* What a request can come to. *)
Outcome(o) ==
  \/ \E ok \in BOOLEAN : Return(ok)
  \/ AssertFails("active")
  \/ \E p \in Matchups, m \in Range(Maps) :
       /\ HandOut(p, m) /\ Taken(p, m) /\ m \in Range(o.maps)
       /\ p[1] \in Range(o.bots) /\ p[2] \in Range(o.bots)

(* A game of a matchup under way, on the first open map. *)
LEMMA ActiveMapStep ==
  ASSUME IInv, aborted = "no", NEW o \in Offers,
         GenerateActiveMap(CommonBots(o), CommonMaps(o)),
         UNCHANGED <<finished, finishedBots, played>>
  PROVE  /\ IInv'
         /\ Outcome(o)
<1> DEFINE cb == CommonBots(o)
           cm == CommonMaps(o)
<1>1. PICK p \in First(cb, OpenMatchups(cm)) :
        LET m == cm[Min(Open(p, cm))]
        IN /\ SetCounter(p, m, [CounterOf(p, m) EXCEPT !.left = @ - 1])
           /\ HandOut(p, m)
  BY DEF GenerateActiveMap
<1>2. p \in OpenMatchups(cm) /\ p[1] \in Range(o.bots) /\ p[2] \in Range(o.bots)
  BY FirstOwned, InvariantUnfolded
<1>3. p \in Matchups /\ Open(p, cm) # {}
  BY <1>2 DEF OpenMatchups
<1>4. \A k \in DOMAIN cm : cm[k] \in Range(Maps) \cap Range(o.maps)
  BY CommonMapsTyped
<1>5. Open(p, cm) \subseteq Nat
  <2>1. DOMAIN cm \subseteq Nat
    <3>1. cm \in Seq(Range(Maps))
      BY CommonMapsTyped
    <3> HIDE DEF cm
    <3>2. Len(cm) \in Nat /\ DOMAIN cm = 1..Len(cm)
      BY <3>1, LenProperties
    <3> QED
      BY <3>2
  <2> HIDE DEF cm
  <2> QED
    BY <2>1 DEF Open
<1> DEFINE k == Min(Open(p, cm))
           m == cm[k]
<1>6. k \in Open(p, cm)
  <2> DEFINE S == Open(p, cm)
  <2> HIDE DEF S
  <2>1. \E x \in S : \A y \in S : x <= y
    BY <1>3, <1>5, LeastElement DEF S
  <2>2. Min(S) \in S
    BY <2>1 DEF Min
  <2> QED
    BY <2>2 DEF S
<1>7. /\ SetCounter(p, m, [CounterOf(p, m) EXCEPT !.left = CounterOf(p, m).left - 1])
      /\ HandOut(p, m)
  BY <1>1
<1> HIDE DEF cb, k
<1>8. HasCounter(p, m) /\ CounterOf(p, m).left > 0 /\ k \in DOMAIN cm
  BY <1>6 DEF Open
<1>9. m \in Range(Maps) /\ m \in Range(o.maps)
  BY <1>4, <1>8
<1> HIDE DEF m, cm
<1> DEFINE c == CounterOf(p, m)
           d == [c EXCEPT !.left = c.left - 1]
<1>10. c \in Counter /\ c.done + played[GameOn(p, m)] >= NumGames
  BY <1>8, CounterFound
<1>11. SetCounter(p, m, d)
  BY <1>7
<1> HIDE DEF c
<1>12. d \in Counter /\ d.done = c.done
  <2>1. c.left \in Nat /\ c.left > 0
    BY <1>8, <1>10 DEF Counter, c
  <2>2. c.left - 1 \in Nat
    BY <2>1
  <2> DEFINE n == c.left - 1
  <2> HIDE DEF n
  <2> QED
    BY <1>10, <2>2 DEF Counter, n
<1> HIDE DEF d
<1>13. played' \in [Games -> Nat] /\ \A g \in Games : played'[g] >= played[g]
  <2>1. played \in [Games -> Nat] /\ played' = played
    BY InvariantUnfolded DEF Typed
  <2>2. \A g \in Games : played[g] \in Nat
    BY <2>1
  <2>3. \A n \in Nat : n >= n
    OBVIOUS
  <2> QED
    BY <2>1, <2>2, <2>3
<1>14. d.done + played'[GameOn(p, m)] >= NumGames
  BY <1>10, <1>12
<1>15. /\ active' \in Seq(Entry(Matchups, CounterMaps)) /\ Spine(Keys(active'))
       /\ \A q : Has(active', q) <=> Has(active, q)
       /\ \A i \in 1..Len(active') : Tally(active'[i].second, active'[i].first, played')
  BY <1>8, <1>11, <1>12, <1>13, <1>14, CounterChanged
<1>16. \A i \in 1..Len(active') : Tally(active'[i].second, active'[i].first, played)
  BY <1>15
<1>17. IInv'
  BY <1>3, <1>7, <1>9, <1>15, <1>16, HandedOut
<1> QED
  <2>1. Taken(p, m)
    BY <1>7, <1>8 DEF Taken
  <2> QED
    BY <1>2, <1>3, <1>7, <1>9, <1>17, <2>1 DEF Outcome

(* A counter that a game is taken from is a counter. *)
LEMMA NewCounterTyped ==
  NewCounter \in Counter /\ NewCounter.done = NumGames
<1>1. NumGames \in Nat \ {0}
  BY ConstantsTyped
<1>2. NumGames - 1 \in Nat /\ NumGames \in 1..NumGames
  BY <1>1
<1> QED
  BY <1>2 DEF NewCounter, Counter

(* A counter with all its successes to come is tallied, whatever else is.  *)
LEMMA NewTally ==
  ASSUME NEW p \in Matchups, NEW m \in Range(Maps), Typed
  PROVE  NewCounter.done + played[GameOn(p, m)] >= NumGames
<1>1. GameOn(p, m) \in Games /\ played \in [Games -> Nat] /\ NumGames \in Nat
  BY GamesOf, ConstantsTyped DEF Typed
<1> DEFINE n == played[GameOn(p, m)]
<1>2. n \in Nat
  BY <1>1
<1> HIDE DEF n
<1>3. NumGames + n >= NumGames
  BY <1>1, <1>2
<1> QED
  BY <1>3, NewCounterTyped DEF n

(* A game of a matchup under way, on a map it has no counter for. *)
LEMMA ActiveMatchupStep ==
  ASSUME IInv, aborted = "no", NEW o \in Offers,
         GenerateActiveMatchup(CommonBots(o), CommonMaps(o)),
         UNCHANGED <<finished, finishedBots, played>>
  PROVE  /\ IInv'
         /\ Outcome(o)
<1> DEFINE cb == CommonBots(o)
           cm == CommonMaps(o)
<1>1. PICK p \in Extendable(cb, cm) :
        LET m == Head(UsableMaps(p, cm))
        IN IF HasCounter(p, m) THEN AssertFails("active")
           ELSE /\ active' = Update(active, p, Emplace(At(active, p), m, NewCounter))
                /\ HandOut(p, m)
  BY DEF GenerateActiveMatchup
<1> DEFINE m == Head(UsableMaps(p, cm))
<1>2. p \in First(cb, Started) /\ UsableMaps(p, cm) # <<>>
  BY DEF Extendable
<1>3. p \in Started /\ p[1] \in Range(o.bots) /\ p[2] \in Range(o.bots)
  BY <1>2, FirstOwned, InvariantUnfolded
<1>4. p \in Matchups /\ (Has(active, p) \/ Has(finished, p))
  BY <1>3 DEF Started
<1>5. Has(active, p)
  <2>1. Has(finished, p) => 1 \in DOMAIN finished /\ p = finished[1].first
    BY InvariantUnfolded, FinishedTyped
  <2> QED
    BY <1>4, <2>1, InvariantUnfolded DEF FinishedStillActive
<1>6. /\ m \in Range(Maps) /\ m \in Range(o.maps)
      /\ Has(active, p) /\ Has(At(active, p), m) => Len(At(active, p)) = 3
  BY <1>2, UsableTyped, InvariantUnfolded
<1>7. \/ HasCounter(p, m) /\ AssertFails("active")
      \/ /\ ~ HasCounter(p, m) /\ HandOut(p, m)
         /\ active' = Update(active, p, Emplace(At(active, p), m, NewCounter))
  BY <1>1
<1> HIDE DEF m, cb, cm
<1>8. CASE HasCounter(p, m) /\ AssertFails("active")
  <2>1. \E q \in Matchups : Has(active, q) /\ Len(At(active, q)) = 3
    BY <1>4, <1>5, <1>6, <1>8 DEF HasCounter
  <2>2. IInv'
    BY <1>8, <2>1, AssertFailed
  <2> QED
    BY <1>8, <2>2 DEF Outcome
<1>9. CASE /\ ~ HasCounter(p, m) /\ HandOut(p, m)
           /\ active' = Update(active, p, Emplace(At(active, p), m, NewCounter))
  <2> DEFINE cs == At(active, p)
             new == Emplace(cs, m, NewCounter)
  <2>1. cs \in CounterMaps /\ Tally(cs, p, played) /\ ~ Has(cs, m)
    BY <1>5, <1>9, InvariantUnfolded, ActiveTyped DEF HasCounter
  <2>2. active' = Update(active, p, new)
    BY <1>9
  <2> HIDE DEF cs
  <2>3. new \in CounterMaps
        /\ \A i \in 1..Len(new) :
             (\E j \in 1..Len(cs) : new[i] = cs[j]) \/ (new[i].first = m /\ new[i].second = NewCounter)
    BY <1>6, <2>1, NewCounterTyped, CounterAdded
  <2> HIDE DEF new
  <2>4. Tally(new, p, played)
    <3>1. DOMAIN new = 1..Len(new) /\ DOMAIN cs = 1..Len(cs)
      BY <2>1, <2>3, CountersCounted
    <3> SUFFICES ASSUME NEW i \in 1..Len(new)
                 PROVE  new[i].second.done + played[GameOn(p, new[i].first)] >= NumGames
      BY <3>1 DEF Tally
    <3>2. CASE \E j \in 1..Len(cs) : new[i] = cs[j]
      BY <2>1, <3>1, <3>2 DEF Tally
    <3>3. CASE new[i].first = m /\ new[i].second = NewCounter
      <4>1. NewCounter.done + played[GameOn(p, m)] >= NumGames
        BY <1>4, <1>6, NewTally, InvariantUnfolded
      <4> QED
        BY <3>3, <4>1
    <3> QED
      BY <2>3, <3>2, <3>3
  <2>5. played' = played /\ played' \in [Games -> Nat] /\ \A g \in Games : played'[g] >= played[g]
    <3>1. played \in [Games -> Nat] /\ played' = played
      BY InvariantUnfolded DEF Typed
    <3>2. \A g \in Games : played[g] \in Nat
      BY <3>1
    <3>3. \A n \in Nat : n >= n
      OBVIOUS
    <3> QED
      BY <3>1, <3>2, <3>3
  <2>6. Tally(new, p, played')
    BY <2>4, <2>5
  <2>7. /\ active' \in Seq(Entry(Matchups, CounterMaps)) /\ Spine(Keys(active'))
        /\ Keys(active') = Keys(active)
        /\ \A i \in 1..Len(active') : Tally(active'[i].second, active'[i].first, played')
    BY <1>5, <2>2, <2>3, <2>5, <2>6, CountersReplaced
  <2>8. \A q : Has(active, q) => Has(active', q)
    BY <2>7 DEF Has
  <2>9. \A i \in 1..Len(active') : Tally(active'[i].second, active'[i].first, played)
    BY <2>5, <2>7
  <2>10. IInv'
    BY <1>4, <1>6, <1>9, <2>7, <2>8, <2>9, HandedOut
  <2>11. Taken(p, m)
    BY <1>5, <1>9, <2>1 DEF Taken, cs
  <2> QED
    BY <1>3, <1>4, <1>6, <1>9, <2>10, <2>11 DEF Outcome
<1> QED
  BY <1>7, <1>8, <1>9

(* The first counter of a matchup. *)
LEMMA FirstCounter ==
  ASSUME Typed, NEW p \in Matchups, NEW m \in Range(Maps)
  PROVE  /\ Emplace(<<>>, m, NewCounter) \in CounterMaps
         /\ Tally(Emplace(<<>>, m, NewCounter), p, played)
<1> DEFINE none == <<>>
           new == Emplace(none, m, NewCounter)
<1>1. none \in Seq(Entry(Range(Maps), Counter)) /\ Len(none) = 0
  BY EmptySeq
<1>2. none \in CounterMaps /\ Len(Keys(none)) = 0
  <2> HIDE DEF none
  <2>1. 1..Len(none) = {}
    BY <1>1
  <2>2. \A i, j \in 1..Len(none) : none[i].first = none[j].first => i = j
    BY <2>1
  <2>3. none \in CounterMaps
    BY <1>1, <2>2, CountersMade
  <2>4. Len(Keys(none)) = 0
    BY <1>1, KeysOf
  <2> QED
    BY <2>3, <2>4
<1>3. ~ Has(none, m)
  <2> HIDE DEF none
  <2>1. DOMAIN Keys(none) = {}
    <3>1. DOMAIN Keys(none) = 1..Len(none)
      BY <1>1, KeysOf
    <3> QED
      BY <1>1, <3>1
  <2> QED
    BY <2>1 DEF Has, Found
<1> HIDE DEF none
<1>4. new \in CounterMaps
      /\ \A i \in 1..Len(new) :
           (\E j \in 1..Len(none) : new[i] = none[j])
             \/ (new[i].first = m /\ new[i].second = NewCounter)
  BY <1>2, <1>3, NewCounterTyped, CounterAdded
<1> HIDE DEF new
<1>5. \A i \in 1..Len(new) : new[i].first = m /\ new[i].second = NewCounter
  <2>1. 1..Len(none) = {}
    BY <1>1
  <2> QED
    BY <1>4, <2>1
<1>6. DOMAIN new = 1..Len(new)
  BY <1>4, CountersCounted
<1>7. NewCounter.done + played[GameOn(p, m)] >= NumGames
  BY NewTally
<1>8. Tally(new, p, played)
  BY <1>5, <1>6, <1>7 DEF Tally
<1> QED
  BY <1>4, <1>8 DEF new, none

(* A matchup that is taken for new. *)
LEMMA NewMatchupStep ==
  ASSUME IInv, aborted = "no", NEW o \in Offers, CommonMaps(o) # <<>>,
         GenerateNewMatchup(CommonBots(o), CommonMaps(o)),
         UNCHANGED <<finished, finishedBots, played>>
  PROVE  /\ IInv'
         /\ Outcome(o)
<1> DEFINE cb == CommonBots(o)
           cm == CommonMaps(o)
           m == Head(cm)
<1>1. CASE \E ok \in BOOLEAN : Return(ok)
  <2>1. PICK ok \in BOOLEAN : Return(ok)
    BY <1>1
  <2> QED
    BY <2>1, NothingReturned DEF Outcome
<1>2. CASE \E p \in First(cb, NewMatchups) :
             /\ active' = Emplace(active, p, Emplace(<<>>, Head(cm), NewCounter))
             /\ HandOut(p, Head(cm))
  <2>1. PICK p \in First(cb, NewMatchups) :
          /\ active' = Emplace(active, p, Emplace(<<>>, m, NewCounter))
          /\ HandOut(p, m)
    BY <1>2
  <2>2. p \in Matchups /\ p[1] \in Range(o.bots) /\ p[2] \in Range(o.bots)
    BY FirstOwned, InvariantUnfolded DEF NewMatchups
  <2>3. m \in Range(Maps) /\ m \in Range(o.maps)
    <3>1. cm \in Seq(Range(Maps)) /\ cm # <<>>
          /\ \A k \in DOMAIN cm : cm[k] \in Range(Maps) \cap Range(o.maps)
      BY CommonMapsTyped
    <3> HIDE DEF cm
    <3>2. m = cm[1] /\ 1 \in DOMAIN cm
      BY <3>1
    <3> QED
      BY <3>1, <3>2
  <2> HIDE DEF m, cm, cb
  <2> DEFINE cs == Emplace(<<>>, m, NewCounter)
  <2>4. cs \in CounterMaps /\ Tally(cs, p, played)
    BY <2>2, <2>3, FirstCounter, InvariantUnfolded
  <2>5. active' = Emplace(active, p, cs)
    BY <2>1
  <2> HIDE DEF cs
  <2>6. /\ active \in Seq(Entry(Matchups, CounterMaps)) /\ Spine(Keys(active))
        /\ Len(active) \in Nat
    BY InvariantUnfolded, ActiveTyped
  <2>7. active' \in Seq(Entry(Matchups, CounterMaps)) /\ Spine(Keys(active'))
    <3>1. /\ Emplace(active, p, cs) \in Seq(Entry(Matchups, CounterMaps))
          /\ Spine(Keys(Emplace(active, p, cs)))
      BY <2>2, <2>4, <2>6, ActiveGrows
    <3> QED
      BY <2>5, <3>1
  <2>8. \A q : Has(active, q) => Has(active', q)
    <3> SUFFICES ASSUME NEW q, Has(active, q) PROVE Has(active', q)
      OBVIOUS
    <3>1. Spine(Keys(Emplace(active, p, cs)))
      BY <2>5, <2>7
    <3>2. Has(Emplace(active, p, cs), q)
      BY <2>2, <2>4, <2>6, <3>1, FoundStays
    <3> QED
      BY <2>5, <3>2
  <2>9. ASSUME NEW i \in 1..Len(active')
        PROVE  Tally(active'[i].second, active'[i].first, played)
    <3>1. CASE Collides(Keys(active), p)
      <4>1. active' = active
        BY <2>5, <3>1 DEF Emplace
      <4> QED
        BY <4>1, InvariantUnfolded
    <3>2. CASE ~ Collides(Keys(active), p)
      <4>1. /\ Len(active') = Len(active) + 1 /\ active'[1].first = p /\ active'[1].second = cs
            /\ \A j \in 1..Len(active) : active'[j + 1] = active[j]
        BY <2>2, <2>4, <2>5, <2>6, <3>2, Emplaced
      <4>2. CASE i = 1
        BY <2>4, <4>1, <4>2
      <4>3. CASE i # 1
        <5>1. i - 1 \in 1..Len(active) /\ (i - 1) + 1 = i
          BY <2>6, <4>1, <4>3
        <5>2. active'[i] = active[i - 1]
          BY <4>1, <5>1
        <5> QED
          BY <5>1, <5>2, InvariantUnfolded
      <4> QED
        BY <4>2, <4>3
    <3> QED
      BY <3>1, <3>2
  <2>10. IInv'
    BY <2>1, <2>2, <2>3, <2>7, <2>8, <2>9, HandedOut
  <2>11. Taken(p, m)
    BY <2>5 DEF Taken, cs
  <2> QED
    BY <2>1, <2>2, <2>3, <2>10, <2>11 DEF Outcome
<1> QED
  BY <1>1, <1>2 DEF GenerateNewMatchup

(* generateGame. *)
LEMMA GenerateGameStep ==
  ASSUME IInv, NEW o \in Offers, GenerateGame(o)
  PROVE  /\ IInv'
         /\ Outcome(o)
<1> DEFINE cb == CommonBots(o)
           cm == CommonMaps(o)
<1>1. aborted = "no" /\ UNCHANGED <<finished, finishedBots, played>>
  BY DEF GenerateGame
<1>2. \/ TooFew(cb, cm) /\ Return(FALSE)
      \/ GenerateActiveMap(cb, cm)
      \/ GenerateActiveMatchup(cb, cm)
      \/ ~ TooFew(cb, cm) /\ GenerateNewMatchup(cb, cm)
  BY DEF GenerateGame
<1>3. CASE Return(FALSE)
  BY <1>1, <1>3, NothingReturned DEF Outcome
<1>4. CASE GenerateActiveMap(cb, cm)
  BY <1>1, <1>4, ActiveMapStep
<1>5. CASE GenerateActiveMatchup(cb, cm)
  BY <1>1, <1>5, ActiveMatchupStep
<1>6. CASE ~ TooFew(cb, cm) /\ GenerateNewMatchup(cb, cm)
  <2>1. cm # <<>>
    BY <1>6 DEF TooFew
  <2> QED
    BY <1>1, <1>6, <2>1, NewMatchupStep
<1> QED
  BY <1>2, <1>3, <1>4, <1>5, <1>6

---------------------------------------------------------------------------
(* What a report does. *)

(* A tally of games that only counts up. *)
LEMMA OneMorePlayed ==
  ASSUME Typed, NEW g \in Games, played' = [played EXCEPT ![g] = @ + 1]
  PROVE  /\ played' \in [Games -> Nat] /\ \A h \in Games : played'[h] >= played[h]
         /\ played'[g] = played[g] + 1
<1>1. played \in [Games -> Nat]
  BY DEF Typed
<1>2. \A h \in Games : played[h] \in Nat
  BY <1>1
<1> QED
  BY <1>1, <1>2

(* A game less with the clients. *)
LEMMA OneLessOut ==
  ASSUME Typed, NEW g \in Games, outstanding[g] > 0,
         outstanding' = [outstanding EXCEPT ![g] = @ - 1]
  PROVE  outstanding' \in [Games -> Nat]
<1>1. outstanding \in [Games -> Nat]
  BY DEF Typed
<1>2. outstanding[g] \in Nat /\ outstanding[g] - 1 \in Nat
  BY <1>1
<1> QED
  BY <1>1, <1>2

(* Games that were played stay played. *)
LEMMA PlayedKept ==
  ASSUME Typed, FinishedMeansPlayed, RetiredPlayedAMatchup,
         played' \in [Games -> Nat], \A h \in Games : played'[h] >= played[h],
         UNCHANGED <<finished, finishedBots>>
  PROVE  FinishedMeansPlayed' /\ RetiredPlayedAMatchup'
<1>1. /\ played \in [Games -> Nat] /\ NumGames \in Nat
      /\ \A i \in DOMAIN finished : /\ finished[i].first \in Matchups
                                    /\ finished[i].second \in MapSets
  BY FinishedTyped, ConstantsTyped DEF Typed
<1>2. \A p \in Matchups, m \in Range(Maps) :
        played[GameOn(p, m)] >= NumGames => played'[GameOn(p, m)] >= NumGames
  <2> SUFFICES ASSUME NEW p \in Matchups, NEW m \in Range(Maps),
                      played[GameOn(p, m)] >= NumGames
               PROVE  played'[GameOn(p, m)] >= NumGames
    OBVIOUS
  <2>1. GameOn(p, m) \in Games
    BY GamesOf
  <2> QED
    BY <1>1, <2>1
<1>3. FinishedMeansPlayed'
  <2> SUFFICES ASSUME NEW i \in DOMAIN finished, NEW m \in Range(finished[i].second)
               PROVE  played'[GameOn(finished[i].first, m)] >= NumGames
    BY DEF FinishedMeansPlayed
  <2>1. played[GameOn(finished[i].first, m)] >= NumGames
    BY DEF FinishedMeansPlayed
  <2>2. m \in Range(Maps)
    <3>1. finished[i].second \in Seq(Range(Maps))
      BY <1>1 DEF MapSets
    <3>2. DOMAIN finished[i].second = 1..Len(finished[i].second)
          /\ \A j \in 1..Len(finished[i].second) : finished[i].second[j] \in Range(Maps)
      BY <3>1, LenProperties
    <3>3. PICK j \in DOMAIN finished[i].second : m = finished[i].second[j]
      BY DEF Range
    <3> QED
      BY <3>2, <3>3
  <2> QED
    BY <1>1, <1>2, <2>1, <2>2
<1>4. RetiredPlayedAMatchup'
  BY <1>2 DEF RetiredPlayedAMatchup
<1> QED
  BY <1>3, <1>4

(* A report that only sets a counter. *)
LEMMA CounterReported ==
  ASSUME IInv, aborted = "no", NEW g \in Games, NEW c \in Counter, outstanding[g] > 0,
         HasCounter(MatchupOf(g), g.map), SetCounter(MatchupOf(g), g.map, c),
         played' \in [Games -> Nat], \A h \in Games : played'[h] >= played[h],
         c.done + played'[g] >= NumGames,
         outstanding' = [outstanding EXCEPT ![g] = @ - 1],
         UNCHANGED <<finished, finishedBots, reply, aborted>>
  PROVE  IInv'
<1> DEFINE p == MatchupOf(g)
           m == g.map
<1>1. p \in Matchups /\ m \in Range(Maps) /\ GameOn(p, m) = g
  BY GamesOf
<1>2. c.done + played'[GameOn(p, m)] >= NumGames
  BY <1>1
<1>3. /\ active' \in Seq(Entry(Matchups, CounterMaps)) /\ Spine(Keys(active'))
      /\ \A q : Has(active', q) <=> Has(active, q)
      /\ \A i \in 1..Len(active') : Tally(active'[i].second, active'[i].first, played')
  <2> HIDE DEF p, m
  <2>1. HasCounter(p, m) /\ SetCounter(p, m, c)
    BY DEF p, m
  <2> QED
    BY <1>2, <2>1, CounterChanged
<1>4. /\ Typed /\ FinishedStillActive /\ FinishedMeansPlayed /\ RetiredPlayedAMatchup
      /\ AbortsExplained
  BY InvariantUnfolded
<1>5. outstanding' \in [Games -> Nat]
  BY <1>4, OneLessOut
<1>6. Typed'
  BY <1>3, <1>4, <1>5 DEF Typed
<1>7. FinishedStillActive'
  BY <1>3, <1>4 DEF FinishedStillActive
<1>8. Tallied'
  <2>1. DOMAIN active' = 1..Len(active')
    BY <1>3, LenProperties
  <2> QED
    BY <1>3, <2>1 DEF Tallied
<1>9. FinishedMeansPlayed' /\ RetiredPlayedAMatchup'
  BY <1>4, PlayedKept
<1>10. AbortsExplained'
  BY DEF AbortsExplained
<1> QED
  BY <1>6, <1>7, <1>8, <1>9, <1>10 DEF IInv

(* A failed game. *)
LEMMA NotifyFailStep ==
  ASSUME IInv, NEW g \in Games, NotifyFail(g)
  PROVE  IInv'
<1> DEFINE p == MatchupOf(g)
           m == g.map
<1>1. /\ aborted = "no" /\ outstanding[g] > 0
      /\ Matchup(g.bot0, g.bot1) = p
      /\ UNCHANGED <<finished, finishedBots, played>>
  BY GamesOf DEF NotifyFail
<1>2. \/ ~ HasCounter(p, m) /\ AssertFails("reported")
      \/ /\ HasCounter(p, m)
         /\ SetCounter(p, m, [CounterOf(p, m) EXCEPT !.left = @ + 1])
         /\ outstanding' = [outstanding EXCEPT ![g] = @ - 1]
         /\ UNCHANGED <<reply, aborted>>
  BY <1>1 DEF NotifyFail
<1>3. CASE ~ HasCounter(p, m) /\ AssertFails("reported")
  BY <1>1, <1>3, AssertFailed
<1>4. CASE /\ HasCounter(p, m)
           /\ SetCounter(p, m, [CounterOf(p, m) EXCEPT !.left = @ + 1])
           /\ outstanding' = [outstanding EXCEPT ![g] = @ - 1]
           /\ UNCHANGED <<reply, aborted>>
  <2> DEFINE c == [CounterOf(p, m) EXCEPT !.left = @ + 1]
  <2>1. CounterOf(p, m) \in Counter /\ CounterOf(p, m).done + played[GameOn(p, m)] >= NumGames
    BY <1>4, CounterFound
  <2>2. c \in Counter /\ c.done = CounterOf(p, m).done
    BY <2>1 DEF Counter
  <2>3. GameOn(p, m) = g
    BY GamesOf
  <2>4. played \in [Games -> Nat] /\ played' = played
    BY <1>1, InvariantUnfolded DEF Typed
  <2>5. \A h \in Games : played[h] \in Nat
    BY <2>4
  <2>6. played' \in [Games -> Nat] /\ \A h \in Games : played'[h] >= played[h]
    BY <2>4, <2>5
  <2>7. c.done + played'[g] >= NumGames
    BY <2>1, <2>2, <2>3, <2>4
  <2>8. SetCounter(p, m, c)
    BY <1>4
  <2> HIDE DEF c
  <2> QED
    BY <1>1, <1>4, <2>2, <2>6, <2>7, <2>8, CounterReported
<1> QED
  BY <1>2, <1>3, <1>4

(* A map that is not found among the finished ones becomes one of them. *)
LEMMA MapInserted ==
  ASSUME NEW s \in MapSets, NEW m \in Range(Maps), Found(s, m) = {}
  PROVE  Insert(s, m) \in MapSets /\ Range(Insert(s, m)) \subseteq Range(s) \cup {m}
<1>1. s \in Seq(Range(Maps)) /\ Unique(s)
  BY DEF MapSets
<1>2. CASE Collides(s, m)
  BY <1>2 DEF Insert
<1>3. CASE ~ Collides(s, m)
  <2> DEFINE t == <<m>> \o s
  <2>1. Insert(s, m) = t
    BY <1>3 DEF Insert
  <2>2. /\ t \in Seq(Range(Maps)) /\ DOMAIN t = 1..Len(s) + 1 /\ t[1] = m
        /\ \A k \in 2..Len(s) + 1 : t[k] = s[k - 1]
    BY <1>1, Prepended
  <2> HIDE DEF t
  <2>3. Len(s) \in 0..3 /\ DOMAIN s = 1..Len(s)
    BY <1>1, MapsCounted
  <2>4. m \notin Range(s)
    <3> DEFINE n == Len(s)
    <3>1. n \in 0..3
      BY <2>3
    <3> HIDE DEF n
    <3>2. n <= 3
      BY <3>1
    <3>3. Len(s) <= 3
      BY <3>2 DEF n
    <3> QED
      BY <1>1, <1>3, <3>3, LookedUp
  <2>5. \A i \in 1..Len(s) : s[i] # m
    BY <2>3, <2>4 DEF Range
  <2>6. \A i, j \in 1..Len(s) : s[i] = s[j] => i = j
    BY <1>1, <2>3 DEF Unique, IsInjective
  <2>7. \A i \in 1..Len(s) + 1 : i = 1 \/ (i \in 2..Len(s) + 1 /\ i - 1 \in 1..Len(s))
    BY <2>3
  <2>8. \A i, j \in 1..Len(s) + 1 : t[i] = t[j] => i = j
    <3> SUFFICES ASSUME NEW i \in 1..Len(s) + 1, NEW j \in 1..Len(s) + 1, t[i] = t[j]
                 PROVE  i = j
      OBVIOUS
    <3>1. CASE i = 1 \/ j = 1
      BY <2>2, <2>5, <2>7, <3>1
    <3>2. CASE i # 1 /\ j # 1
      <4>1. i - 1 \in 1..Len(s) /\ j - 1 \in 1..Len(s) /\ s[i - 1] = s[j - 1]
        BY <2>2, <2>7, <3>2
      <4>2. i - 1 = j - 1 /\ i \in Int /\ j \in Int
        BY <2>6, <4>1
      <4> QED
        BY <4>2
    <3> QED
      BY <3>1, <3>2
  <2>9. Unique(t)
    BY <2>2, <2>8 DEF Unique, IsInjective
  <2>10. Range(t) \subseteq Range(s) \cup {m}
    <3> SUFFICES ASSUME NEW i \in 1..Len(s) + 1 PROVE t[i] \in Range(s) \cup {m}
      BY <2>2 DEF Range
    <3>1. CASE i = 1
      BY <2>2, <3>1
    <3>2. CASE i # 1
      <4>1. t[i] = s[i - 1] /\ i - 1 \in DOMAIN s
        BY <2>2, <2>3, <2>7, <3>2
      <4> QED
        BY <4>1 DEF Range
    <3> QED
      BY <3>1, <3>2
  <2> QED
    BY <2>1, <2>2, <2>9, <2>10 DEF MapSets
<1> QED
  BY <1>2, <1>3

(* The one entry of finished after a map has moved there. *)
LEMMA FinishedGrows ==
  ASSUME Typed, NEW p \in Matchups, NEW m \in Range(Maps), NotEnded(p, m),
         NEW fin, fin = FinishedWith(p, m)
  PROVE  /\ fin \in Seq(Entry(Matchups, MapSets)) /\ Len(fin) = 1 /\ fin[1].first = p
         /\ fin[1].second \in MapSets
         /\ \A k \in Range(fin[1].second) :
              k = m \/ (finished # <<>> /\ p = finished[1].first /\ k \in Range(finished[1].second))
<1>1. CASE finished = <<>>
  <2> DEFINE ms == <<m>>
             e == [first |-> p, second |-> ms]
  <2>1. ms \in Seq(Range(Maps)) /\ DOMAIN ms = {1} /\ ms[1] = m
    OBVIOUS
  <2>2. fin = <<e>>
    BY <1>1 DEF FinishedWith
  <2> HIDE DEF ms
  <2>3. ms \in MapSets /\ Range(ms) = {m}
    BY <2>1 DEF MapSets, Unique, IsInjective, Range
  <2>4. e \in Entry(Matchups, MapSets) /\ e.first = p /\ e.second = ms
    BY <2>3 DEF Entry
  <2> HIDE DEF e
  <2>5. <<e>> \in Seq(Entry(Matchups, MapSets)) /\ Len(<<e>>) = 1 /\ (<<e>>)[1] = e
    BY <2>4
  <2> QED
    BY <2>2, <2>3, <2>4, <2>5
<1>2. CASE finished # <<>>
  <2>1. Has(finished, p) /\ Found(At(finished, p), m) = {}
    BY <1>2 DEF NotEnded
  <2>2. /\ finished \in Seq(Entry(Matchups, MapSets)) /\ Len(finished) = 1 /\ p = finished[1].first
        /\ Position(finished, p) = 1 /\ At(finished, p) = finished[1].second
        /\ finished[1].second \in MapSets /\ 1 \in 1..Len(finished)
    BY <1>2, <2>1, FinishedTyped
  <2> DEFINE s == Insert(At(finished, p), m)
  <2>3. s \in MapSets /\ Range(s) \subseteq Range(finished[1].second) \cup {m}
    BY <2>1, <2>2, MapInserted
  <2>4. fin = Update(finished, p, s)
    BY <1>2 DEF FinishedWith
  <2> HIDE DEF s
  <2>5. /\ fin \in Seq(Entry(Matchups, MapSets)) /\ Len(fin) = 1
        /\ fin[1].first = finished[1].first /\ fin[1].second = s
    BY <2>1, <2>2, <2>3, <2>4, Updated
  <2> QED
    BY <1>2, <2>2, <2>3, <2>5
<1> QED
  BY <1>1, <1>2

(* A purge that there is anything to purge for empties finished.           *)
LEMMA FinishedPurged ==
  ASSUME NEW fin \in Seq(Entry(Matchups, MapSets)), Len(fin) = 1, NEW p, p = fin[1].first,
         NEW r, r = RetiredBy(p, fin)
  PROVE  Purged(fin, r) = <<>> \/ r = <<>>
<1>1. \/ r = <<>>
      \/ r \in {<<fin[1].first[1]>>, <<fin[1].first[2]>>, <<fin[1].first[1], fin[1].first[2]>>}
  BY RetiredOf
<1> QED
  BY <1>1, LonePurged

(* A bot that retires has played its matchup on every map. *)
LEMMA RetiredPlayed ==
  ASSUME NEW fin \in Seq(Entry(Matchups, MapSets)), Len(fin) = 1, NEW p \in Matchups,
         p = fin[1].first, NEW b \in Range(RetiredBy(p, fin))
  PROVE  b \in Range(p) /\ Range(fin[1].second) = Range(Maps)
<1>1. b \in {p[1], p[2]} /\ ~ Unfinished(b, fin)
  BY RetiredOf
<1>2. p = <<p[1], p[2]>>
  <2>1. PICK g \in Games : p = <<g.bot0, g.bot1>>
    BY DEF Matchups, MatchupOf
  <2> QED
    BY <2>1
<1>3. b \in Range(p)
  <2> DEFINE x == p[1]
             y == p[2]
  <2>1. p = <<x, y>> /\ b \in {x, y}
    BY <1>1, <1>2
  <2> HIDE DEF x, y
  <2> QED
    BY <2>1 DEF Range
<1>4. fin[1] \in EntriesOf(b, fin)
  <2>1. DOMAIN fin = 1..1
    BY LenProperties
  <2>2. fin[1] \in Range(fin)
    BY <2>1 DEF Range
  <2> QED
    BY <1>3, <2>2 DEF EntriesOf
<1>5. Len(fin[1].second) = Len(Maps)
  BY <1>1, <1>4 DEF Unfinished
<1>6. fin[1].second \in MapSets
  BY KeysOf
<1>7. fin[1].second \in Seq(Range(Maps)) /\ Unique(fin[1].second)
  BY <1>6 DEF MapSets
<1> QED
  BY <1>3, <1>5, <1>7, MapsCounted

(* A map is finished. *)
LEMMA FinishMapStep ==
  ASSUME IInv, aborted = "no", NEW g \in Games, outstanding[g] > 0,
         HasCounter(MatchupOf(g), g.map), FinishMap(MatchupOf(g), g.map),
         outstanding' = [outstanding EXCEPT ![g] = @ - 1],
         played' = [played EXCEPT ![g] = @ + 1], UNCHANGED <<reply, aborted>>
  PROVE  IInv'
<1> DEFINE p == MatchupOf(g)
           m == g.map
           cs == Erase(At(active, p), m)
           act == Update(active, p, cs)
           fin == FinishedWith(p, m)
           r == RetiredBy(p, fin)
<1>1. p \in Matchups /\ m \in Range(Maps) /\ GameOn(p, m) = g
  BY GamesOf
<1>2. Typed /\ FinishedMeansPlayed /\ RetiredPlayedAMatchup
  BY InvariantUnfolded
<1>3. /\ played' \in [Games -> Nat] /\ \A h \in Games : played'[h] >= played[h]
      /\ played'[g] = played[g] + 1
  BY <1>2, OneMorePlayed
<1>4. outstanding' \in [Games -> Nat]
  BY <1>2, OneLessOut
<1>5. /\ HasCounter(p, m) /\ CounterOf(p, m).done <= 1 /\ NotEnded(p, m)
      /\ active' = Purged(act, r) /\ finished' = Purged(fin, r)
      /\ finishedBots' = InsertAll(finishedBots, r)
  BY DEF FinishMap, WithoutCounter
<1> HIDE DEF p, m
<1>6. played'[GameOn(p, m)] >= NumGames
  <2>1. CounterOf(p, m) \in Counter /\ CounterOf(p, m).done + played[GameOn(p, m)] >= NumGames
    BY <1>5, CounterFound
  <2>2. CounterOf(p, m).done \in Nat /\ NumGames \in Nat
    BY <2>1, ConstantsTyped DEF Counter
  <2>3. played[g] \in Nat
    BY <1>2 DEF Typed
  <2> QED
    BY <1>1, <1>3, <1>5, <2>1, <2>2, <2>3
<1>7. /\ act \in Seq(Entry(Matchups, CounterMaps)) /\ Spine(Keys(act)) /\ Keys(act) = Keys(active)
      /\ \A i \in 1..Len(act) : Tally(act[i].second, act[i].first, played')
  <2>1. Has(active, p) /\ At(active, p) \in CounterMaps /\ Tally(At(active, p), p, played)
    BY <1>5, CounterFound, InvariantUnfolded
  <2>2. /\ cs \in CounterMaps
        /\ \A i \in 1..Len(cs) : \E j \in 1..Len(At(active, p)) : cs[i] = At(active, p)[j]
    BY <2>1, CounterErased
  <2> HIDE DEF cs
  <2>3. DOMAIN cs = 1..Len(cs) /\ DOMAIN At(active, p) = 1..Len(At(active, p))
    BY <2>1, <2>2, CountersCounted
  <2>4. Tally(cs, p, played)
    BY <2>1, <2>2, <2>3 DEF Tally
  <2>5. Tally(cs, p, played')
    BY <1>1, <1>2, <1>3, <2>2, <2>4, TallyKept DEF Typed
  <2> QED
    BY <1>3, <2>1, <2>2, <2>5, CountersReplaced
<1>8. /\ fin \in Seq(Entry(Matchups, MapSets)) /\ Len(fin) = 1 /\ fin[1].first = p
      /\ fin[1].second \in MapSets
      /\ \A k \in Range(fin[1].second) :
           k = m \/ (finished # <<>> /\ p = finished[1].first /\ k \in Range(finished[1].second))
  BY <1>1, <1>2, <1>5, FinishedGrows
<1> HIDE DEF act, fin
<1>9. \A k \in Range(fin[1].second) : played'[GameOn(p, k)] >= NumGames
  <2> SUFFICES ASSUME NEW k \in Range(fin[1].second) PROVE played'[GameOn(p, k)] >= NumGames
    OBVIOUS
  <2>1. CASE k = m
    BY <1>6, <2>1
  <2>2. CASE finished # <<>> /\ p = finished[1].first /\ k \in Range(finished[1].second)
    <3>1. 1 \in DOMAIN finished
      BY <1>2, <2>2, FinishedTyped
    <3>2. played[GameOn(p, k)] >= NumGames
      BY <1>2, <2>2, <3>1 DEF FinishedMeansPlayed
    <3>3. k \in Range(Maps)
      <4>1. fin[1].second \in Seq(Range(Maps)) /\ Unique(fin[1].second)
        BY <1>8 DEF MapSets
      <4>2. /\ DOMAIN fin[1].second = 1..Len(fin[1].second)
            /\ \A i \in 1..Len(fin[1].second) : fin[1].second[i] \in Range(Maps)
        BY <4>1, MapsCounted
      <4> QED
        BY <4>2 DEF Range
    <3>4. GameOn(p, k) \in Games
      BY <1>1, <3>3, GamesOf
    <3>5. played[GameOn(p, k)] \in Nat /\ played'[GameOn(p, k)] \in Nat /\ NumGames \in Nat
          /\ played'[GameOn(p, k)] >= played[GameOn(p, k)]
      BY <1>2, <1>3, <3>4, ConstantsTyped DEF Typed
    <3> QED
      BY <3>2, <3>5
  <2> QED
    BY <1>8, <2>1, <2>2
<1>10. \/ finished' = <<>>
       \/ finished' = fin /\ active' = act /\ r = <<>>
  <2>1. fin \in Seq(Entry(Matchups, MapSets)) /\ Len(fin) = 1 /\ p = fin[1].first
    BY <1>8
  <2>2. r = RetiredBy(p, fin)
    OBVIOUS
  <2> HIDE DEF r
  <2>3. Purged(fin, r) = <<>> \/ r = <<>>
    BY <2>1, <2>2, FinishedPurged, Zenon
  <2>4. CASE r = <<>>
    <3>1. Purged(fin, r) = fin /\ Purged(act, r) = act
      BY <2>4, NothingPurged
    <3> QED
      BY <1>5, <2>4, <3>1
  <2> QED
    BY <1>5, <2>3, <2>4
<1>11. /\ active' \in Seq(Entry(Matchups, CounterMaps)) /\ Spine(Keys(active'))
       /\ \A i \in DOMAIN active' : \E j \in DOMAIN act : active'[i] = act[j]
  BY <1>5, <1>7, PurgedFrom
<1>12. finished' \in Seq(Entry(Matchups, MapSets)) /\ Len(finished') <= 1
  <2>1. CASE finished' = <<>>
    <3>1. <<>> \in Seq(Entry(Matchups, MapSets)) /\ Len(<<>>) = 0
      BY EmptySeq
    <3> QED
      BY <2>1, <3>1
  <2>2. CASE finished' = fin
    <3> DEFINE n == Len(fin)
    <3>1. n = 1 /\ fin \in Seq(Entry(Matchups, MapSets))
      BY <1>8
    <3> HIDE DEF n
    <3>2. n <= 1
      BY <3>1
    <3>3. Len(fin) <= 1
      BY <3>2 DEF n
    <3> QED
      BY <2>2, <3>1, <3>3
  <2> QED
    BY <1>10, <2>1, <2>2
<1>13. /\ finishedBots' \in Seq(Range(Bots)) /\ Spine(finishedBots')
       /\ Range(finishedBots') \subseteq Range(finishedBots) \cup Range(r)
  <2>1. p[1] \in Range(Bots) /\ p[2] \in Range(Bots)
    BY <1>1, GamesOf
  <2> QED
    BY <1>2, <1>5, <2>1, RetiredInserted DEF Typed
<1>14. Typed'
  BY <1>2, <1>3, <1>4, <1>11, <1>12, <1>13 DEF Typed
<1>15. FinishedStillActive'
  <2>1. CASE finished' = <<>>
    BY <2>1 DEF FinishedStillActive
  <2>2. CASE finished' = fin /\ active' = act
    <3>1. Has(active', p)
      <4>1. Has(active, p)
        BY <1>5, CounterFound
      <4> QED
        BY <1>7, <2>2, <4>1 DEF Has
    <3>2. DOMAIN fin = 1..1
      BY <1>8, LenProperties
    <3> QED
      BY <1>8, <2>2, <3>1, <3>2 DEF FinishedStillActive
  <2> QED
    BY <1>10, <2>1, <2>2
<1>16. Tallied'
  <2>1. DOMAIN act = 1..Len(act)
    BY <1>7, LenProperties
  <2>2. \A i \in DOMAIN active' : Tally(active'[i].second, active'[i].first, played')
    BY <1>7, <1>11, <2>1
  <2> QED
    BY <2>2 DEF Tallied
<1>17. FinishedMeansPlayed'
  <2>1. CASE finished' = <<>>
    BY <2>1 DEF FinishedMeansPlayed
  <2>2. CASE finished' = fin
    <3>1. DOMAIN fin = 1..1
      BY <1>8, LenProperties
    <3> QED
      BY <1>8, <1>9, <2>2, <3>1 DEF FinishedMeansPlayed
  <2> QED
    BY <1>10, <2>1, <2>2
<1>18. RetiredPlayedAMatchup'
  <2> SUFFICES ASSUME NEW b \in Range(finishedBots')
               PROVE  \E q \in Matchups :
                        b \in Range(q) /\ \A k \in Range(Maps) : played'[GameOn(q, k)] >= NumGames
    BY DEF RetiredPlayedAMatchup
  <2>1. CASE b \in Range(finishedBots)
    <3>1. PICK q \in Matchups :
            b \in Range(q) /\ \A k \in Range(Maps) : played[GameOn(q, k)] >= NumGames
      BY <1>2, <2>1 DEF RetiredPlayedAMatchup
    <3>2. ASSUME NEW k \in Range(Maps)
          PROVE  played'[GameOn(q, k)] >= NumGames
      <4>1. GameOn(q, k) \in Games
        BY GamesOf
      <4>2. /\ played[GameOn(q, k)] \in Nat /\ played'[GameOn(q, k)] \in Nat /\ NumGames \in Nat
            /\ played'[GameOn(q, k)] >= played[GameOn(q, k)]
        BY <1>2, <1>3, <4>1, ConstantsTyped DEF Typed
      <4> QED
        BY <3>1, <4>2
    <3> QED
      BY <3>1, <3>2
  <2>2. CASE b \in Range(r)
    <3>1. b \in Range(p) /\ Range(fin[1].second) = Range(Maps)
      BY <1>1, <1>8, <2>2, RetiredPlayed
    <3> QED
      BY <1>1, <1>9, <3>1
  <2> QED
    BY <1>13, <2>1, <2>2
<1>19. AbortsExplained'
  BY DEF AbortsExplained
<1> QED
  BY <1>14, <1>15, <1>16, <1>17, <1>18, <1>19 DEF IInv

(* A success. *)
LEMMA NotifySuccessStep ==
  ASSUME IInv, NEW g \in Games, NotifySuccess(g)
  PROVE  IInv'
<1> DEFINE p == MatchupOf(g)
           m == g.map
<1>1. /\ aborted = "no" /\ outstanding[g] > 0
      /\ Matchup(g.bot0, g.bot1) = p /\ GameOn(p, m) = g
      /\ p \in Matchups /\ m \in Range(Maps)
  BY GamesOf DEF NotifySuccess
<1>2. Typed /\ FinishedMeansPlayed
  BY InvariantUnfolded
<1>3. \/ /\ ~ HasCounter(p, m) /\ AssertFails("reported")
         /\ UNCHANGED <<finished, finishedBots, played>>
      \/ /\ ~ NotEnded(p, m) /\ AssertFails("ended")
         /\ UNCHANGED <<finished, finishedBots, played>>
      \/ /\ HasCounter(p, m)
         /\ CountDown(p, m) \/ FinishMap(p, m)
         /\ outstanding' = [outstanding EXCEPT ![g] = @ - 1]
         /\ played' = [played EXCEPT ![g] = @ + 1]
         /\ UNCHANGED <<reply, aborted>>
  BY <1>1 DEF NotifySuccess
<1>4. CASE /\ ~ HasCounter(p, m) /\ AssertFails("reported")
           /\ UNCHANGED <<finished, finishedBots, played>>
  BY <1>1, <1>4, AssertFailed
<1>5. CASE /\ ~ NotEnded(p, m) /\ AssertFails("ended")
           /\ UNCHANGED <<finished, finishedBots, played>>
  <2>1. ~ Has(finished, p) \/ played[g] >= NumGames
    <3> SUFFICES ASSUME Has(finished, p) PROVE played[g] >= NumGames
      OBVIOUS
    <3>1. finished # <<>> /\ p = finished[1].first /\ At(finished, p) = finished[1].second
          /\ 1 \in DOMAIN finished
      BY <1>2, FinishedTyped
    <3>2. Found(At(finished, p), m) # {}
      BY <1>5 DEF NotEnded
    <3>3. m \in Range(finished[1].second)
      <4>1. \E i \in DOMAIN At(finished, p) : At(finished, p)[i] = m
        BY <3>2 DEF Found, Less
      <4> QED
        BY <3>1, <4>1 DEF Range
    <3>4. played[GameOn(p, m)] >= NumGames
      BY <1>2, <3>1, <3>3 DEF FinishedMeansPlayed
    <3> QED
      BY <1>1, <3>4
  <2> QED
    BY <1>1, <1>5, <2>1, AssertFailed
<1>6. CASE /\ HasCounter(p, m)
           /\ CountDown(p, m) \/ FinishMap(p, m)
           /\ outstanding' = [outstanding EXCEPT ![g] = @ - 1]
           /\ played' = [played EXCEPT ![g] = @ + 1]
           /\ UNCHANGED <<reply, aborted>>
  <2>1. CASE CountDown(p, m)
    <3> DEFINE c == [CounterOf(p, m) EXCEPT !.done = @ - 1]
    <3>1. /\ CounterOf(p, m) \in Counter /\ CounterOf(p, m).done > 1
          /\ CounterOf(p, m).done + played[g] >= NumGames
      BY <1>1, <1>6, <2>1, CounterFound DEF CountDown
    <3>2. CounterOf(p, m).done \in 1..NumGames /\ NumGames \in Nat /\ played[g] \in Nat
      BY <1>2, <3>1, ConstantsTyped DEF Counter, Typed
    <3>3. c \in Counter /\ c.done = CounterOf(p, m).done - 1
      <4>1. CounterOf(p, m).done - 1 \in 1..NumGames
        BY <3>1, <3>2
      <4> QED
        BY <3>1, <4>1 DEF Counter
    <3>4. /\ played' \in [Games -> Nat] /\ \A h \in Games : played'[h] >= played[h]
          /\ played'[g] = played[g] + 1
      BY <1>2, <1>6, OneMorePlayed
    <3>5. c.done + played'[g] >= NumGames
      BY <3>1, <3>2, <3>3, <3>4
    <3>6. SetCounter(p, m, c) /\ UNCHANGED <<finished, finishedBots>>
      BY <2>1 DEF CountDown
    <3> HIDE DEF c
    <3> QED
      BY <1>1, <1>6, <3>3, <3>4, <3>5, <3>6, CounterReported
  <2>2. CASE FinishMap(p, m)
    BY <1>1, <1>6, <2>2, FinishMapStep
  <2> QED
    BY <1>6, <2>1, <2>2
<1> QED
  BY <1>3, <1>4, <1>5, <1>6

---------------------------------------------------------------------------
(* No game is lost while nothing is purged. *)

(* The places of n entries that a lookup comes to, now or when there are   *)
(* more: with four, no lookup comes to the first any more.                 *)
Live(n) == IF n = 4 THEN 2..4 ELSE 1..n

(* What the counters of a matchup gave away is with clients. *)
Covered(cs, p, out) ==
  \A j \in DOMAIN cs : cs[j].second.done - cs[j].second.left <= out[GameOn(p, cs[j].first)]

Kept(map, out) ==
  /\ \A i, j \in Live(Len(map)) : map[i].first = map[j].first => i = j
  /\ \A i \in Live(Len(map)) : Covered(map[i].second, map[i].first, out)

(* A lookup comes to a place that lookups come to. *)
LEMMA FoundIsLive ==
  ASSUME Typed, NEW p, Has(active, p)
  PROVE  Position(active, p) \in Live(Len(active))
<1> DEFINE k == Position(active, p)
           n == Len(active)
           keys == Keys(active)
<1>1. k \in Found(keys, p) /\ k \in 1..n /\ n \in Nat /\ Len(keys) = n
  <2>1. active \in Seq(Entry(Matchups, CounterMaps))
    BY DEF Typed
  <2> QED
    BY <2>1, PositionOf, KeysOf
<1>2. k >= Root(keys)
  BY <1>1 DEF Found
<1>3. n = 4 => Root(keys) = 3
  BY <1>1, RootOf
<1> HIDE DEF n, k, keys
<1>4. k \in Live(n)
  BY <1>1, <1>2, <1>3 DEF Live
<1> QED
  BY <1>4 DEF k, n

(* A copy has gone out; of every other game no fewer are out. *)
LEMMA OutMore ==
  ASSUME Typed, NEW p \in Matchups, NEW m \in Range(Maps), HandOut(p, m)
  PROVE  /\ outstanding \in [Games -> Nat] /\ outstanding' \in [Games -> Nat]
         /\ outstanding'[GameOn(p, m)] = outstanding[GameOn(p, m)] + 1
         /\ \A g \in Games : outstanding'[g] >= outstanding[g]
<1>1. outstanding \in [Games -> Nat] /\ GameOn(p, m) \in Games
  BY GamesOf DEF Typed
<1>2. outstanding' = [outstanding EXCEPT ![GameOn(p, m)] = outstanding[GameOn(p, m)] + 1]
  BY DEF HandOut
<1> DEFINE g == GameOn(p, m)
<1> HIDE DEF g
<1>3. \A h \in Games : outstanding[h] \in Nat
  BY <1>1
<1>4. outstanding' = [outstanding EXCEPT ![g] = outstanding[g] + 1] /\ g \in Games
  BY <1>1, <1>2 DEF g
<1>5. /\ outstanding' \in [Games -> Nat] /\ outstanding'[g] = outstanding[g] + 1
      /\ \A h \in Games : outstanding'[h] >= outstanding[h]
  BY <1>1, <1>3, <1>4
<1> QED
  BY <1>1, <1>5 DEF g

(* A copy has come back; of every other game no fewer are out. *)
LEMMA OutLess ==
  ASSUME Typed, NEW p \in Matchups, NEW m \in Range(Maps), outstanding[GameOn(p, m)] > 0,
         outstanding' = [outstanding EXCEPT ![GameOn(p, m)] = @ - 1]
  PROVE  /\ outstanding \in [Games -> Nat] /\ outstanding' \in [Games -> Nat]
         /\ outstanding'[GameOn(p, m)] = outstanding[GameOn(p, m)] - 1
         /\ \A q \in Matchups, k \in Range(Maps) :
              q # p \/ k # m => outstanding'[GameOn(q, k)] >= outstanding[GameOn(q, k)]
<1> DEFINE g == GameOn(p, m)
<1>1. outstanding \in [Games -> Nat] /\ g \in Games
  BY GamesOf DEF Typed
<1>2. \A q \in Matchups, k \in Range(Maps) :
        GameOn(q, k) \in Games /\ (q # p \/ k # m => GameOn(q, k) # g)
  BY GamesOf
<1>3. outstanding[g] > 0 /\ outstanding' = [outstanding EXCEPT ![g] = outstanding[g] - 1]
  OBVIOUS
<1> HIDE DEF g
<1>4. \A h \in Games : outstanding[h] \in Nat
  BY <1>1
<1>5. /\ outstanding' \in [Games -> Nat] /\ outstanding'[g] = outstanding[g] - 1
      /\ \A h \in Games : h # g => outstanding'[h] >= outstanding[h]
  BY <1>1, <1>3, <1>4
<1> QED
  BY <1>1, <1>2, <1>5 DEF g

(* Counters that change nothing, while what is out of them gets no less. *)
LEMMA CoveredStays ==
  ASSUME NEW cs \in CounterMaps, NEW p \in Matchups, Covered(cs, p, outstanding),
         outstanding \in [Games -> Nat], outstanding' \in [Games -> Nat],
         NEW ns \in CounterMaps, NEW m,
         \A k \in Range(Maps) : k # m => outstanding'[GameOn(p, k)] >= outstanding[GameOn(p, k)],
         \A i \in 1..Len(ns) :
           \/ \E j \in 1..Len(cs) : /\ ns[i].first = cs[j].first /\ ns[i].second = cs[j].second
                                    /\ cs[j].first # m
           \/ ns[i].second.done - ns[i].second.left <= outstanding'[GameOn(p, ns[i].first)]
  PROVE  Covered(ns, p, outstanding')
<1>1. /\ DOMAIN cs = 1..Len(cs) /\ DOMAIN ns = 1..Len(ns)
      /\ \A i \in 1..Len(cs) : cs[i].first \in Range(Maps) /\ cs[i].second \in Counter
  BY CountersCounted
<1> SUFFICES ASSUME NEW i \in 1..Len(ns), NEW j \in 1..Len(cs),
                    ns[i].first = cs[j].first, ns[i].second = cs[j].second, cs[j].first # m
             PROVE  ns[i].second.done - ns[i].second.left <= outstanding'[GameOn(p, ns[i].first)]
  BY <1>1 DEF Covered
<1> DEFINE k == cs[j].first
           c == cs[j].second
<1>2. k \in Range(Maps) /\ k # m /\ c \in Counter
  BY <1>1
<1>3. c.done - c.left <= outstanding[GameOn(p, k)]
  BY <1>1 DEF Covered
<1> HIDE DEF k, c
<1>4. GameOn(p, k) \in Games /\ c.done \in Nat /\ c.left \in Nat
  <2>1. NumGames \in Nat
    BY ConstantsTyped
  <2> QED
    BY <1>2, <2>1, GamesOf DEF Counter
<1>5. /\ outstanding[GameOn(p, k)] \in Nat /\ outstanding'[GameOn(p, k)] \in Nat
      /\ outstanding'[GameOn(p, k)] >= outstanding[GameOn(p, k)]
  BY <1>2, <1>4
<1>6. c.done - c.left <= outstanding'[GameOn(p, k)]
  BY <1>3, <1>4, <1>5
<1> QED
  BY <1>6 DEF k, c

(* A counter of a matchup is set. *)
LEMMA CoveredSet ==
  ASSUME NEW cs \in CounterMaps, NEW p \in Matchups, Covered(cs, p, outstanding),
         outstanding \in [Games -> Nat], outstanding' \in [Games -> Nat],
         NEW m, Has(cs, m), NEW c \in Counter,
         \A k \in Range(Maps) : k # m => outstanding'[GameOn(p, k)] >= outstanding[GameOn(p, k)],
         c.done - c.left <= outstanding'[GameOn(p, m)]
  PROVE  Covered(Update(cs, m, c), p, outstanding')
<1> DEFINE ns == Update(cs, m, c)
           n == Position(cs, m)
<1>1. /\ ns \in CounterMaps /\ Len(ns) = Len(cs)
      /\ \A i \in 1..Len(cs) : /\ ns[i].first = cs[i].first
                               /\ ns[i].second = IF i = n THEN c ELSE cs[i].second
  BY CounterSet
<1>2. /\ n \in 1..Len(cs) /\ cs[n].first = m
      /\ \A i, j \in 1..Len(cs) : cs[i].first = cs[j].first => i = j
  <2>1. cs \in Seq(Entry(Range(Maps), Counter))
    BY CountersCounted
  <2> QED
    BY <2>1, PositionOf, CountersCounted
<1> HIDE DEF ns, n
<1>3. ASSUME NEW i \in 1..Len(ns)
      PROVE  \/ \E j \in 1..Len(cs) : /\ ns[i].first = cs[j].first /\ ns[i].second = cs[j].second
                                      /\ cs[j].first # m
             \/ ns[i].second.done - ns[i].second.left <= outstanding'[GameOn(p, ns[i].first)]
  <2>1. CASE i = n
    <3>1. ns[i].first = m /\ ns[i].second = c
      BY <1>1, <1>2, <2>1
    <3> QED
      BY <3>1
  <2>2. CASE i # n
    <3>1. i \in 1..Len(cs) /\ ns[i].first = cs[i].first /\ ns[i].second = cs[i].second
          /\ cs[i].first # m
      BY <1>1, <1>2, <2>2
    <3> QED
      BY <3>1
  <2> QED
    BY <2>1, <2>2
<1>4. Covered(ns, p, outstanding')
  BY <1>1, <1>3, CoveredStays
<1> QED
  BY <1>4 DEF ns

(* A counter that is found is gone after the erase, and no other is. *)
LEMMA CounterGone ==
  ASSUME NEW cs \in CounterMaps, NEW m, Has(cs, m)
  PROVE  \A i \in 1..Len(Erase(cs, m)) :
           \E j \in 1..Len(cs) : Erase(cs, m)[i] = cs[j] /\ cs[j].first # m
<1> DEFINE k == Position(cs, m)
           keys == Keys(cs)
           E == Erased(keys, m)
           n == Len(cs)
<1>1. /\ cs \in Seq(Entry(Range(Maps), Counter)) /\ n \in Nat
      /\ DOMAIN keys = 1..n /\ \A i \in 1..n : keys[i] = cs[i].first
      /\ \A i, j \in 1..n : cs[i].first = cs[j].first => i = j
  <2>1. cs \in Seq(Entry(Range(Maps), Counter))
    BY CountersCounted
  <2> QED
    BY <2>1, CountersCounted, KeysOf
<1>2. k \in 1..n /\ k \in Found(keys, m) /\ cs[k].first = m
  BY <1>1, PositionOf
<1>3. k >= Root(keys)
  BY <1>2 DEF Found
<1> HIDE DEF k, keys
<1>4. E = {k}
  <2>1. \A i \in E : i \in 1..n /\ keys[i] = m
    BY <1>1 DEF Erased, Less
  <2>2. \A i \in E : i = k
    BY <1>1, <1>2, <2>1
  <2>3. \A j \in k..Root(keys) : j = k
    <3> SUFFICES ASSUME NEW j \in k..Root(keys) PROVE j = k
      OBVIOUS
    <3> DEFINE r == Root(keys)
    <3>1. r \in Int
      <4>1. n = 1 \/ n = 2 \/ n = 3
        <5>1. n \in 0..3
          BY CountersCounted
        <5> HIDE DEF n
        <5> QED
          BY <1>2, <5>1
      <4>2. Len(keys) = n
        BY CountersCounted DEF keys
      <4> HIDE DEF n
      <4>3. Root(keys) = 1 \/ Root(keys) = 2
        BY <4>1, <4>2, RootOf
      <4> QED
        BY <4>3
    <3>2. k \in Int /\ k >= r /\ j \in k..r
      BY <1>2, <1>3
    <3> HIDE DEF r
    <3> QED
      BY <3>1, <3>2
  <2>4. k \in E
    BY <1>1, <1>2, <2>3 DEF Erased, Less
  <2> QED
    BY <2>2, <2>4
<1>5. Min(E) = k /\ Max(E) = k
  <2>1. k >= k /\ k <= k
    BY <1>2
  <2> QED
    BY <1>4, <2>1 DEF Min, Max
<1>6. Erase(cs, m) = Cut(cs, k, k)
  BY <1>4, <1>5 DEF Erase, Cut, keys
<1> DEFINE new == Cut(cs, k, k)
<1>7. \A i \in 1..Len(new) : new[i] = cs[IF i < k THEN i ELSE i + (k - k + 1)]
      /\ Len(new) = n - (k - k + 1)
  <2>1. k \in k..n
    BY <1>1, <1>2
  <2> QED
    BY <1>1, <1>2, <2>1, CutOut
<1> HIDE DEF new, n
<1>8. \A i \in 1..Len(new) : \E j \in 1..n : new[i] = cs[j] /\ cs[j].first # m
  <2> SUFFICES ASSUME NEW i \in 1..Len(new)
               PROVE  \E j \in 1..n : new[i] = cs[j] /\ cs[j].first # m
    OBVIOUS
  <2> DEFINE j == IF i < k THEN i ELSE i + (k - k + 1)
  <2>1. j \in 1..n /\ j # k
    BY <1>1, <1>2, <1>7
  <2>2. new[i] = cs[j]
    BY <1>7
  <2> HIDE DEF j
  <2>3. cs[j].first # m
    BY <1>1, <1>2, <2>1
  <2> QED
    BY <2>1, <2>2, <2>3
<1> QED
  BY <1>6, <1>8 DEF new, n

(* Nothing is lost of counters whose games only go out. *)
LEMMA CoveredMore ==
  ASSUME NEW cs \in CounterMaps, NEW p \in Matchups, Covered(cs, p, outstanding),
         outstanding \in [Games -> Nat], outstanding' \in [Games -> Nat],
         \A k \in Range(Maps) : outstanding'[GameOn(p, k)] >= outstanding[GameOn(p, k)]
  PROVE  Covered(cs, p, outstanding')
<1>1. /\ DOMAIN cs = 1..Len(cs)
      /\ \A i \in 1..Len(cs) : cs[i].first \in Range(Maps) /\ cs[i].second \in Counter
  BY CountersCounted
<1> SUFFICES ASSUME NEW j \in 1..Len(cs)
             PROVE  cs[j].second.done - cs[j].second.left <= outstanding'[GameOn(p, cs[j].first)]
  BY <1>1 DEF Covered
<1> DEFINE k == cs[j].first
           c == cs[j].second
<1>2. k \in Range(Maps) /\ c \in Counter /\ c.done - c.left <= outstanding[GameOn(p, k)]
  BY <1>1 DEF Covered
<1> HIDE DEF k, c
<1>3. GameOn(p, k) \in Games /\ c.done \in Nat /\ c.left \in Nat
  <2>1. NumGames \in Nat
    BY ConstantsTyped
  <2> QED
    BY <1>2, <2>1, GamesOf DEF Counter
<1>4. /\ outstanding[GameOn(p, k)] \in Nat /\ outstanding'[GameOn(p, k)] \in Nat
      /\ outstanding'[GameOn(p, k)] >= outstanding[GameOn(p, k)]
  BY <1>2, <1>3
<1>5. c.done - c.left <= outstanding'[GameOn(p, k)]
  BY <1>2, <1>3, <1>4
<1> QED
  BY <1>5 DEF k, c

(* The counters of one matchup are replaced. *)
LEMMA KeptUpdated ==
  ASSUME Typed, Kept(active, outstanding), NEW p, Has(active, p), NEW cs \in CounterMaps,
         NEW new, new = Update(active, p, cs), Covered(cs, p, outstanding'),
         outstanding \in [Games -> Nat], outstanding' \in [Games -> Nat],
         \A q \in Matchups, k \in Range(Maps) :
           q # p => outstanding'[GameOn(q, k)] >= outstanding[GameOn(q, k)]
  PROVE  Kept(new, outstanding')
<1> DEFINE n == Len(active)
           at == Position(active, p)
<1>1. /\ active \in Seq(Entry(Matchups, CounterMaps)) /\ n \in Nat
      /\ \A i \in 1..n : active[i].first \in Matchups /\ active[i].second \in CounterMaps
      /\ at \in 1..n /\ active[at].first = p
  BY ActiveTyped
<1>2. /\ Len(new) = n
      /\ \A i \in 1..n : /\ new[i].first = active[i].first
                         /\ new[i].second = IF i = at THEN cs ELSE active[i].second
  BY <1>1, Updated
<1>3. at \in Live(n) /\ Live(n) \subseteq 1..n
  <2>1. at \in Live(n)
    BY FoundIsLive
  <2> HIDE DEF n
  <2> QED
    BY <2>1 DEF Live
<1>4. /\ \A i, j \in Live(n) : active[i].first = active[j].first => i = j
      /\ \A i \in Live(n) : Covered(active[i].second, active[i].first, outstanding)
  BY DEF Kept
<1> HIDE DEF n, at
<1>5. \A i, j \in Live(n) : new[i].first = new[j].first => i = j
  BY <1>2, <1>3, <1>4
<1>6. ASSUME NEW i \in Live(n)
      PROVE  Covered(new[i].second, new[i].first, outstanding')
  <2>1. CASE i = at
    BY <1>1, <1>2, <1>3, <2>1
  <2>2. CASE i # at
    <3> DEFINE q == active[i].first
               ns == active[i].second
    <3>1. q # p /\ q \in Matchups /\ ns \in CounterMaps /\ Covered(ns, q, outstanding)
      BY <1>1, <1>3, <1>4, <2>2
    <3>2. new[i].first = q /\ new[i].second = ns
      BY <1>2, <1>3, <2>2
    <3> HIDE DEF q, ns
    <3>3. \A k \in Range(Maps) : outstanding'[GameOn(q, k)] >= outstanding[GameOn(q, k)]
      BY <3>1
    <3>4. Covered(ns, q, outstanding')
      BY <3>1, <3>3, CoveredMore
    <3> QED
      BY <3>2, <3>4
  <2> QED
    BY <2>1, <2>2
<1> QED
  BY <1>2, <1>5, <1>6 DEF Kept

(* A matchup is taken for new. *)
LEMMA KeptGrown ==
  ASSUME Typed, Kept(active, outstanding), NEW p \in Matchups, NEW cs \in CounterMaps,
         NEW new, new = Emplace(active, p, cs), Spine(Keys(new)), Covered(cs, p, outstanding'),
         outstanding \in [Games -> Nat], outstanding' \in [Games -> Nat],
         \A g \in Games : outstanding'[g] >= outstanding[g]
  PROVE  Kept(new, outstanding')
<1> DEFINE n == Len(active)
           keys == Keys(active)
<1>1. /\ active \in Seq(Entry(Matchups, CounterMaps)) /\ n \in Nat
      /\ \A i \in 1..n : active[i].first \in Matchups /\ active[i].second \in CounterMaps
  BY ActiveTyped
<1>2. /\ \A i, j \in Live(n) : active[i].first = active[j].first => i = j
      /\ \A i \in Live(n) : Covered(active[i].second, active[i].first, outstanding)
  BY DEF Kept
<1>3. ASSUME NEW i \in Live(n)
      PROVE  Covered(active[i].second, active[i].first, outstanding')
  <2> DEFINE q == active[i].first
             ns == active[i].second
  <2>1. q \in Matchups /\ ns \in CounterMaps /\ Covered(ns, q, outstanding)
    <3>1. i \in 1..n
      <4> HIDE DEF n
      <4> QED
        BY <1>1 DEF Live
    <3> QED
      BY <1>1, <1>2, <3>1
  <2> HIDE DEF q, ns
  <2>2. \A k \in Range(Maps) : outstanding'[GameOn(q, k)] >= outstanding[GameOn(q, k)]
    BY <2>1, GamesOf
  <2>3. Covered(ns, q, outstanding')
    BY <2>1, <2>2, CoveredMore
  <2> QED
    BY <2>3 DEF q, ns
<1>4. CASE Collides(keys, p)
  <2>1. new = active
    BY <1>4 DEF Emplace
  <2> QED
    BY <1>2, <1>3, <2>1 DEF Kept
<1>5. CASE ~ Collides(keys, p)
  <2>1. /\ Len(new) = n + 1 /\ new[1].first = p /\ new[1].second = cs
        /\ \A i \in 1..n : new[i + 1] = active[i]
        /\ new \in Seq(Entry(Matchups, CounterMaps))
    BY <1>1, <1>5, Emplaced
  <2>2. Len(keys) = n /\ DOMAIN keys = 1..n /\ \A i \in 1..n : keys[i] = active[i].first
    BY <1>1, KeysOf
  <2>3. Len(Keys(new)) = Len(new)
    BY <2>1, KeysOf
  <2>4. Len(Keys(new)) <= 4
    BY DEF Spine
  <2>5. n <= 2 => \A i \in 1..n : keys[i] # p
    <3> SUFFICES ASSUME n <= 2, NEW i \in 1..n PROVE keys[i] # p
      OBVIOUS
    <3>1. n = 1 \/ n = 2
      <4> HIDE DEF n
      <4> QED
        BY <1>1
    <3>2. Root(keys) = n
      BY <2>2, <3>1, RootOf
    <3>3. keys # <<>>
      <4>1. 1..Len(<<>>) = {} /\ DOMAIN <<>> = {}
        OBVIOUS
      <4>2. i \in DOMAIN keys
        BY <2>2
      <4> QED
        BY <4>1, <4>2
    <3> QED
      BY <1>5, <3>2, <3>3 DEF Collides, Less
  <2> HIDE DEF keys, n
  <2>6. n <= 3
    BY <1>1, <2>1, <2>3, <2>4
  <2>7. Live(n) = 1..n /\ Live(n + 1) = IF n = 3 THEN 2..n + 1 ELSE 1..n + 1
    <3>1. n # 4 /\ (n + 1 = 4 <=> n = 3)
      BY <1>1, <2>6
    <3> DEFINE l == n + 1
    <3>2. Live(n) = 1..n
      BY <3>1 DEF Live
    <3>3. Live(l) = IF n = 3 THEN 2..l ELSE 1..l
      <4>1. l = 4 <=> n = 3
        BY <3>1
      <4> HIDE DEF l
      <4>2. CASE n = 3
        BY <4>1, <4>2 DEF Live
      <4>3. CASE n # 3
        BY <4>1, <4>3 DEF Live
      <4> QED
        BY <4>2, <4>3
    <3> QED
      BY <3>2, <3>3
  <2>8. \A i \in Live(n + 1) : i = 1 \/ (i - 1 \in Live(n) /\ new[i] = active[i - 1])
    <3> SUFFICES ASSUME NEW i \in Live(n + 1), i # 1
                 PROVE  i - 1 \in Live(n) /\ new[i] = active[i - 1]
      OBVIOUS
    <3>1. i - 1 \in 1..n /\ (i - 1) + 1 = i
      BY <1>1, <2>6, <2>7
    <3> QED
      BY <2>1, <2>7, <3>1
  <2>9. \A i \in Live(n + 1) : Covered(new[i].second, new[i].first, outstanding')
    BY <1>3, <2>1, <2>8
  <2>10. 1 \in Live(n + 1) => n <= 2
    BY <1>1, <2>6, <2>7
  <2>11. ASSUME NEW i \in Live(n + 1), NEW j \in Live(n + 1), new[i].first = new[j].first
         PROVE  i = j
    <3>1. CASE i = 1 /\ j = 1
      BY <3>1
    <3>2. CASE i = 1 /\ j # 1
      <4>1. j - 1 \in 1..n /\ active[j - 1].first = p /\ n <= 2
        BY <2>1, <2>7, <2>8, <2>10, <2>11, <3>2
      <4> QED
        BY <2>2, <2>5, <4>1
    <3>3. CASE i # 1 /\ j = 1
      <4>1. i - 1 \in 1..n /\ active[i - 1].first = p /\ n <= 2
        BY <2>1, <2>7, <2>8, <2>10, <2>11, <3>3
      <4> QED
        BY <2>2, <2>5, <4>1
    <3>4. CASE i # 1 /\ j # 1
      <4>1. i - 1 \in Live(n) /\ j - 1 \in Live(n) /\ active[i - 1].first = active[j - 1].first
        BY <2>8, <2>11, <3>4
      <4>2. i - 1 = j - 1
        BY <1>2, <4>1
      <4>3. i \in Int /\ j \in Int
        BY <1>1, <2>6, <2>7
      <4> QED
        BY <4>2, <4>3
    <3> QED
      BY <3>1, <3>2, <3>3, <3>4
  <2> QED
    BY <2>1, <2>9, <2>11 DEF Kept
<1> QED
  BY <1>4, <1>5

(* The first counter of a matchup. *)
LEMMA FirstIsNew ==
  ASSUME NEW m
  PROVE  \A i \in 1..Len(Emplace(<<>>, m, NewCounter)) :
           /\ Emplace(<<>>, m, NewCounter)[i].first = m
           /\ Emplace(<<>>, m, NewCounter)[i].second = NewCounter
<1> DEFINE e == [first |-> m, second |-> NewCounter]
           none == <<>>
<1>1. ~ Collides(Keys(none), m)
  BY DEF Collides, Keys
<1>2. Emplace(none, m, NewCounter) = <<e>> \o none
  BY <1>1 DEF Emplace
<1> HIDE DEF e
<1>3. <<e>> \o <<>> = <<e>>
  OBVIOUS
<1>4. \A i \in 1..Len(<<e>>) : <<e>>[i] = e
  OBVIOUS
<1> QED
  BY <1>2, <1>3, <1>4 DEF e

(* A request. *)
LEMMA KeptByRequest ==
  ASSUME IInv, IInv', Kept(active, outstanding), NEW o \in Offers, Outcome(o)
  PROVE  Kept(active', outstanding')
<1>1. CASE (\E ok \in BOOLEAN : Return(ok)) \/ AssertFails("active")
  <2>1. active' = active /\ outstanding' = outstanding
    BY <1>1 DEF Return, AssertFails
  <2> QED
    BY <2>1, Zenon
<1>2. ASSUME NEW p \in Matchups, NEW m \in Range(Maps), HandOut(p, m), Taken(p, m)
      PROVE  Kept(active', outstanding')
  <2>1. /\ Typed /\ outstanding \in [Games -> Nat] /\ outstanding' \in [Games -> Nat]
        /\ outstanding'[GameOn(p, m)] = outstanding[GameOn(p, m)] + 1
        /\ \A g \in Games : outstanding'[g] >= outstanding[g]
    BY <1>2, InvariantUnfolded, OutMore
  <2>2. /\ GameOn(p, m) \in Games /\ outstanding[GameOn(p, m)] \in Nat
        /\ \A q \in Matchups, k \in Range(Maps) :
             GameOn(q, k) \in Games /\ outstanding'[GameOn(q, k)] >= outstanding[GameOn(q, k)]
    BY <2>1, GamesOf
  <2>3. ASSUME Has(active, p)
        PROVE  At(active, p) \in CounterMaps /\ Covered(At(active, p), p, outstanding)
    <3>1. /\ At(active, p) \in CounterMaps /\ active[Position(active, p)].first = p
          /\ At(active, p) = active[Position(active, p)].second
          /\ Position(active, p) \in Live(Len(active))
      BY <2>1, <2>3, ActiveTyped, FoundIsLive
    <3>2. \A i \in Live(Len(active)) : Covered(active[i].second, active[i].first, outstanding)
      BY DEF Kept
    <3> QED
      BY <3>1, <3>2, Zenon
  <2>4. NumGames \in Nat \ {0} /\ NewCounter \in Counter
        /\ NewCounter.done - NewCounter.left <= outstanding'[GameOn(p, m)]
    <3>1. NumGames \in Nat \ {0}
      BY ConstantsTyped
    <3>2. NewCounter.done - NewCounter.left = 1
      BY <3>1 DEF NewCounter
    <3>3. outstanding'[GameOn(p, m)] >= 1
      BY <2>1, <2>2
    <3> QED
      BY <2>2, <3>1, <3>2, <3>3, NewCounterTyped
  <2>5. CASE /\ HasCounter(p, m) /\ CounterOf(p, m).left > 0
             /\ SetCounter(p, m, [CounterOf(p, m) EXCEPT !.left = @ - 1])
    <3> DEFINE c == [CounterOf(p, m) EXCEPT !.left = @ - 1]
               at == At(active, p)
    <3>1. /\ Has(active, p) /\ at \in CounterMaps /\ Has(at, m)
          /\ Position(at, m) \in 1..Len(at) /\ at[Position(at, m)].first = m
          /\ CounterOf(p, m) = at[Position(at, m)].second /\ CounterOf(p, m) \in Counter
      BY <2>5, CounterFound
    <3>2. CounterOf(p, m).left \in Nat /\ CounterOf(p, m).left > 0
          /\ CounterOf(p, m).done \in 1..NumGames
      BY <2>5, <3>1 DEF Counter
    <3>3. c \in Counter /\ c.done = CounterOf(p, m).done /\ c.left = CounterOf(p, m).left - 1
      BY <3>1, <3>2 DEF Counter
    <3>4. Covered(at, p, outstanding)
      BY <2>3, <3>1
    <3>5. CounterOf(p, m).done - CounterOf(p, m).left <= outstanding[GameOn(p, m)]
      <4>1. DOMAIN at = 1..Len(at)
        BY <3>1, CountersCounted
      <4> QED
        BY <3>1, <3>4, <4>1 DEF Covered
    <3>6. active' = Update(active, p, Update(at, m, c))
      BY <2>5 DEF SetCounter
    <3> HIDE DEF c, at
    <3>7. c.done - c.left <= outstanding'[GameOn(p, m)]
      <4>1. CounterOf(p, m).done \in Nat
        BY <2>4, <3>2
      <4> QED
        BY <2>1, <2>2, <3>2, <3>3, <3>5, <4>1
    <3>8. Covered(Update(at, m, c), p, outstanding') /\ Update(at, m, c) \in CounterMaps
      <4>1. \A k \in Range(Maps) : k # m => outstanding'[GameOn(p, k)] >= outstanding[GameOn(p, k)]
        BY <2>2
      <4>2. Update(at, m, c) \in CounterMaps
        BY <3>1, <3>3, CounterSet
      <4> QED
        BY <2>1, <3>1, <3>3, <3>4, <3>7, <4>1, <4>2, CoveredSet
    <3> QED
      BY <2>1, <2>2, <3>1, <3>6, <3>8, KeptUpdated
  <2>6. CASE /\ Has(active, p) /\ ~ Has(At(active, p), m)
             /\ active' = Update(active, p, Emplace(At(active, p), m, NewCounter))
    <3> DEFINE at == At(active, p)
               ns == Emplace(at, m, NewCounter)
    <3>1. at \in CounterMaps /\ Covered(at, p, outstanding)
      BY <2>3, <2>6
    <3>2. ~ Has(at, m) /\ active' = Update(active, p, ns)
      BY <2>6
    <3> HIDE DEF at
    <3>3. /\ ns \in CounterMaps
          /\ \A i \in 1..Len(ns) : \/ \E j \in 1..Len(at) : ns[i] = at[j]
                                   \/ ns[i].first = m /\ ns[i].second = NewCounter
      BY <2>4, <3>1, <3>2, CounterAdded
    <3> HIDE DEF ns
    <3>4. \A i \in 1..Len(ns) :
            \/ ns[i].second.done - ns[i].second.left <= outstanding'[GameOn(p, ns[i].first)]
            \/ \E j \in 1..Len(at) : ns[i].first = at[j].first /\ ns[i].second = at[j].second
      <4> SUFFICES ASSUME NEW i \in 1..Len(ns)
                   PROVE  \/ ns[i].second.done - ns[i].second.left
                               <= outstanding'[GameOn(p, ns[i].first)]
                          \/ \E j \in 1..Len(at) :
                               ns[i].first = at[j].first /\ ns[i].second = at[j].second
        OBVIOUS
      <4>1. CASE \E j \in 1..Len(at) : ns[i] = at[j]
        BY <4>1
      <4>2. CASE ns[i].first = m /\ ns[i].second = NewCounter
        BY <2>4, <4>2
      <4> QED
        BY <3>3, <4>1, <4>2
    <3>5. Covered(ns, p, outstanding')
      <4>1. Covered(at, p, outstanding')
        BY <2>1, <2>2, <3>1, CoveredMore
      <4>2. DOMAIN at = 1..Len(at) /\ DOMAIN ns = 1..Len(ns)
        BY <3>1, <3>3, CountersCounted
      <4>3. \A j \in 1..Len(at) :
              at[j].second.done - at[j].second.left <= outstanding'[GameOn(p, at[j].first)]
        BY <4>1, <4>2 DEF Covered
      <4>4. \A i \in 1..Len(ns) :
              ns[i].second.done - ns[i].second.left <= outstanding'[GameOn(p, ns[i].first)]
        BY <3>4, <4>3
      <4> QED
        BY <4>2, <4>4 DEF Covered
    <3> QED
      BY <2>1, <2>2, <2>6, <3>2, <3>3, <3>5, KeptUpdated
  <2>7. CASE active' = Emplace(active, p, Emplace(<<>>, m, NewCounter))
    <3> DEFINE ns == Emplace(<<>>, m, NewCounter)
    <3>1. ns \in CounterMaps
      BY <2>1, FirstCounter
    <3>2. \A i \in 1..Len(ns) : ns[i].first = m /\ ns[i].second = NewCounter
      BY FirstIsNew
    <3>3. active' = Emplace(active, p, ns)
      BY <2>7
    <3> HIDE DEF ns
    <3>4. Covered(ns, p, outstanding')
      <4>1. DOMAIN ns = 1..Len(ns)
        BY <3>1, CountersCounted
      <4> QED
        BY <2>4, <3>2, <4>1 DEF Covered
    <3>5. Spine(Keys(active'))
      BY DEF IInv, Typed
    <3> QED
      BY <2>1, <3>1, <3>3, <3>4, <3>5, KeptGrown
  <2> QED
    BY <1>2, <2>5, <2>6, <2>7 DEF Taken
<1> QED
  BY <1>1, <1>2 DEF Outcome

(* A counter of which a game has come back: what it lacks is one less. *)
LEMMA KeptByReport ==
  ASSUME IInv, Kept(active, outstanding), NEW g \in Games, NEW c \in Counter, outstanding[g] > 0,
         HasCounter(MatchupOf(g), g.map), SetCounter(MatchupOf(g), g.map, c),
         c.done - c.left = CounterOf(MatchupOf(g), g.map).done
                             - CounterOf(MatchupOf(g), g.map).left - 1,
         outstanding' = [outstanding EXCEPT ![g] = @ - 1]
  PROVE  Kept(active', outstanding')
<1> DEFINE p == MatchupOf(g)
           m == g.map
           at == At(active, p)
<1>1. p \in Matchups /\ m \in Range(Maps) /\ GameOn(p, m) = g
  BY GamesOf
<1> HIDE DEF p, m
<1>2. /\ Typed /\ outstanding \in [Games -> Nat] /\ outstanding' \in [Games -> Nat]
      /\ outstanding'[GameOn(p, m)] = outstanding[GameOn(p, m)] - 1
      /\ \A q \in Matchups, k \in Range(Maps) :
           q # p \/ k # m => outstanding'[GameOn(q, k)] >= outstanding[GameOn(q, k)]
  BY <1>1, InvariantUnfolded, OutLess
<1>3. /\ HasCounter(p, m) /\ SetCounter(p, m, c)
      /\ c.done - c.left = CounterOf(p, m).done - CounterOf(p, m).left - 1
  BY DEF p, m
<1>4. /\ Has(active, p) /\ at \in CounterMaps /\ Has(at, m)
      /\ Position(at, m) \in 1..Len(at) /\ at[Position(at, m)].first = m
      /\ CounterOf(p, m) = at[Position(at, m)].second /\ CounterOf(p, m) \in Counter
  BY <1>3, CounterFound
<1>5. Covered(at, p, outstanding)
  <2>1. /\ active[Position(active, p)].first = p /\ at = active[Position(active, p)].second
        /\ Position(active, p) \in Live(Len(active))
    BY <1>2, <1>4, ActiveTyped, FoundIsLive
  <2>2. \A i \in Live(Len(active)) : Covered(active[i].second, active[i].first, outstanding)
    BY DEF Kept
  <2> QED
    BY <2>1, <2>2, Zenon
<1>6. active' = Update(active, p, Update(at, m, c))
  BY <1>3 DEF SetCounter
<1> HIDE DEF at
<1>7. CounterOf(p, m).done - CounterOf(p, m).left <= outstanding[GameOn(p, m)]
  <2>1. DOMAIN at = 1..Len(at)
    BY <1>4, CountersCounted
  <2> QED
    BY <1>4, <1>5, <2>1 DEF Covered
<1>8. c.done - c.left <= outstanding'[GameOn(p, m)]
  <2>1. CounterOf(p, m).done \in Nat /\ CounterOf(p, m).left \in Nat
    <3>1. NumGames \in Nat
      BY ConstantsTyped
    <3> QED
      BY <1>4, <3>1 DEF Counter
  <2>2. outstanding[GameOn(p, m)] \in Nat
    BY <1>1, <1>2
  <2> QED
    BY <1>2, <1>3, <1>7, <2>1, <2>2
<1>9. Update(at, m, c) \in CounterMaps
  BY <1>4, CounterSet
<1>10. Covered(Update(at, m, c), p, outstanding')
  <2>1. \A k \in Range(Maps) : k # m => outstanding'[GameOn(p, k)] >= outstanding[GameOn(p, k)]
    BY <1>1, <1>2
  <2> QED
    BY <1>1, <1>2, <1>4, <1>5, <1>8, <2>1, CoveredSet
<1> QED
  BY <1>2, <1>4, <1>6, <1>9, <1>10, KeptUpdated

(* Bots that retire are inserted into finishedBots. *)
LEMMA NoneRetired ==
  ASSUME NEW p, NEW fin, InsertAll(finishedBots, RetiredBy(p, fin)) = <<>>,
         finishedBots \in Seq(Range(Bots))
  PROVE  RetiredBy(p, fin) = <<>> /\ finishedBots = <<>>
<1> DEFINE r == RetiredBy(p, fin)
<1>1. r \in {<<>>, <<p[1]>>, <<p[2]>>, <<p[1], p[2]>>}
  BY RetiredOf
<1>2. \A S : \A s \in Seq(S) : \A h : Insert(s, h) # <<>>
  <2> SUFFICES ASSUME NEW S, NEW s \in Seq(S), NEW h PROVE Insert(s, h) # <<>>
    OBVIOUS
  <2>1. CASE Collides(s, h)
    BY <2>1 DEF Insert, Collides
  <2>2. CASE ~ Collides(s, h)
    <3>1. Insert(s, h) = <<h>> \o s
      BY <2>2 DEF Insert
    <3> DEFINE T == S \cup {h}
    <3>2. <<h>> \in Seq(T) /\ s \in Seq(T)
      OBVIOUS
    <3>3. Len(<<h>> \o s) = 1 + Len(s) /\ Len(s) \in Nat
      BY <3>2
    <3>4. Len(<<>>) = 0
      OBVIOUS
    <3> QED
      BY <3>1, <3>3, <3>4
  <2> QED
    BY <2>1, <2>2
<1> HIDE DEF r
<1>3. CASE r = <<>>
  <2>1. Len(<<>>) = 0
    OBVIOUS
  <2>2. InsertAll(finishedBots, <<>>) = finishedBots
    BY <2>1, InsertedAll
  <2> QED
    BY <1>3, <2>2 DEF r
<1>4. CASE r # <<>>
  <2>1. Len(r) = 1 \/ Len(r) = 2
    BY <1>1, <1>4
  <2>2. /\ Len(r) = 1 => InsertAll(finishedBots, r) = Insert(finishedBots, r[1])
        /\ Len(r) = 2 => InsertAll(finishedBots, r) = Insert(Insert(finishedBots, r[1]), r[2])
    <3>1. Len(r) \in 0..2
      BY <2>1
    <3> QED
      BY <3>1, InsertedAll
  <2>3. Insert(finishedBots, r[1]) # <<>>
    BY <1>2
  <2>4. Insert(Insert(finishedBots, r[1]), r[2]) # <<>>
    <3>1. Insert(finishedBots, r[1]) \in Seq(Range(Bots) \cup {r[1]})
      <4>1. finishedBots \in Seq(Range(Bots) \cup {r[1]})
        BY SeqWithin DEF Range
      <4>2. <<r[1]>> \o finishedBots \in Seq(Range(Bots) \cup {r[1]})
        <5>1. <<r[1]>> \in Seq(Range(Bots) \cup {r[1]})
          OBVIOUS
        <5> QED
          BY <4>1, <5>1
      <4> QED
        BY <4>1, <4>2 DEF Insert
    <3> QED
      BY <1>2, <3>1
  <2>5. InsertAll(finishedBots, r) # <<>>
    BY <2>1, <2>2, <2>3, <2>4
  <2> QED
    BY <2>5 DEF r
<1> QED
  BY <1>3, <1>4

(* The last game of a map is confirmed and nobody retires. *)
LEMMA KeptByFinish ==
  ASSUME IInv, NEW g \in Games, outstanding[g] > 0,
         finishedBots = <<>> => Kept(active, outstanding),
         HasCounter(MatchupOf(g), g.map), FinishMap(MatchupOf(g), g.map),
         outstanding' = [outstanding EXCEPT ![g] = @ - 1], finishedBots' = <<>>
  PROVE  Kept(active', outstanding')
<1> DEFINE p == MatchupOf(g)
           m == g.map
           at == At(active, p)
           cs == Erase(at, m)
<1>1. p \in Matchups /\ m \in Range(Maps) /\ GameOn(p, m) = g
  BY GamesOf
<1>2. active' = Update(active, p, cs) /\ finishedBots = <<>>
  <2> DEFINE fin == FinishedWith(p, m)
             act == Update(active, p, cs)
  <2>1. /\ active' = Purged(act, RetiredBy(p, fin))
        /\ finishedBots' = InsertAll(finishedBots, RetiredBy(p, fin))
    BY DEF FinishMap, WithoutCounter
  <2> HIDE DEF fin, act
  <2>2. RetiredBy(p, fin) = <<>> /\ finishedBots = <<>>
    <3>1. InsertAll(finishedBots, RetiredBy(p, fin)) = <<>>
      BY <2>1
    <3> HIDE DEF p
    <3> QED
      BY <3>1, NoneRetired, InvariantUnfolded DEF Typed
  <2>3. active' = act
    BY <2>1, <2>2, NothingPurged
  <2> QED
    BY <2>2, <2>3 DEF act
<1>3. HasCounter(p, m)
  OBVIOUS
<1> HIDE DEF p, m
<1>4. /\ Typed /\ outstanding \in [Games -> Nat] /\ outstanding' \in [Games -> Nat]
      /\ \A q \in Matchups, k \in Range(Maps) :
           q # p \/ k # m => outstanding'[GameOn(q, k)] >= outstanding[GameOn(q, k)]
  BY <1>1, InvariantUnfolded, OutLess
<1>5. Has(active, p) /\ at \in CounterMaps /\ Has(at, m)
  BY <1>3, CounterFound
<1>6. Covered(at, p, outstanding)
  <2>1. /\ active[Position(active, p)].first = p /\ at = active[Position(active, p)].second
        /\ Position(active, p) \in Live(Len(active))
    BY <1>4, <1>5, ActiveTyped, FoundIsLive
  <2>2. \A i \in Live(Len(active)) : Covered(active[i].second, active[i].first, outstanding)
    BY <1>2 DEF Kept
  <2> QED
    BY <2>1, <2>2, Zenon
<1> HIDE DEF at
<1>7. cs \in CounterMaps
  BY <1>5, CounterErased
<1>8. \A i \in 1..Len(cs) : \E j \in 1..Len(at) : cs[i] = at[j] /\ at[j].first # m
  BY <1>5, CounterGone
<1> HIDE DEF cs
<1>9. Covered(cs, p, outstanding')
  <2>1. \A k \in Range(Maps) : k # m => outstanding'[GameOn(p, k)] >= outstanding[GameOn(p, k)]
    BY <1>1, <1>4
  <2>2. \A i \in 1..Len(cs) :
          \/ \E j \in 1..Len(at) : /\ cs[i].first = at[j].first /\ cs[i].second = at[j].second
                                   /\ at[j].first # m
          \/ cs[i].second.done - cs[i].second.left <= outstanding'[GameOn(p, cs[i].first)]
    <3> SUFFICES ASSUME NEW i \in 1..Len(cs)
                 PROVE  \E j \in 1..Len(at) :
                          /\ cs[i].first = at[j].first /\ cs[i].second = at[j].second
                          /\ at[j].first # m
      OBVIOUS
    <3>1. PICK j \in 1..Len(at) : cs[i] = at[j] /\ at[j].first # m
      BY <1>8
    <3> QED
      BY <3>1
  <2> QED
    BY <1>1, <1>4, <1>5, <1>6, <1>7, <2>1, <2>2, CoveredStays
<1> QED
  BY <1>2, <1>4, <1>5, <1>7, <1>9, KeptUpdated

(* The invariant of NoGameLost: whatever a lookup comes to, or will come   *)
(* to when there are more matchups, has only lent its games.               *)
LInv == IInv /\ (finishedBots = <<>> => Kept(active, outstanding))

(* A failed game. *)
LEMMA LentByFail ==
  ASSUME LInv, IInv', NEW g \in Games, NotifyFail(g)
  PROVE  LInv'
<1> DEFINE p == MatchupOf(g)
           m == g.map
<1> SUFFICES ASSUME finishedBots' = <<>> PROVE Kept(active', outstanding')
  BY DEF LInv
<1>1. /\ outstanding[g] > 0 /\ Matchup(g.bot0, g.bot1) = p /\ UNCHANGED finishedBots
  BY GamesOf DEF NotifyFail
<1>2. IInv /\ Kept(active, outstanding)
  BY <1>1 DEF LInv
<1>3. \/ ~ HasCounter(p, m) /\ AssertFails("reported")
      \/ /\ HasCounter(p, m)
         /\ SetCounter(p, m, [CounterOf(p, m) EXCEPT !.left = @ + 1])
         /\ outstanding' = [outstanding EXCEPT ![g] = @ - 1]
  BY <1>1 DEF NotifyFail
<1>4. CASE AssertFails("reported")
  <2>1. active' = active /\ outstanding' = outstanding
    BY <1>4 DEF AssertFails
  <2> QED
    BY <1>2, <2>1, Zenon
<1>5. CASE /\ HasCounter(p, m)
           /\ SetCounter(p, m, [CounterOf(p, m) EXCEPT !.left = @ + 1])
           /\ outstanding' = [outstanding EXCEPT ![g] = @ - 1]
  <2> DEFINE c == [CounterOf(p, m) EXCEPT !.left = @ + 1]
  <2>1. CounterOf(p, m) \in Counter
    BY <1>2, <1>5, CounterFound
  <2>2. c \in Counter /\ c.done = CounterOf(p, m).done /\ c.left = CounterOf(p, m).left + 1
    BY <2>1 DEF Counter
  <2>3. SetCounter(p, m, c)
    BY <1>5
  <2> HIDE DEF c
  <2>4. c.done - c.left = CounterOf(p, m).done - CounterOf(p, m).left - 1
    <3>1. CounterOf(p, m).done \in Nat /\ CounterOf(p, m).left \in Nat
      <4>1. NumGames \in Nat
        BY ConstantsTyped
      <4> QED
        BY <2>1, <4>1 DEF Counter
    <3> QED
      BY <2>2, <3>1
  <2> QED
    BY <1>1, <1>2, <1>5, <2>2, <2>3, <2>4, KeptByReport
<1> QED
  BY <1>3, <1>4, <1>5

(* A success. *)
LEMMA LentBySuccess ==
  ASSUME LInv, IInv', NEW g \in Games, NotifySuccess(g)
  PROVE  LInv'
<1> DEFINE p == MatchupOf(g)
           m == g.map
<1> SUFFICES ASSUME finishedBots' = <<>> PROVE Kept(active', outstanding')
  BY DEF LInv
<1>1. outstanding[g] > 0 /\ Matchup(g.bot0, g.bot1) = p
  BY GamesOf DEF NotifySuccess
<1>2. IInv /\ (finishedBots = <<>> => Kept(active, outstanding))
  BY DEF LInv
<1>3. \/ UNCHANGED <<active, outstanding, finishedBots>>
      \/ /\ HasCounter(p, m)
         /\ CountDown(p, m) \/ FinishMap(p, m)
         /\ outstanding' = [outstanding EXCEPT ![g] = @ - 1]
  BY <1>1 DEF NotifySuccess, AssertFails
<1>4. CASE UNCHANGED <<active, outstanding, finishedBots>>
  BY <1>2, <1>4, Zenon
<1>5. CASE /\ HasCounter(p, m)
           /\ CountDown(p, m) \/ FinishMap(p, m)
           /\ outstanding' = [outstanding EXCEPT ![g] = @ - 1]
  <2>1. CASE CountDown(p, m)
    <3> DEFINE c == [CounterOf(p, m) EXCEPT !.done = @ - 1]
    <3>1. CounterOf(p, m) \in Counter /\ CounterOf(p, m).done > 1 /\ NumGames \in Nat
      BY <1>2, <1>5, <2>1, CounterFound, ConstantsTyped DEF CountDown
    <3>2. CounterOf(p, m).done \in 1..NumGames /\ CounterOf(p, m).left \in Nat
      BY <3>1 DEF Counter
    <3>3. c \in Counter /\ c.done = CounterOf(p, m).done - 1 /\ c.left = CounterOf(p, m).left
      <4>1. CounterOf(p, m).done - 1 \in 1..NumGames
        BY <3>1, <3>2
      <4> QED
        BY <3>1, <4>1 DEF Counter
    <3>4. SetCounter(p, m, c) /\ UNCHANGED finishedBots
      BY <2>1 DEF CountDown
    <3> HIDE DEF c
    <3>5. c.done - c.left = CounterOf(p, m).done - CounterOf(p, m).left - 1
      BY <3>1, <3>2, <3>3
    <3>6. Kept(active, outstanding)
      BY <1>2, <3>4
    <3> QED
      BY <1>1, <1>2, <1>5, <3>3, <3>4, <3>5, <3>6, KeptByReport
  <2>2. CASE FinishMap(p, m)
    BY <1>1, <1>2, <1>5, <2>2, KeptByFinish
  <2> QED
    BY <1>5, <2>1, <2>2
<1> QED
  BY <1>3, <1>4, <1>5

---------------------------------------------------------------------------
(* The theorems. *)

(* A server that has just started. *)
LEMMA InitInv == Init => IInv
<1> SUFFICES ASSUME Init PROVE IInv
  OBVIOUS
<1>1. /\ active = <<>> /\ finished = <<>> /\ finishedBots = <<>> /\ aborted = "no"
      /\ reply = [ok |-> FALSE, game |-> {}]
      /\ outstanding = [g \in Games |-> 0] /\ played = [g \in Games |-> 0]
  BY DEF Init
<1>2. DOMAIN <<>> = {} /\ Range(<<>>) = {} /\ Len(<<>>) = 0
  BY DEF Range
<1>3. Keys(<<>>) = <<>>
  BY DEF Keys
<1>4. Spine(<<>>)
  BY <1>2 DEF Spine
<1>5. Typed
  <2>1. outstanding \in [Games -> Nat] /\ played \in [Games -> Nat]
    BY <1>1
  <2>2. reply \in [ok : BOOLEAN, game : SUBSET Games]
    BY <1>1
  <2>3. /\ <<>> \in Seq(Entry(Matchups, CounterMaps)) /\ <<>> \in Seq(Entry(Matchups, MapSets))
        /\ <<>> \in Seq(Range(Bots)) /\ Len(<<>>) <= 1
    BY EmptySeq
  <2> QED
    BY <1>1, <1>3, <1>4, <2>1, <2>2, <2>3 DEF Typed
<1>6. FinishedStillActive /\ Tallied /\ FinishedMeansPlayed
  BY <1>1, <1>2 DEF FinishedStillActive, Tallied, FinishedMeansPlayed
<1>7. RetiredPlayedAMatchup
  BY <1>1, <1>2 DEF RetiredPlayedAMatchup
<1>8. AbortsExplained
  BY <1>1 DEF AbortsExplained
<1> QED
  BY <1>5, <1>6, <1>7, <1>8 DEF IInv

(* Every step, and one of something else. *)
LEMMA StepInv == IInv /\ [Next]_vars => IInv'
<1> SUFFICES ASSUME IInv, [Next]_vars PROVE IInv'
  OBVIOUS
<1>1. ASSUME NEW o \in Offers, GenerateGame(o) PROVE IInv'
  BY <1>1, GenerateGameStep
<1>2. ASSUME NEW g \in Games, NotifySuccess(g) PROVE IInv'
  BY <1>2, NotifySuccessStep
<1>3. ASSUME NEW g \in Games, NotifyFail(g) PROVE IInv'
  BY <1>3, NotifyFailStep
<1>4. CASE UNCHANGED vars
  <2>1. /\ Typed' /\ FinishedStillActive' /\ Tallied'
    BY <1>4 DEF vars, IInv, Typed, FinishedStillActive, Tallied
  <2>2. FinishedMeansPlayed' /\ RetiredPlayedAMatchup'
    BY <1>4 DEF vars, IInv, FinishedMeansPlayed, RetiredPlayedAMatchup
  <2>3. AbortsExplained'
    <3>1. UNCHANGED <<active, finished, aborted, outstanding, played>>
      BY <1>4 DEF vars
    <3>2. \A p, m : HasCounter(p, m)' <=> HasCounter(p, m)
      BY <3>1 DEF HasCounter, Has, Keys, At, Position
    <3> QED
      BY <3>1, <3>2 DEF IInv, AbortsExplained
  <2> QED
    BY <2>1, <2>2, <2>3 DEF IInv
<1> QED
  BY <1>1, <1>2, <1>3, <1>4 DEF Next

(* The invariant holds always: for up to three bots and three maps, any    *)
(* number of games, whatever clients announce, and with no bound on what   *)
(* they are given (Next has MaxGiven, which no step of the proof uses).    *)
THEOREM Inductive == Spec => []IInv
  BY InitInv, StepInv, PTL DEF Spec

(* The invariant says no less than the type invariant. *)
LEMMA TypedMeansTypeOK == IInv => TypeOK
<1> SUFFICES ASSUME IInv PROVE TypeOK
  OBVIOUS
<1>1. Typed
  BY DEF IInv
<1>2. /\ Keys(active) \in Seq(Matchups) /\ Len(active) <= MaxNodes
      /\ \A i \in DOMAIN active : active[i].second \in CounterMaps
  <2>1. /\ active \in Seq(Entry(Matchups, CounterMaps)) /\ Spine(Keys(active))
    BY <1>1 DEF Typed
  <2>2. /\ DOMAIN active = 1..Len(active) /\ Keys(active) \in Seq(Matchups)
        /\ Len(Keys(active)) = Len(active)
        /\ \A i \in 1..Len(active) : active[i].second \in CounterMaps
    BY <2>1, KeysOf
  <2>3. Len(Keys(active)) <= 4
    BY <2>1 DEF Spine
  <2> QED
    BY <2>2, <2>3 DEF MaxNodes
<1>3. \A cs \in CounterMaps : CountersOK(cs)
  <2> SUFFICES ASSUME NEW cs \in CounterMaps PROVE CountersOK(cs)
    OBVIOUS
  <2>1. /\ Keys(cs) \in Seq(Range(Maps)) /\ Unique(Keys(cs)) /\ DOMAIN cs = 1..Len(cs)
        /\ \A i \in 1..Len(cs) : cs[i].second \in Counter
    BY CountersCounted
  <2> QED
    BY <2>1 DEF CountersOK, Counter
<1>4. /\ Keys(finished) \in Seq(Matchups) /\ Len(finished) <= 1
      /\ \A i \in DOMAIN finished :
           finished[i].second \in Seq(Range(Maps)) /\ Unique(finished[i].second)
  <2>1. finished \in Seq(Entry(Matchups, MapSets)) /\ Len(finished) <= 1
    BY <1>1 DEF Typed
  <2>2. /\ DOMAIN finished = 1..Len(finished) /\ Keys(finished) \in Seq(Matchups)
        /\ \A i \in 1..Len(finished) : finished[i].second \in MapSets
    BY <2>1, KeysOf
  <2> QED
    BY <2>1, <2>2 DEF MapSets
<1>5. finishedBots \in Seq(Range(Bots)) /\ Len(finishedBots) <= MaxNodes
  BY <1>1 DEF Typed, Spine, MaxNodes
<1>6. /\ reply.ok \in BOOLEAN /\ reply.game \subseteq Games
      /\ aborted \in {"no", "active", "reported", "ended"}
      /\ outstanding \in [Games -> Nat] /\ played \in [Games -> Nat]
  BY <1>1 DEF Typed
<1> QED
  BY <1>2, <1>3, <1>4, <1>5, <1>6 DEF TypeOK

(* Every variable keeps its shape, although the trees refuse and lose keys *)
(* (Containers): no tree gets a fifth node.                                *)
THEOREM TypeCorrect == Spec => []TypeOK
  BY Inductive, TypedMeansTypeOK, PTL

(* operator[] of generateActiveMatchup (lines 189 and 197) finds its       *)
(* matchup in every reachable state.                                       *)
THEOREM StillActive == Spec => []FinishedStillActive
<1>1. IInv => FinishedStillActive
  BY DEF IInv
<1> QED
  BY <1>1, Inductive, PTL

(* A map is finished (line 289) only after NumGames successes, with any    *)
(* number of copies that no counter counts.                                *)
THEOREM FinishedPlayed == Spec => []FinishedMeansPlayed
<1>1. IInv => FinishedMeansPlayed
  BY DEF IInv
<1> QED
  BY <1>1, Inductive, PTL

(* A bot retires (lines 356 to 379) only after one of its matchups has     *)
(* been played on every map.                                               *)
THEOREM RetiredPlayedOne == Spec => []RetiredPlayedAMatchup
<1>1. IInv => RetiredPlayedAMatchup
  BY DEF IInv
<1> QED
  BY <1>1, Inductive, PTL

(* Each assert of the generator fails for the reason AbortsExplained gives *)
(* and for no other.                                                       *)
THEOREM AbortsHaveReasons == Spec => []AbortsExplained
<1>1. IInv => AbortsExplained
  BY DEF IInv
<1> QED
  BY <1>1, Inductive, PTL

(* A client is never given a game that it lacks a bot or the map of.       *)
THEOREM ServedFromOffer == Spec => OwnersServed
<1> DEFINE Served == \A g \in Games : outstanding'[g] > outstanding[g] =>
                       \A o \in Offers : Owns(o, g) \/ ~ GenerateGame(o)
<1>1. IInv => [Served]_vars
  <2> SUFFICES ASSUME IInv, NEW g \in Games, outstanding'[g] > outstanding[g],
                      NEW o \in Offers, GenerateGame(o)
               PROVE  Owns(o, g)
    BY Zenon
  <2>1. outstanding \in [Games -> Nat] /\ outstanding[g] \in Nat
    BY InvariantUnfolded DEF Typed
  <2>2. ~ UNCHANGED outstanding
    BY <2>1
  <2>3. PICK p \in Matchups, m \in Range(Maps) :
          /\ HandOut(p, m) /\ m \in Range(o.maps)
          /\ p[1] \in Range(o.bots) /\ p[2] \in Range(o.bots)
    BY <2>2, GenerateGameStep DEF Outcome, Return, AssertFails
  <2>4. outstanding' = [outstanding EXCEPT ![GameOn(p, m)] = outstanding[GameOn(p, m)] + 1]
    BY <2>3 DEF HandOut
  <2>5. g = GameOn(p, m)
    BY <2>1, <2>4
  <2>6. g.bot0 = p[1] /\ g.bot1 = p[2] /\ g.map = m
    BY <2>5 DEF GameOn
  <2> QED
    BY <2>3, <2>6 DEF Owns
<1> HIDE DEF Served
<1>2. Spec => [][Served]_vars
  BY <1>1, Inductive, PTL
<1> QED
  BY <1>2 DEF OwnersServed, Served

(* A start, and every step. *)
LEMMA LentInductive == (Init => LInv) /\ (LInv /\ [Next]_vars => LInv')
<1>1. ASSUME Init PROVE LInv
  <2>1. IInv /\ active = <<>>
    BY <1>1, InitInv DEF Init
  <2>2. Live(Len(<<>>)) = {}
    <3>1. Len(<<>>) = 0
      OBVIOUS
    <3> DEFINE n == Len(<<>>)
    <3> HIDE DEF n
    <3>2. n = 0 => Live(n) = {}
      BY DEF Live
    <3> QED
      BY <3>1, <3>2 DEF n
  <2> QED
    BY <2>1, <2>2 DEF LInv, Kept
<1>2. ASSUME LInv, [Next]_vars PROVE LInv'
  <2>1. IInv /\ IInv'
    BY <1>2, StepInv DEF LInv
  <2>2. ASSUME NEW o \in Offers, GenerateGame(o) PROVE LInv'
    <3>1. Outcome(o) /\ UNCHANGED finishedBots
      BY <2>1, <2>2, GenerateGameStep DEF GenerateGame
    <3> SUFFICES ASSUME finishedBots' = <<>> PROVE Kept(active', outstanding')
      BY <2>1 DEF LInv
    <3>2. Kept(active, outstanding)
      BY <1>2, <3>1 DEF LInv
    <3> QED
      BY <2>1, <3>1, <3>2, KeptByRequest
  <2>3. ASSUME NEW g \in Games, NotifySuccess(g) PROVE LInv'
    BY <1>2, <2>1, <2>3, LentBySuccess
  <2>4. ASSUME NEW g \in Games, NotifyFail(g) PROVE LInv'
    BY <1>2, <2>1, <2>4, LentByFail
  <2>5. CASE UNCHANGED vars
    <3>1. UNCHANGED <<active, outstanding, finishedBots>>
      BY <2>5 DEF vars
    <3>2. finishedBots = <<>> => Kept(active, outstanding)
      BY <1>2 DEF LInv
    <3>3. finishedBots' = <<>> => Kept(active', outstanding')
      BY <3>1, <3>2, Zenon
    <3> QED
      BY <2>1, <3>3 DEF LInv
  <2> QED
    BY <1>2, <2>2, <2>3, <2>4, <2>5 DEF Next
<1> QED
  BY <1>1, <1>2

(* Until a bot retires, a game that its counter does not have is with a    *)
(* client, through any failures, missed lookups and second copies: purges  *)
(* are the only way to lose one.                                           *)
THEOREM NothingLost == Spec => []NoGameLost
<1>1. LInv => NoGameLost
  <2> SUFFICES ASSUME LInv, finishedBots = <<>>, NEW g \in Games,
                      HasCounter(MatchupOf(g), g.map)
               PROVE  LET c == CounterOf(MatchupOf(g), g.map)
                      IN c.done - c.left <= outstanding[g]
    BY DEF NoGameLost
  <2> DEFINE p == MatchupOf(g)
             m == g.map
             at == At(active, p)
  <2>1. IInv /\ Typed /\ Kept(active, outstanding)
    BY InvariantUnfolded DEF LInv
  <2>2. GameOn(p, m) = g
    BY GamesOf
  <2>3. HasCounter(p, m)
    OBVIOUS
  <2> HIDE DEF p, m
  <2>4. /\ Has(active, p) /\ at \in CounterMaps
        /\ Position(at, m) \in 1..Len(at) /\ at[Position(at, m)].first = m
        /\ CounterOf(p, m) = at[Position(at, m)].second
    BY <2>1, <2>3, CounterFound
  <2>5. Covered(at, p, outstanding)
    <3>1. /\ active[Position(active, p)].first = p /\ at = active[Position(active, p)].second
          /\ Position(active, p) \in Live(Len(active))
      BY <2>1, <2>4, ActiveTyped, FoundIsLive
    <3>2. \A i \in Live(Len(active)) : Covered(active[i].second, active[i].first, outstanding)
      BY <2>1 DEF Kept
    <3> QED
      BY <3>1, <3>2, Zenon
  <2> HIDE DEF at
  <2>6. CounterOf(p, m).done - CounterOf(p, m).left <= outstanding[GameOn(p, m)]
    <3>1. DOMAIN at = 1..Len(at)
      BY <2>4, CountersCounted
    <3> QED
      BY <2>4, <2>5, <3>1 DEF Covered
  <2> QED
    BY <2>2, <2>6 DEF p, m
<1> QED
  BY <1>1, LentInductive, PTL DEF Spec

=============================================================================
