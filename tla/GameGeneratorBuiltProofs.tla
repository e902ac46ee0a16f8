---------------------- MODULE GameGeneratorBuiltProofs ----------------------
(***************************************************************************)
(* Theorems about GameGeneratorBuilt: for one to three maps and any        *)
(* clients, that it keeps its shape and what its asserts fail for; and for *)
(* one map or two and clients that have all the files, that its counters   *)
(* account for every game and that it does what Tournament promises.       *)
(***************************************************************************)
EXTENDS GameGeneratorBuilt, Foundations

(* A GameCounter: games are left and unfinished, never more than NumGames  *)
(* of them.                                                                *)
Counter == [map : Served, left : Nat, done : 1..NumGames]

(* The shape of the state, with what makes the containers sets: no map has *)
(* two counters, none is finished twice.                                   *)
Typed ==
  /\ started \in BOOLEAN /\ aborted \in BOOLEAN /\ nice \in BOOLEAN
  /\ counters \in Seq(Counter) /\ Unique(Keys(counters))
  /\ finished \in Seq(Served) /\ Unique(finished)
  /\ reply \in [ok : BOOLEAN, game : SUBSET Served]
  /\ outstanding \in [Served -> Nat] /\ played \in [Served -> Nat]
  /\ \A m \in Served : Given(m) <= MaxGiven

(* The leftmost of two counters or more is the last one made, and the game *)
(* taken from it then cannot be returned: no lookup comes to it.           *)
FrontIsOut == Len(counters) >= 2 => outstanding[counters[1].map] > 0

(* No counter forgets a game that was played, and none is dropped early. *)
Tallied ==
  /\ \A i \in DOMAIN counters : counters[i].done + played[counters[i].map] >= NumGames
  /\ \A i \in DOMAIN finished : played[finished[i]] >= NumGames

(* The inductive invariant. FrontIsOut is what keeps a counter from being  *)
(* removed that no lookup comes to; Tallied is what makes a counter reach  *)
(* its last success only after NumGames of them.                           *)
IInv == Typed /\ FrontIsOut /\ Tallied /\ AbortsOnlyForMissed

---------------------------------------------------------------------------
(* Sequences of maps. *)

(* The server's maps, from the assumption on the constants.                *)
LEMMA MapsTyped ==
  /\ Maps \in Seq(Served) /\ Unique(Maps) /\ Len(Maps) \in 1..3
  /\ DOMAIN Maps = 1..Len(Maps) /\ NumGames \in Nat \ {0} /\ MaxGiven \in Nat
<1>1. Maps \in Seq(Range(Maps)) /\ Unique(Maps) /\ Len(Maps) \in 1..3
  BY BuiltAssumption
<1>2. DOMAIN Maps = 1..Len(Maps)
  BY <1>1, LenProperties
<1> QED
  BY <1>1, <1>2, BuiltAssumption DEF Served

(* No more than three different maps make a set. *)
LEMMA AtMostThree ==
  ASSUME NEW s \in Seq(Served), Unique(s)
  PROVE  Len(s) \in 0..3 /\ DOMAIN s = 1..Len(s)
<1>1. Len(s) \in Nat /\ DOMAIN s = 1..Len(s) /\ \A i \in 1..Len(s) : s[i] \in Served
  BY LenProperties
<1>2. \A m \in Served : m = Maps[1] \/ m = Maps[2] \/ m = Maps[3]
  BY MapsTyped DEF Served, Range
<1>3. ASSUME Len(s) >= 4 PROVE FALSE
  <2>1. {1, 2, 3, 4} \subseteq 1..Len(s)
    BY <1>1, <1>3
  <2>2. \A i, j \in {1, 2, 3, 4} : i # j => s[i] # s[j]
    BY <1>1, <2>1 DEF Unique, IsInjective
  <2>3. \A i \in {1, 2, 3, 4} : s[i] = Maps[1] \/ s[i] = Maps[2] \/ s[i] = Maps[3]
    BY <1>1, <1>2, <2>1
  <2> QED
    BY <2>2, <2>3
<1> QED
  BY <1>1, <1>3

(* What Typed says of the counters, one by one.                            *)
LEMMA CountersTyped ==
  ASSUME Typed
  PROVE  /\ Len(counters) \in 0..3 /\ DOMAIN counters = 1..Len(counters)
         /\ Keys(counters) \in Seq(Served) /\ Len(Keys(counters)) = Len(counters)
         /\ \A i \in 1..Len(counters) : counters[i] \in Counter /\ Keys(counters)[i] = counters[i].map
         /\ \A i, j \in 1..Len(counters) : counters[i].map = counters[j].map => i = j
         /\ Len(finished) \in 0..3 /\ DOMAIN finished = 1..Len(finished)
<1>1. Len(counters) \in Nat /\ DOMAIN counters = 1..Len(counters)
      /\ \A i \in 1..Len(counters) : counters[i] \in Counter
  BY LenProperties DEF Typed
<1>2. Keys(counters) \in [1..Len(counters) -> Served]
  BY <1>1 DEF Keys, Counter
<1>3. Keys(counters) \in Seq(Served) /\ Len(Keys(counters)) = Len(counters)
  BY <1>1, <1>2, FunctionSeq
<1>4. Len(counters) \in 0..3 /\ DOMAIN Keys(counters) = 1..Len(counters)
  BY <1>3, AtMostThree DEF Typed
<1>5. \A i \in 1..Len(counters) : Keys(counters)[i] = counters[i].map
  BY <1>1 DEF Keys
<1>6. \A i, j \in 1..Len(counters) : counters[i].map = counters[j].map => i = j
  BY <1>4, <1>5 DEF Typed, Unique, IsInjective
<1>7. Len(finished) \in 0..3 /\ DOMAIN finished = 1..Len(finished)
  BY AtMostThree DEF Typed
<1> QED
  BY <1>1, <1>3, <1>4, <1>5, <1>6, <1>7

(* A counter a lookup comes to, and what no lookup comes to. *)
LEMMA SeenCounter ==
  ASSUME Typed, NEW m
  PROVE  /\ \A i \in Seen(m) : i \in 1..Len(counters) /\ counters[i].map = m
         /\ \A i, j \in Seen(m) : i = j
         /\ Len(counters) >= 2 => 1 \notin Seen(m)
         /\ Seen(m) = {} /\ ~ Collides(Keys(counters), m) =>
              \A i \in 1..Len(counters) : counters[i].map # m
<1> DEFINE s == Keys(counters)
<1>1. s \in Seq(Served) /\ Len(s) <= 3 /\ Len(s) = Len(counters) /\ DOMAIN s = 1..Len(s)
  <2>1. s \in Seq(Served) /\ Len(s) = Len(counters) /\ Len(counters) \in 0..3
    BY CountersTyped
  <2> HIDE DEF s
  <2>2. DOMAIN s = 1..Len(s)
    BY <2>1, LenProperties
  <2> DEFINE n == Len(s)
  <2>3. n \in 0..3
    BY <2>1
  <2> HIDE DEF n
  <2>4. n <= 3
    BY <2>3
  <2> QED
    BY <2>1, <2>2, <2>4 DEF n
<1>2. \A i \in 1..Len(counters) : s[i] = counters[i].map
  BY CountersTyped
<1>3. \A i, j \in 1..Len(counters) : counters[i].map = counters[j].map => i = j
  BY CountersTyped
<1> HIDE DEF s
<1>4. /\ \A i \in Found(s, m) : i \in DOMAIN s /\ s[i] = m
      /\ Found(s, m) = {} /\ ~ Collides(s, m) => m \notin Range(s)
      /\ Len(s) >= 2 => 1 \notin Found(s, m)
  BY <1>1, LookedUp
<1>5. Seen(m) = Found(s, m)
  BY DEF Seen, s
<1>6. m \notin Range(s) => \A i \in 1..Len(counters) : counters[i].map # m
  BY <1>1, <1>2 DEF Range
<1>7. \A i \in Seen(m) : i \in 1..Len(counters) /\ counters[i].map = m
  BY <1>1, <1>2, <1>4, <1>5
<1> QED
  BY <1>1, <1>3, <1>4, <1>5, <1>6, <1>7 DEF s

(* What client and server have in common, and what of it is usable. *)
LEMMA CommonMapsTyped ==
  ASSUME NEW o \in Offers
  PROVE  CommonMaps(o) \in Seq(Served) /\ Unique(CommonMaps(o))
<1> DEFINE H == Served \cup Range(o.maps)
           cm == CommonMaps(o)
<1>1. o.maps \in Seq(Range(o.maps))
  BY BuiltAssumption
<1>2. Maps \in Seq(H) /\ o.maps \in Seq(H)
  <2>1. Maps \in Seq(Served)
    BY MapsTyped
  <2> QED
    BY <1>1, <2>1, SeqMonotonic
<1> HIDE DEF H
<1>3. cm \in Seq(H) /\ Range(cm) \subseteq Served /\ Unique(cm)
  BY <1>2, IntersectionShared, MapsTyped DEF CommonMaps, Served
<1> HIDE DEF cm
<1>4. cm \in Seq(Served)
  <2>1. Len(cm) \in Nat /\ DOMAIN cm = 1..Len(cm) /\ cm \in [1..Len(cm) -> H]
    BY <1>3, LenProperties
  <2>2. \A i \in 1..Len(cm) : cm[i] \in Served
    BY <1>3, <2>1 DEF Range
  <2>3. cm \in [1..Len(cm) -> Served]
    BY <2>1, <2>2
  <2> QED
    BY <2>1, <2>3, FunctionSeq
<1> QED
  BY <1>3, <1>4 DEF cm

(* What is usable are maps; and the one counter there is, which lookups    *)
(* find, has taken its map out of them.                                    *)
LEMMA UsableTyped ==
  ASSUME Typed, NEW o \in Offers
  PROVE  /\ UsableMaps(CommonMaps(o)) \in Seq(Served)
         /\ Len(counters) = 1 => counters[1].map \notin Range(UsableMaps(CommonMaps(o)))
<1> DEFINE cm == CommonMaps(o)
           taken == Reverse(Keys(counters))
           nonActive == Difference(cm, taken)
           usable == UsableMaps(cm)
<1>1. cm \in Seq(Served) /\ Unique(cm)
  BY CommonMapsTyped
<1>2. taken \in Seq(Served) /\ Len(taken) = Len(counters)
      /\ (Len(counters) = 1 => taken[1] = counters[1].map)
  <2> DEFINE keys == Keys(counters)
  <2>1. keys \in Seq(Served) /\ Len(keys) = Len(counters) /\ Len(keys) \in Nat
        /\ \A i \in 1..Len(keys) : keys[i] \in Served /\ keys[i] = counters[i].map
    BY CountersTyped
  <2> HIDE DEF keys
  <2>2. taken = [i \in 1..Len(keys) |-> keys[Len(keys) - i + 1]]
    BY DEF Reverse, keys
  <2>3. \A i \in 1..Len(keys) : Len(keys) - i + 1 \in 1..Len(keys)
    BY <2>1
  <2>4. taken \in [1..Len(keys) -> Served]
    BY <2>1, <2>2, <2>3
  <2> HIDE DEF taken
  <2>5. taken \in Seq(Served) /\ Len(taken) = Len(keys)
    BY <2>1, <2>4, FunctionSeq
  <2>6. Len(keys) = 1 => taken[1] = keys[1]
    BY <2>2
  <2> QED
    BY <2>1, <2>5, <2>6
<1> HIDE DEF cm, taken
<1>3. /\ nonActive \in Seq(Served)
      /\ Len(counters) = 1 => counters[1].map \notin Range(nonActive)
  <2>1. nonActive \in Seq(Served)
        /\ (Len(taken) >= 1 => taken[1] \notin Range(nonActive))
    BY <1>1, <1>2, DifferenceTaken
  <2> HIDE DEF nonActive
  <2> DEFINE n == Len(taken)
  <2>2. Len(counters) = n /\ (n >= 1 => taken[1] \notin Range(nonActive))
    BY <1>2, <2>1
  <2> HIDE DEF n
  <2>3. n = 1 => taken[1] \notin Range(nonActive)
    BY <2>2
  <2> QED
    BY <1>2, <2>1, <2>2, <2>3
<1>4. usable = IF finished = <<>> THEN nonActive ELSE Difference(nonActive, finished)
  BY DEF UsableMaps, taken
<1> HIDE DEF usable, nonActive
<1>5. finished \in Seq(Served)
  BY DEF Typed
<1>6. /\ Difference(nonActive, finished) \in Seq(Served)
      /\ Range(Difference(nonActive, finished)) \subseteq Range(nonActive)
  BY <1>3, <1>5, DifferenceTaken
<1>7. usable \in Seq(Served) /\ Range(usable) \subseteq Range(nonActive)
  BY <1>3, <1>4, <1>6
<1> QED
  BY <1>3, <1>7 DEF usable, cm
---------------------------------------------------------------------------
(* What becomes of the counters. *)

(* Maps that differ make keys that do. *)
LEMMA KeysDiffer ==
  ASSUME NEW cs \in Seq(Counter),
         \A i, j \in 1..Len(cs) : cs[i].map = cs[j].map => i = j
  PROVE  Unique(Keys(cs))
<1>1. DOMAIN cs = 1..Len(cs)
  BY LenProperties
<1>2. DOMAIN Keys(cs) = 1..Len(cs) /\ \A i \in 1..Len(cs) : Keys(cs)[i] = cs[i].map
  BY <1>1 DEF Keys
<1> QED
  BY <1>2 DEF Unique, IsInjective

(* One of them is changed, but not its map. *)
Changed(i, c) == [counters EXCEPT ![i] = c]

LEMMA CounterChanged ==
  ASSUME Typed, NEW i \in 1..Len(counters), NEW c \in Counter, c.map = counters[i].map
  PROVE  /\ Changed(i, c) \in Seq(Counter) /\ Unique(Keys(Changed(i, c)))
         /\ Len(Changed(i, c)) = Len(counters)
         /\ \A j \in 1..Len(counters) : Changed(i, c)[j] = (IF j = i THEN c ELSE counters[j])
                                        /\ Changed(i, c)[j].map = counters[j].map
<1> DEFINE cs == Changed(i, c)
<1>1. /\ Len(counters) \in Nat /\ DOMAIN counters = 1..Len(counters)
      /\ \A j \in 1..Len(counters) : counters[j] \in Counter
      /\ \A j, k \in 1..Len(counters) : counters[j].map = counters[k].map => j = k
      /\ counters \in [1..Len(counters) -> Counter]
  BY CountersTyped, LenProperties DEF Typed
<1>2. cs \in [1..Len(counters) -> Counter]
  BY <1>1 DEF Changed
<1>3. \A j \in 1..Len(counters) : cs[j] = (IF j = i THEN c ELSE counters[j])
                                  /\ cs[j].map = counters[j].map
  BY <1>1 DEF Changed
<1> HIDE DEF cs
<1>4. cs \in Seq(Counter) /\ Len(cs) = Len(counters)
  BY <1>1, <1>2, FunctionSeq
<1>5. Unique(Keys(cs))
  BY <1>1, <1>3, <1>4, KeysDiffer
<1> QED
  BY <1>3, <1>4, <1>5 DEF cs

(* One of the two numbers of a counter is set.                             *)
LEMMA NumberSet ==
  ASSUME NEW k \in Counter
  PROVE  /\ \A n \in Nat : LET c == [k EXCEPT !.left = n]
                         IN c \in Counter /\ c.map = k.map /\ c.done = k.done /\ c.left = n
         /\ \A n \in 1..NumGames : LET c == [k EXCEPT !.done = n]
                                 IN c \in Counter /\ c.map = k.map /\ c.left = k.left /\ c.done = n
<1>1. PICK m \in Served, l \in Nat, d \in 1..NumGames : k = [map |-> m, left |-> l, done |-> d]
  BY DEF Counter
<1>2. k.map = m /\ k.left = l /\ k.done = d
  BY <1>1
<1>3. ASSUME NEW n \in Nat
      PROVE  LET c == [k EXCEPT !.left = n]
             IN c \in Counter /\ c.map = k.map /\ c.done = k.done /\ c.left = n
  <2>1. [k EXCEPT !.left = n] = [map |-> m, left |-> n, done |-> d]
    BY <1>1
  <2>2. [map |-> m, left |-> n, done |-> d] \in Counter
    BY DEF Counter
  <2> QED
    BY <1>2, <2>1, <2>2
<1>4. ASSUME NEW n \in 1..NumGames
      PROVE  LET c == [k EXCEPT !.done = n]
             IN c \in Counter /\ c.map = k.map /\ c.left = k.left /\ c.done = n
  <2>1. [k EXCEPT !.done = n] = [map |-> m, left |-> l, done |-> n]
    BY <1>1
  <2>2. [map |-> m, left |-> l, done |-> n] \in Counter
    BY DEF Counter
  <2> QED
    BY <1>2, <2>1, <2>2
<1> QED
  BY <1>3, <1>4, Zenon

(* A new counter has every game of its map to finish.                      *)
LEMMA NewCounterTyped ==
  ASSUME NEW m \in Served
  PROVE  NewCounter(m) \in Counter /\ NewCounter(m).map = m /\ NewCounter(m).done = NumGames
<1>1. NumGames - 1 \in Nat /\ NumGames \in 1..NumGames
  BY MapsTyped
<1> QED
  BY <1>1 DEF NewCounter, Counter

(* One is added for a map that no lookup comes to. *)
LEMMA CounterAdded ==
  ASSUME Typed, NEW m \in Served, Seen(m) = {}
  PROVE  LET cs == Emplace(counters, m)
         IN \/ cs = counters
            \/ /\ cs \in Seq(Counter) /\ Unique(Keys(cs)) /\ Len(cs) = Len(counters) + 1
               /\ cs[1] = NewCounter(m)
               /\ \A j \in 2..Len(cs) : cs[j] = counters[j - 1] /\ counters[j - 1].map # m
<1> SUFFICES ASSUME ~ Collides(Keys(counters), m)
             PROVE  LET cs == Emplace(counters, m)
                    IN /\ cs \in Seq(Counter) /\ Unique(Keys(cs)) /\ Len(cs) = Len(counters) + 1
                       /\ cs[1] = NewCounter(m)
                       /\ \A j \in 2..Len(cs) : cs[j] = counters[j - 1] /\ counters[j - 1].map # m
  BY DEF Emplace
<1> DEFINE c == NewCounter(m)
           cs == <<c>> \o counters
<1>1. c \in Counter /\ c.map = m
  BY NewCounterTyped
<1>2. /\ counters \in Seq(Counter) /\ Len(counters) \in Nat
      /\ \A j, k \in 1..Len(counters) : counters[j].map = counters[k].map => j = k
      /\ \A j \in 1..Len(counters) : counters[j].map # m
  <2>1. \A j \in 1..Len(counters) : counters[j].map # m
    BY SeenCounter
  <2> QED
    BY <2>1, CountersTyped DEF Typed
<1> HIDE DEF c
<1>3. /\ cs \in Seq(Counter) /\ Len(cs) = Len(counters) + 1 /\ cs[1] = c
      /\ \A j \in 2..Len(counters) + 1 : cs[j] = counters[j - 1]
  BY <1>1, <1>2, Prepended
<1> HIDE DEF cs
<1>4. \A j \in 2..Len(cs) : cs[j] = counters[j - 1] /\ counters[j - 1].map # m
  <2>1. \A j \in 2..Len(cs) : j - 1 \in 1..Len(counters)
    BY <1>2, <1>3
  <2> QED
    BY <1>2, <1>3, <2>1
<1>5. \A j, k \in 1..Len(cs) : cs[j].map = cs[k].map => j = k
  <2>1. \A j \in 1..Len(cs) : j = 1 \/ (j \in 2..Len(cs) /\ j - 1 \in 1..Len(counters))
    BY <1>2, <1>3
  <2> SUFFICES ASSUME NEW j \in 1..Len(cs), NEW k \in 1..Len(cs), cs[j].map = cs[k].map
               PROVE  j = k
    OBVIOUS
  <2>2. CASE j = 1 \/ k = 1
    BY <1>1, <1>3, <1>4, <2>1, <2>2
  <2>3. CASE j \in 2..Len(cs) /\ k \in 2..Len(cs)
    <3>1. counters[j - 1].map = counters[k - 1].map
      BY <1>4, <2>3
    <3> QED
      BY <1>2, <2>1, <2>3, <3>1
  <2> QED
    BY <2>1, <2>2, <2>3
<1>6. Unique(Keys(cs))
  BY <1>3, <1>5, KeysDiffer
<1>7. Emplace(counters, m) = cs
  BY DEF Emplace, cs, c
<1> QED
  BY <1>3, <1>4, <1>6, <1>7 DEF c

(* One is removed. *)
LEMMA CounterRemoved ==
  ASSUME Typed, NEW i \in 1..Len(counters)
  PROVE  LET cs == RemoveAt(counters, i)
         IN /\ cs \in Seq(Counter) /\ Unique(Keys(cs)) /\ Len(cs) = Len(counters) - 1
            /\ \A j \in 1..Len(cs) : cs[j] = (IF j < i THEN counters[j] ELSE counters[j + 1])
<1> DEFINE cs == RemoveAt(counters, i)
<1>1. /\ counters \in Seq(Counter) /\ Len(counters) \in Nat
      /\ \A j, k \in 1..Len(counters) : counters[j].map = counters[k].map => j = k
  BY CountersTyped DEF Typed
<1>2. /\ cs \in Seq(Counter) /\ Len(cs) = Len(counters) - 1
      /\ \A j \in 1..i - 1 : cs[j] = counters[j]
      /\ \A j \in i..Len(counters) - 1 : cs[j] = counters[j + 1]
  BY <1>1, Removed
<1> HIDE DEF cs
<1>3. \A j \in 1..Len(cs) : cs[j] = (IF j < i THEN counters[j] ELSE counters[j + 1])
  <2> SUFFICES ASSUME NEW j \in 1..Len(cs)
               PROVE  cs[j] = (IF j < i THEN counters[j] ELSE counters[j + 1])
    OBVIOUS
  <2>1. j \in 1..i - 1 \/ (~ (j < i) /\ j \in i..Len(counters) - 1)
    BY <1>1, <1>2
  <2> QED
    BY <1>2, <2>1
<1>4. \A j, k \in 1..Len(cs) : cs[j].map = cs[k].map => j = k
  <2> SUFFICES ASSUME NEW j \in 1..Len(cs), NEW k \in 1..Len(cs), cs[j].map = cs[k].map
               PROVE  j = k
    OBVIOUS
  <2> DEFINE from(l) == IF l < i THEN l ELSE l + 1
  <2>1. from(j) \in 1..Len(counters) /\ from(k) \in 1..Len(counters) /\ (from(j) = from(k) => j = k)
    BY <1>1, <1>2
  <2>2. cs[j] = counters[from(j)] /\ cs[k] = counters[from(k)]
    BY <1>3
  <2> QED
    BY <1>1, <2>1, <2>2
<1>5. Unique(Keys(cs))
  BY <1>2, <1>4, KeysDiffer
<1> QED
  BY <1>2, <1>3, <1>5 DEF cs

---------------------------------------------------------------------------
(* The inductive invariant. *)

(* What can be seen of counters and finished by the two that relate them   *)
(* to the history, for those a step leaves behind.                         *)
LEMMA InvariantKept ==
  ASSUME Typed', AbortsOnlyForMissed',
         Len(counters') >= 2 => outstanding'[counters'[1].map] > 0,
         \A i \in 1..Len(counters') : counters'[i].done + played'[counters'[i].map] >= NumGames,
         \A i \in 1..Len(finished') : played'[finished'[i]] >= NumGames
  PROVE  IInv'
<1>1. DOMAIN counters' = 1..Len(counters') /\ DOMAIN finished' = 1..Len(finished')
  BY LenProperties DEF Typed
<1> QED
  BY <1>1 DEF IInv, FrontIsOut, Tallied

(* The invariant for proofs that need not look into FrontIsOut and         *)
(* Tallied.                                                                *)
LEMMA InvariantUnfolded ==
  ASSUME IInv
  PROVE  /\ Typed /\ AbortsOnlyForMissed
         /\ Len(counters) >= 2 => outstanding[counters[1].map] > 0
         /\ \A i \in 1..Len(counters) : counters[i].done + played[counters[i].map] >= NumGames
         /\ \A i \in 1..Len(finished) : played[finished[i]] >= NumGames
<1>1. DOMAIN counters = 1..Len(counters) /\ DOMAIN finished = 1..Len(finished)
  BY CountersTyped DEF IInv
<1> QED
  BY <1>1 DEF IInv, FrontIsOut, Tallied

(* It holds at first: there is no counter.                                 *)
LEMMA InitInv == Init => IInv
<1> SUFFICES ASSUME Init PROVE IInv
  OBVIOUS
<1> USE DEF Init
<1>1. counters \in Seq(Counter) /\ finished \in Seq(Served) /\ Len(counters) = 0
      /\ DOMAIN counters = {} /\ DOMAIN finished = {}
  BY EmptySeq
<1>2. Unique(Keys(counters)) /\ Unique(finished)
  BY <1>1 DEF Unique, IsInjective, Keys
<1>3. Typed
  <2>1. /\ outstanding \in [Served -> Nat] /\ played \in [Served -> Nat]
        /\ \A m \in Served : Given(m) <= MaxGiven
    BY MapsTyped DEF Given
  <2>2. reply \in [ok : BOOLEAN, game : SUBSET Served]
    OBVIOUS
  <2> QED
    BY <1>1, <1>2, <2>1, <2>2 DEF Typed
<1> QED
  BY <1>1, <1>3 DEF IInv, FrontIsOut, Tallied, AbortsOnlyForMissed

(* A game of m is handed out, with the counters in order. *)
LEMMA HandedOut ==
  ASSUME IInv, ~ aborted, NEW m \in Served, \A l \in Served : Given(l) < MaxGiven,
         HandOut(m), UNCHANGED <<finished, aborted, played>>,
         started' \in BOOLEAN, nice' \in BOOLEAN,
         counters' \in Seq(Counter), Unique(Keys(counters')),
         Len(counters') >= 2 =>
           counters'[1].map = m \/ (Len(counters) >= 2 /\ counters'[1].map = counters[1].map),
         \A i \in 1..Len(counters') : counters'[i].done + played[counters'[i].map] >= NumGames
  PROVE  IInv'
<1>1. /\ outstanding \in [Served -> Nat] /\ played \in [Served -> Nat] /\ MaxGiven \in Nat
      /\ finished \in Seq(Served) /\ Unique(finished)
  BY MapsTyped DEF IInv, Typed
<1>2. /\ outstanding' \in [Served -> Nat] /\ outstanding'[m] = outstanding[m] + 1
      /\ \A l \in Served : outstanding'[l] >= outstanding[l] /\ outstanding'[l] <= outstanding[l] + 1
  BY <1>1 DEF HandOut
<1>3. \A l \in Served : Given(l)' <= MaxGiven
  BY <1>1, <1>2 DEF Given
<1>4. Typed'
  <2>1. reply' \in [ok : BOOLEAN, game : SUBSET Served]
    BY DEF HandOut
  <2>2. aborted' \in BOOLEAN /\ finished' = finished /\ played' = played
    BY DEF IInv, Typed
  <2> QED
    BY <1>1, <1>2, <1>3, <2>1, <2>2 DEF Typed
<1>5. AbortsOnlyForMissed'
  BY DEF AbortsOnlyForMissed
<1>6. Len(counters') >= 2 => outstanding'[counters'[1].map] > 0
  <2>1. CASE counters'[1].map = m
    BY <1>1, <1>2, <2>1
  <2>2. CASE Len(counters) >= 2 /\ counters'[1].map = counters[1].map
    <3>1. outstanding[counters[1].map] > 0 /\ counters[1].map \in Served
      BY <2>2, InvariantUnfolded, CountersTyped DEF Counter
    <3> QED
      BY <1>1, <1>2, <2>2, <3>1
  <2> QED
    BY <2>1, <2>2
<1>7. \A i \in 1..Len(finished') : played'[finished'[i]] >= NumGames
  BY InvariantUnfolded
<1> QED
  BY <1>4, <1>5, <1>6, <1>7, InvariantKept

(* An assert fails for one of the two reasons, and nothing else happens. *)
LEMMA AssertFailed ==
  ASSUME IInv, AssertFails, UNCHANGED <<finished, played>>, nice' \in BOOLEAN,
         \E m \in Served : outstanding[m] > 0 /\ (Seen(m) = {} \/ played[m] >= NumGames)
  PROVE  IInv'
<1>1. /\ aborted' = TRUE /\ UNCHANGED <<started, counters, finished, reply, outstanding, played>>
  BY DEF AssertFails
<1>2. Typed'
  BY <1>1 DEF IInv, Typed, Keys, Given
<1>3. AbortsOnlyForMissed'
  BY <1>1 DEF AbortsOnlyForMissed, Seen, Keys
<1> QED
  BY <1>1, <1>2, <1>3, InvariantUnfolded, InvariantKept

(* generateGame gives no game. *)
LEMMA NothingGiven ==
  ASSUME IInv, NEW ok \in BOOLEAN, Return(ok), UNCHANGED <<finished, played>>, nice' \in BOOLEAN,
         started' \in BOOLEAN
  PROVE  IInv'
<1>1. /\ reply' \in [ok : BOOLEAN, game : SUBSET Served]
      /\ UNCHANGED <<counters, finished, aborted, outstanding, played>>
  BY DEF Return
<1>2. Typed'
  BY <1>1 DEF IInv, Typed, Keys, Given
<1>3. AbortsOnlyForMissed'
  BY <1>1 DEF IInv, AbortsOnlyForMissed, Seen, Keys
<1> QED
  BY <1>1, <1>2, <1>3, InvariantUnfolded, InvariantKept

(* It takes a game from a counter. *)
LEMMA ActiveMapStep ==
  ASSUME IInv, ~ aborted, NEW o \in Offers, \A l \in Served : Given(l) < MaxGiven,
         GenerateActiveMap(CommonMaps(o)), UNCHANGED <<finished, played>>, nice' \in BOOLEAN
  PROVE  IInv'
<1> DEFINE cm == CommonMaps(o)
<1>1. PICK k \in DOMAIN cm :
        /\ Open(cm[k])
        /\ \E i \in Seen(cm[k]) : counters' = [counters EXCEPT ![i].left = @ - 1]
        /\ HandOut(cm[k])
        /\ UNCHANGED <<started, aborted>>
  BY DEF GenerateActiveMap
<1> DEFINE m == cm[k]
<1>2. m \in Served
  BY CommonMapsTyped, LenProperties
<1> HIDE DEF m, cm
<1>3. PICK i \in Seen(m) : counters' = [counters EXCEPT ![i].left = @ - 1]
  BY <1>1 DEF m
<1>4. Typed
  BY DEF IInv
<1>5. i \in 1..Len(counters) /\ counters[i].map = m /\ counters[i].left > 0
  <2>1. PICK j \in Seen(m) : counters[j].left > 0
    BY <1>1 DEF Open, m
  <2>2. i = j
    BY <1>4, SeenCounter
  <2> QED
    BY <1>4, <2>1, <2>2, SeenCounter
<1> DEFINE c == [counters[i] EXCEPT !.left = @ - 1]
<1>6. c \in Counter /\ c.map = counters[i].map /\ c.done = counters[i].done
  <2>1. counters[i] \in Counter
    BY <1>4, <1>5, CountersTyped
  <2>2. counters[i].left - 1 \in Nat
    BY <1>5, <2>1 DEF Counter
  <2> QED
    BY <2>1, <2>2, NumberSet
<1>7. counters' = Changed(i, c)
  BY <1>3 DEF Changed
<1> HIDE DEF c
<1>8. /\ counters' \in Seq(Counter) /\ Unique(Keys(counters')) /\ Len(counters') = Len(counters)
      /\ \A j \in 1..Len(counters') : counters'[j] = (IF j = i THEN c ELSE counters[j])
                                      /\ counters'[j].map = counters[j].map
  BY <1>4, <1>5, <1>6, <1>7, CounterChanged
<1>9. Len(counters') >= 2 => Len(counters) >= 2 /\ counters'[1].map = counters[1].map
  <2>1. Len(counters) \in 0..3
    BY <1>4, CountersTyped
  <2>2. Len(counters) >= 2 => 1 \in 1..Len(counters)
    BY <2>1
  <2> QED
    BY <1>8, <2>2
<1>10. \A j \in 1..Len(counters') : counters'[j].done + played[counters'[j].map] >= NumGames
  <2>1. \A j \in 1..Len(counters') : counters'[j].done = counters[j].done
    BY <1>6, <1>8
  <2> QED
    BY <1>8, <2>1, InvariantUnfolded
<1>11. HandOut(m) /\ UNCHANGED <<started, aborted>> /\ started' \in BOOLEAN
  BY <1>1, <1>4 DEF m, Typed
<1> QED
  BY <1>2, <1>8, <1>9, <1>10, <1>11, HandedOut

(* It makes a counter, or means to. *)
LEMMA EmplaceStep ==
  ASSUME IInv, ~ aborted, NEW m \in Served, Seen(m) = {}, \A l \in Served : Given(l) < MaxGiven,
         counters' = Emplace(counters, m), HandOut(m),
         UNCHANGED <<started, aborted, finished, played>>, nice' \in BOOLEAN
  PROVE  IInv'
<1>1. Typed
  BY DEF IInv
<1>2. started' \in BOOLEAN
  BY <1>1 DEF Typed
<1>3. CASE counters' = counters
  <2>1. counters' \in Seq(Counter) /\ Unique(Keys(counters'))
    BY <1>1, <1>3 DEF Typed
  <2> QED
    BY <1>2, <1>3, <2>1, InvariantUnfolded, HandedOut
<1>4. CASE /\ counters' \in Seq(Counter) /\ Unique(Keys(counters'))
           /\ Len(counters') = Len(counters) + 1
           /\ counters'[1] = NewCounter(m)
           /\ \A j \in 2..Len(counters') : counters'[j] = counters[j - 1] /\ counters[j - 1].map # m
  <2>1. counters'[1].map = m /\ counters'[1].done = NumGames /\ played[m] \in Nat /\ NumGames \in Nat
    BY <1>1, <1>4, NewCounterTyped, MapsTyped DEF Typed
  <2>2. Len(counters) \in Nat
    BY <1>1, CountersTyped
  <2>3. \A j \in 1..Len(counters') : counters'[j].done + played[counters'[j].map] >= NumGames
    <3> SUFFICES ASSUME NEW j \in 1..Len(counters')
                 PROVE  counters'[j].done + played[counters'[j].map] >= NumGames
      OBVIOUS
    <3>1. CASE j = 1
      BY <2>1, <3>1
    <3>2. CASE j # 1
      <4>1. j \in 2..Len(counters') /\ j - 1 \in 1..Len(counters)
        BY <1>4, <2>2, <3>2
      <4> QED
        BY <1>4, <4>1, InvariantUnfolded
    <3> QED
      BY <3>1, <3>2
  <2> QED
    BY <1>2, <1>4, <2>1, <2>3, HandedOut
<1> QED
  BY <1>1, <1>3, <1>4, CounterAdded

(* A matchup that is there gets a counter for a usable map, or the assert  *)
(* fails on none.                                                          *)
LEMMA ActiveMatchupStep ==
  ASSUME IInv, ~ aborted, NEW o \in Offers, \A l \in Served : Given(l) < MaxGiven,
         GenerateActiveMatchup(UsableMaps(CommonMaps(o))), UNCHANGED <<finished, played>>,
         nice' \in BOOLEAN
  PROVE  IInv'
<1> DEFINE usable == UsableMaps(CommonMaps(o))
           m == Head(usable)
<1>1. Typed
  BY DEF IInv
<1>2. /\ usable \in Seq(Served)
      /\ Len(counters) = 1 => counters[1].map \notin Range(usable)
  BY <1>1, UsableTyped
<1>3. /\ usable # <<>>
      /\ IF Seen(m) # {} THEN AssertFails
         ELSE counters' = Emplace(counters, m) /\ HandOut(m) /\ UNCHANGED <<started, aborted>>
  BY DEF GenerateActiveMatchup
<1> HIDE DEF usable
<1>4. m \in Served /\ m \in Range(usable)
  <2>1. DOMAIN usable = 1..Len(usable) /\ 1 \in 1..Len(usable) /\ Head(usable) = usable[1]
    BY <1>2, <1>3, LenProperties, EmptySeq
  <2> QED
    BY <1>2, <2>1, LenProperties DEF Range
<1> HIDE DEF m
<1>5. CASE Seen(m) = {}
  BY <1>3, <1>4, <1>5, EmplaceStep
<1>6. CASE Seen(m) # {}
  <2>1. PICK i \in Seen(m) : i \in 1..Len(counters) /\ counters[i].map = m
    BY <1>1, <1>6, SeenCounter
  <2>2. Len(counters) \in 0..3
    BY <1>1, CountersTyped
  <2>3. CASE Len(counters) = 1
    BY <1>2, <1>4, <2>1, <2>3
  <2>4. CASE Len(counters) >= 2
    <3> DEFINE front == counters[1].map
    <3>1. 1 \in 1..Len(counters) /\ front \in Served /\ outstanding[front] > 0
      BY <1>1, <2>2, <2>4, InvariantUnfolded, CountersTyped DEF Counter
    <3>2. Seen(front) = {}
      <4> SUFFICES ASSUME NEW j \in Seen(front) PROVE FALSE
        OBVIOUS
      <4>1. j \in 1..Len(counters) /\ counters[j].map = front /\ 1 \notin Seen(front)
        BY <1>1, <2>4, SeenCounter
      <4>2. j = 1
        BY <1>1, <3>1, <4>1, CountersTyped
      <4> QED
        BY <4>1, <4>2
    <3> HIDE DEF front
    <3> QED
      BY <1>3, <1>6, <3>1, <3>2, AssertFailed
  <2> QED
    BY <2>1, <2>2, <2>3, <2>4
<1> QED
  BY <1>5, <1>6

(* The matchup is made, and its first counter with it.                     *)
LEMMA NewMatchupStep ==
  ASSUME IInv, ~ aborted, NEW o \in Offers, \A l \in Served : Given(l) < MaxGiven,
         CommonMaps(o) # <<>>, GenerateNewMatchup(CommonMaps(o)), UNCHANGED <<finished, played>>,
         nice' \in BOOLEAN
  PROVE  IInv'
<1> DEFINE cm == CommonMaps(o)
           m == Head(cm)
<1>1. Typed
  BY DEF IInv
<1>2. m \in Served
  BY CommonMapsTyped, LenProperties, EmptySeq
<1>3. CASE started /\ \E ok \in BOOLEAN : Return(ok)
  <2>1. started' \in BOOLEAN
    BY <1>1, <1>3 DEF Typed, Return
  <2> QED
    BY <1>3, <2>1, NothingGiven
<1>4. CASE started' = TRUE /\ counters' = Emplace(<<>>, m) /\ HandOut(m) /\ UNCHANGED aborted
  <2> DEFINE c == NewCounter(m)
  <2>1. c \in Counter /\ c.map = m /\ c.done = NumGames
    BY <1>2, NewCounterTyped
  <2>2. counters' = <<c>> \o <<>>
    <3>1. Keys(<<>>) = <<>>
      BY DEF Keys
    <3> QED
      BY <1>4, <3>1 DEF Emplace, Collides
  <2> HIDE DEF m, c
  <2>3. counters' \in Seq(Counter) /\ Len(counters') = 1 /\ counters'[1] = c
    BY <2>1, <2>2
  <2>4. Unique(Keys(counters'))
    BY <2>3, KeysDiffer
  <2>5. played[m] \in Nat /\ NumGames \in Nat
    BY <1>1, <1>2, MapsTyped DEF Typed
  <2>6. \A i \in 1..Len(counters') : counters'[i].done + played[counters'[i].map] >= NumGames
    BY <2>1, <2>3, <2>5
  <2> QED
    BY <1>2, <1>4, <2>3, <2>4, <2>6, HandedOut
<1> QED
  BY <1>3, <1>4 DEF GenerateNewMatchup

(* generateGame keeps the invariant: one case for each way through it.     *)
LEMMA GenerateGameStep ==
  ASSUME IInv, NEW o \in Offers, \A m \in Served : Given(m) < MaxGiven, GenerateGame(o)
  PROVE  IInv'
<1> DEFINE cm == CommonMaps(o)
<1>1. ~ aborted /\ UNCHANGED <<finished, played>>
  BY DEF GenerateGame
<1>2. nice' \in BOOLEAN
  BY DEF GenerateGame
<1>3. \/ Return(FALSE)
      \/ cm # <<>> /\ GenerateActiveMap(cm)
      \/ cm # <<>> /\ GenerateActiveMatchup(UsableMaps(cm))
      \/ cm # <<>> /\ GenerateNewMatchup(cm)
  BY DEF GenerateGame
<1> HIDE DEF cm
<1>4. CASE Return(FALSE)
  <2>1. started' \in BOOLEAN
    BY <1>4 DEF Return, IInv, Typed
  <2> QED
    BY <1>1, <1>2, <1>4, <2>1, NothingGiven
<1>5. CASE cm # <<>> /\ GenerateActiveMap(cm)
  BY <1>1, <1>2, <1>5, ActiveMapStep DEF cm
<1>6. CASE cm # <<>> /\ GenerateActiveMatchup(UsableMaps(cm))
  BY <1>1, <1>2, <1>6, ActiveMatchupStep DEF cm
<1>7. CASE cm # <<>> /\ GenerateNewMatchup(cm)
  BY <1>1, <1>2, <1>7, NewMatchupStep DEF cm
<1> QED
  BY <1>3, <1>4, <1>5, <1>6, <1>7

(* A game of m is back; its counter was seen. *)
LEMMA GameReturned ==
  ASSUME Typed, NEW m \in Served, outstanding[m] > 0, Returned(m), NEW i \in Seen(m)
  PROVE  /\ outstanding' \in [Served -> Nat]
         /\ outstanding'[m] = outstanding[m] - 1
         /\ \A l \in Served : l # m => outstanding'[l] = outstanding[l]
         /\ Len(counters) >= 2 => i # 1 /\ counters[1].map \in Served /\ counters[1].map # m
<1>1. /\ outstanding \in [Served -> Nat]
      /\ outstanding' = [outstanding EXCEPT ![m] = outstanding[m] - 1]
      /\ outstanding[m] - 1 \in Nat
  BY DEF Returned, Typed
<1>2. ASSUME Len(counters) >= 2
      PROVE  i # 1 /\ counters[1].map \in Served /\ counters[1].map # m
  <2>1. i # 1 /\ i \in 1..Len(counters) /\ counters[i].map = m
    BY <1>2, SeenCounter
  <2>2. 1 \in 1..Len(counters)
    BY <1>2, CountersTyped
  <2> QED
    BY <2>1, <2>2, CountersTyped DEF Counter
<1> QED
  BY <1>1, <1>2

(* notifyGenerationFail keeps it: the counter gets the game back, or the   *)
(* assert fails since no lookup comes to the counter.                      *)
LEMMA NotifyFailStep ==
  ASSUME IInv, NEW m \in Served, NotifyFail(m)
  PROVE  IInv'
<1>1. ~ aborted /\ outstanding[m] > 0 /\ Typed
  BY DEF NotifyFail, IInv
<1>2. CASE Seen(m) = {} /\ AssertFails /\ UNCHANGED <<finished, played, nice>>
  <2>1. nice' \in BOOLEAN
    BY <1>1, <1>2 DEF Typed
  <2> QED
    BY <1>1, <1>2, <2>1, AssertFailed
<1>3. CASE /\ \E i \in Seen(m) : counters' = [counters EXCEPT ![i].left = @ + 1]
           /\ Returned(m)
           /\ UNCHANGED <<started, finished, reply, aborted, played, nice>>
  <2>1. PICK i \in Seen(m) : counters' = [counters EXCEPT ![i].left = @ + 1]
    BY <1>3
  <2>2. i \in 1..Len(counters) /\ counters[i].map = m
    BY <1>1, SeenCounter
  <2> DEFINE c == [counters[i] EXCEPT !.left = @ + 1]
  <2>3. c \in Counter /\ c.map = counters[i].map /\ c.done = counters[i].done
    <3>1. counters[i] \in Counter
      BY <1>1, <2>2, CountersTyped
    <3>2. counters[i].left + 1 \in Nat
      BY <3>1 DEF Counter
    <3> QED
      BY <3>1, <3>2, NumberSet
  <2>4. counters' = Changed(i, c)
    BY <2>1 DEF Changed
  <2> HIDE DEF c
  <2>5. /\ counters' \in Seq(Counter) /\ Unique(Keys(counters')) /\ Len(counters') = Len(counters)
        /\ \A j \in 1..Len(counters') : counters'[j] = (IF j = i THEN c ELSE counters[j])
                                        /\ counters'[j].map = counters[j].map
    BY <1>1, <2>2, <2>3, <2>4, CounterChanged
  <2>6. /\ outstanding' \in [Served -> Nat]
        /\ outstanding'[m] = outstanding[m] - 1
        /\ \A l \in Served : l # m => outstanding'[l] = outstanding[l]
        /\ Len(counters) >= 2 => counters[1].map \in Served /\ counters[1].map # m
    BY <1>1, <1>3, GameReturned
  <2>7. \A l \in Served : Given(l)' <= MaxGiven
    <3>1. outstanding \in [Served -> Nat] /\ played \in [Served -> Nat] /\ MaxGiven \in Nat
          /\ \A l \in Served : outstanding[l] + played[l] <= MaxGiven
      BY <1>1, MapsTyped DEF Typed, Given
    <3>2. ASSUME NEW l \in Served
          PROVE  outstanding'[l] <= outstanding[l] /\ outstanding'[l] \in Nat
      <4>1. outstanding[l] \in Nat /\ outstanding'[l] \in Nat
        BY <2>6, <3>1
      <4> QED
        BY <2>6, <4>1
    <3>3. played' = played
      BY <1>3
    <3> QED
      BY <3>1, <3>2, <3>3 DEF Given
  <2>8. Typed'
    BY <1>1, <1>3, <2>5, <2>6, <2>7 DEF Typed
  <2>9. AbortsOnlyForMissed'
    BY <1>1, <1>3 DEF AbortsOnlyForMissed
  <2>10. Len(counters') >= 2 => outstanding'[counters'[1].map] > 0
    <3>1. Len(counters) \in 0..3
      BY <1>1, CountersTyped
    <3>2. Len(counters) >= 2 => 1 \in 1..Len(counters)
      BY <3>1
    <3> QED
      BY <2>5, <2>6, <3>2, InvariantUnfolded
  <2>11. \A j \in 1..Len(counters') : counters'[j].done + played'[counters'[j].map] >= NumGames
    <3>1. \A j \in 1..Len(counters') : counters'[j].done = counters[j].done
      BY <2>3, <2>5
    <3> QED
      BY <1>3, <2>5, <3>1, InvariantUnfolded
  <2>12. \A j \in 1..Len(finished') : played'[finished'[j]] >= NumGames
    BY <1>3, InvariantUnfolded
  <2> QED
    BY <2>8, <2>9, <2>10, <2>11, <2>12, InvariantKept
<1> QED
  BY <1>2, <1>3 DEF NotifyFail

(* The counter i, which was seen, counts a success. *)
LEMMA CountStep ==
  ASSUME IInv, ~ aborted, NEW m \in Served, outstanding[m] > 0, NEW i \in Seen(m), Count(m, i),
         Returned(m), played' = [played EXCEPT ![m] = @ + 1],
         UNCHANGED <<started, reply, aborted, nice>>
  PROVE  IInv'
<1>1. /\ Typed /\ i \in 1..Len(counters) /\ counters[i].map = m /\ counters[i] \in Counter
      /\ played \in [Served -> Nat] /\ NumGames \in Nat
      /\ finished \in Seq(Served) /\ Len(finished) \in 0..3
      /\ DOMAIN counters = 1..Len(counters) /\ Len(counters) \in 0..3
  <2>1. Typed
    BY DEF IInv
  <2>2. i \in 1..Len(counters) /\ counters[i].map = m
    BY <2>1, SeenCounter
  <2> QED
    BY <2>1, <2>2, CountersTyped, MapsTyped DEF Typed
<1>2. counters[i].done \in 1..NumGames /\ counters[i].done + played[m] >= NumGames
  BY <1>1, InvariantUnfolded DEF Counter
<1>3. /\ outstanding' \in [Served -> Nat]
      /\ outstanding'[m] = outstanding[m] - 1
      /\ \A l \in Served : l # m => outstanding'[l] = outstanding[l]
      /\ Len(counters) >= 2 => i # 1 /\ counters[1].map \in Served /\ counters[1].map # m
  BY <1>1, GameReturned
<1>4. /\ played' \in [Served -> Nat]
      /\ played'[m] = played[m] + 1
      /\ \A l \in Served : l # m => played'[l] = played[l]
      /\ \A l \in Served : played'[l] >= played[l]
  <2>1. played[m] + 1 \in Nat
    BY <1>1
  <2> QED
    BY <1>1, <2>1
<1>5. \A l \in Served : Given(l)' <= MaxGiven
  <2>1. outstanding \in [Served -> Nat] /\ MaxGiven \in Nat
        /\ \A l \in Served : outstanding[l] + played[l] <= MaxGiven
    BY <1>1, MapsTyped DEF Typed, Given
  <2>2. ASSUME NEW l \in Served
        PROVE  outstanding'[l] + played'[l] = outstanding[l] + played[l]
    <3>1. outstanding[l] \in Nat /\ played[l] \in Nat
      BY <1>1, <2>1
    <3> QED
      BY <1>3, <1>4, <3>1
  <2> QED
    BY <2>1, <2>2 DEF Given
<1>6. AbortsOnlyForMissed'
  BY DEF AbortsOnlyForMissed
<1>7. \A l \in 1..Len(counters) :
        /\ counters[l] \in Counter /\ counters[l].map \in Served /\ counters[l].done \in 1..NumGames
        /\ counters[l].done + played'[counters[l].map] >= NumGames
  <2> SUFFICES ASSUME NEW l \in 1..Len(counters)
               PROVE  /\ counters[l] \in Counter
                      /\ counters[l].map \in Served /\ counters[l].done \in 1..NumGames
                      /\ counters[l].done + played'[counters[l].map] >= NumGames
    OBVIOUS
  <2> DEFINE h == counters[l].map
             d == counters[l].done
  <2>1. counters[l] \in Counter /\ h \in Served /\ d \in 1..NumGames
    BY <1>1, CountersTyped DEF Counter
  <2>2. d + played[h] >= NumGames
    BY InvariantUnfolded
  <2> HIDE DEF h, d
  <2>3. played[h] \in Nat /\ played'[h] \in Nat /\ played'[h] >= played[h]
    BY <1>1, <1>4, <2>1
  <2>4. d + played'[h] >= NumGames
    BY <1>1, <2>1, <2>2, <2>3
  <2> QED
    BY <2>1, <2>4 DEF h, d
<1>8. ASSUME counters[i].done > 1, counters' = [counters EXCEPT ![i].done = @ - 1],
             UNCHANGED finished
      PROVE  IInv'
  <2> DEFINE c == [counters[i] EXCEPT !.done = @ - 1]
  <2>1. c \in Counter /\ c.map = counters[i].map /\ c.done = counters[i].done - 1
    <3>1. counters[i].done - 1 \in 1..NumGames
      BY <1>1, <1>2, <1>8
    <3> QED
      BY <1>1, <3>1, NumberSet
  <2>2. counters' = Changed(i, c)
    BY <1>8 DEF Changed
  <2> HIDE DEF c
  <2>3. /\ counters' \in Seq(Counter) /\ Unique(Keys(counters')) /\ Len(counters') = Len(counters)
        /\ \A j \in 1..Len(counters') : counters'[j] = (IF j = i THEN c ELSE counters[j])
                                        /\ counters'[j].map = counters[j].map
    BY <1>1, <2>1, <2>2, CounterChanged
  <2>4. Typed'
    BY <1>1, <1>3, <1>4, <1>5, <1>8, <2>3 DEF Typed
  <2>5. Len(counters') >= 2 => outstanding'[counters'[1].map] > 0
    <3>1. Len(counters) >= 2 => 1 \in 1..Len(counters)
      BY <1>1
    <3> QED
      BY <1>3, <2>3, <3>1, InvariantUnfolded
  <2>6. \A j \in 1..Len(counters') : counters'[j].done + played'[counters'[j].map] >= NumGames
    <3>1. c.done + played'[m] >= NumGames
      BY <1>1, <1>2, <1>4, <2>1
    <3> QED
      BY <1>1, <1>7, <2>1, <2>3, <3>1
  <2>7. \A j \in 1..Len(finished') : played'[finished'[j]] >= NumGames
    <3> SUFFICES ASSUME NEW j \in 1..Len(finished) PROVE played'[finished[j]] >= NumGames
      BY <1>8
    <3>1. finished[j] \in Served /\ played[finished[j]] >= NumGames
      BY <1>1, InvariantUnfolded, LenProperties
    <3> QED
      BY <1>1, <1>4, <3>1
  <2> QED
    BY <1>6, <2>4, <2>5, <2>6, <2>7, InvariantKept
<1>9. ASSUME ~ (counters[i].done > 1), Found(finished, m) = {},
             finished' = Insert(finished, m), counters' = RemoveAt(counters, i)
      PROVE  IInv'
  <2>1. /\ counters' \in Seq(Counter) /\ Unique(Keys(counters')) /\ Len(counters') = Len(counters) - 1
        /\ \A j \in 1..Len(counters') :
             counters'[j] = (IF j < i THEN counters[j] ELSE counters[j + 1])
    BY <1>1, <1>9, CounterRemoved
  <2>2. \A j \in 1..Len(counters') : \E l \in 1..Len(counters) : counters'[j] = counters[l]
    <3> SUFFICES ASSUME NEW j \in 1..Len(counters')
                 PROVE  \E l \in 1..Len(counters) : counters'[j] = counters[l]
      OBVIOUS
    <3>1. j \in 1..Len(counters) /\ j + 1 \in 1..Len(counters)
      BY <1>1, <2>1
    <3> QED
      BY <2>1, <3>1
  <2>3. Len(counters') >= 2 => outstanding'[counters'[1].map] > 0
    <3> SUFFICES ASSUME Len(counters') >= 2 PROVE outstanding'[counters'[1].map] > 0
      OBVIOUS
    <3>1. Len(counters) >= 2 /\ 1 \in 1..Len(counters') /\ i # 1 /\ 1 < i
      BY <1>1, <1>3, <2>1
    <3>2. counters'[1] = counters[1]
      BY <2>1, <3>1
    <3> QED
      BY <1>3, <3>1, <3>2, InvariantUnfolded
  <2>4. \A j \in 1..Len(counters') : counters'[j].done + played'[counters'[j].map] >= NumGames
    BY <1>7, <2>2
  <2>5. played'[m] >= NumGames
    <3>1. counters[i].done = 1
      BY <1>1, <1>2, <1>9
    <3> QED
      BY <1>1, <1>2, <1>4, <3>1
  <2>6. /\ finished' \in Seq(Served) /\ Unique(finished')
        /\ \A j \in 1..Len(finished') : played'[finished'[j]] >= NumGames
    <3>1. \A j \in 1..Len(finished) : finished[j] \in Served /\ played'[finished[j]] >= NumGames
      <4>1. \A j \in 1..Len(finished) : finished[j] \in Served /\ played[finished[j]] >= NumGames
        BY <1>1, InvariantUnfolded, LenProperties
      <4> QED
        BY <1>1, <1>4, <4>1
    <3>2. Unique(finished)
      BY <1>1 DEF Typed
    <3>3. CASE Collides(finished, m)
      BY <1>1, <1>9, <3>1, <3>2, <3>3 DEF Insert
    <3>4. CASE ~ Collides(finished, m)
      <4>1. finished' = <<m>> \o finished
        BY <1>9, <3>4 DEF Insert
      <4>2. m \notin Range(finished) /\ Len(finished) \in Nat /\ DOMAIN finished = 1..Len(finished)
        <5> DEFINE n == Len(finished)
        <5>1. n \in 0..3
          BY <1>1
        <5> HIDE DEF n
        <5>2. n <= 3
          BY <5>1
        <5>3. Len(finished) <= 3
          BY <5>2 DEF n
        <5> QED
          BY <1>1, <1>9, <3>4, <5>3, LookedUp, LenProperties
      <4>3. /\ finished' \in Seq(Served) /\ Len(finished') = Len(finished) + 1
            /\ DOMAIN finished' = 1..Len(finished) + 1
            /\ finished'[1] = m /\ \A j \in 2..Len(finished) + 1 : finished'[j] = finished[j - 1]
        BY <1>1, <4>1, Prepended
      <4>4. \A j \in 1..Len(finished) + 1 :
              j = 1 \/ (j \in 2..Len(finished) + 1 /\ j - 1 \in 1..Len(finished))
        BY <4>2
      <4>5. \A j \in 1..Len(finished') : played'[finished'[j]] >= NumGames
        BY <2>5, <3>1, <4>3, <4>4
      <4>6. Unique(finished')
        <5> SUFFICES ASSUME NEW j \in 1..Len(finished) + 1, NEW k \in 1..Len(finished) + 1,
                            finished'[j] = finished'[k]
                     PROVE  j = k
          BY <4>3 DEF Unique, IsInjective
        <5>1. CASE j = 1 \/ k = 1
          BY <4>2, <4>3, <4>4, <5>1 DEF Range
        <5>2. CASE j # 1 /\ k # 1
          <6>1. /\ j - 1 \in 1..Len(finished) /\ k - 1 \in 1..Len(finished)
                /\ finished[j - 1] = finished[k - 1]
            BY <4>3, <4>4, <5>2
          <6>2. j - 1 = k - 1
            BY <3>2, <4>2, <6>1 DEF Unique, IsInjective
          <6> QED
            BY <6>2
        <5> QED
          BY <5>1, <5>2
      <4> QED
        BY <4>3, <4>5, <4>6
    <3> QED
      BY <3>3, <3>4
  <2>7. Typed'
    BY <1>1, <1>3, <1>4, <1>5, <2>1, <2>6 DEF Typed
  <2> QED
    BY <1>6, <2>3, <2>4, <2>6, <2>7, InvariantKept
<1> QED
  BY <1>8, <1>9 DEF Count

(* notifySuccess keeps it: the counter counts, or the assert fails.        *)
LEMMA NotifySuccessStep ==
  ASSUME IInv, NEW m \in Served, NotifySuccess(m)
  PROVE  IInv'
<1>1. ~ aborted /\ outstanding[m] > 0 /\ Typed
  BY DEF NotifySuccess, IInv
<1>2. CASE /\ \A i \in Seen(m) : counters[i].done <= 1 /\ Found(finished, m) # {}
           /\ AssertFails
           /\ UNCHANGED <<finished, played, nice>>
  <2>1. nice' \in BOOLEAN
    BY <1>1, <1>2 DEF Typed
  <2>2. Seen(m) = {} \/ played[m] >= NumGames
    <3> SUFFICES ASSUME NEW i \in Seen(m) PROVE played[m] >= NumGames
      OBVIOUS
    <3>1. PICK j \in Found(finished, m) : TRUE
      BY <1>2
    <3>2. j \in 1..Len(finished) /\ finished[j] = m
      BY <1>1, CountersTyped DEF Found, Less
    <3> QED
      BY <3>2, InvariantUnfolded
  <2> QED
    BY <1>1, <1>2, <2>1, <2>2, AssertFailed
<1>3. CASE /\ \E i \in Seen(m) : Count(m, i)
           /\ Returned(m)
           /\ played' = [played EXCEPT ![m] = @ + 1]
           /\ UNCHANGED <<started, reply, aborted, nice>>
  BY <1>1, <1>3, CountStep
<1> QED
  BY <1>2, <1>3 DEF NotifySuccess

(* IInv holds in every reachable state. *)
THEOREM BuiltInductive == Spec => []IInv
<1>1. ASSUME IInv, [Next]_vars
      PROVE  IInv'
  <2>1. CASE UNCHANGED vars
    BY <1>1, <2>1 DEF vars, IInv, Typed, Keys, Given, FrontIsOut, Tallied, AbortsOnlyForMissed, Seen
  <2>2. ASSUME NEW o \in Offers, \A m \in Served : Given(m) < MaxGiven, GenerateGame(o)
        PROVE  IInv'
    BY <1>1, <2>2, GenerateGameStep
  <2>3. ASSUME NEW m \in Served, NotifySuccess(m)
        PROVE  IInv'
    BY <1>1, <2>3, NotifySuccessStep
  <2>4. ASSUME NEW m \in Served, NotifyFail(m)
        PROVE  IInv'
    BY <1>1, <2>4, NotifyFailStep
  <2> QED
    BY <1>1, <2>1, <2>2, <2>3, <2>4 DEF Next
<1> QED
  BY InitInv, <1>1, PTL DEF Spec

(* Every variable keeps its shape, and no container outgrows what is known *)
(* of its tree.                                                            *)
THEOREM BuiltTyped == Spec => []TypeOK
<1>1. IInv => TypeOK
  <2> SUFFICES ASSUME IInv PROVE TypeOK
    OBVIOUS
  <2>1. /\ Typed
        /\ outstanding \in [Served -> Nat] /\ played \in [Served -> Nat]
        /\ MaxGiven \in Nat /\ \A m \in Served : outstanding[m] + played[m] <= MaxGiven
    BY MapsTyped DEF IInv, Typed, Given
  <2>2. \A m \in Served : outstanding[m] \in 0..MaxGiven /\ played[m] \in 0..MaxGiven
    BY <2>1
  <2>3. outstanding \in [Served -> 0..MaxGiven] /\ played \in [Served -> 0..MaxGiven]
    BY <2>1, <2>2
  <2>4. \A i \in DOMAIN counters : counters[i].left \in Nat /\ counters[i].done \in 1..NumGames
    BY <2>1, CountersTyped DEF Counter
  <2>5. \A keys \in {Keys(counters), finished} : keys \in Seq(Served) /\ Unique(keys)
    BY <2>1, CountersTyped DEF Typed
  <2>6. reply.ok \in BOOLEAN /\ reply.game \subseteq Served
    BY <2>1 DEF Typed
  <2> QED
    BY <2>1, <2>3, <2>4, <2>5, <2>6 DEF TypeOK, Typed
<1> QED
  BY <1>1, BuiltInductive, PTL

(* The asserts fail only for a game out whose map no lookup comes to, or   *)
(* whose games were all played when it was given out again.                *)
THEOREM AbortsForMissed == Spec => []AbortsOnlyForMissed
<1>1. IInv => AbortsOnlyForMissed
  BY DEF IInv
<1> QED
  BY <1>1, BuiltInductive, PTL

---------------------------------------------------------------------------
(* The ideal situation, with one map or two.  The maps in common are those *)
(* of the server from the last to the first, and are begun in that order.  *)

(* The map that is begun first.                                            *)
First == Maps[Len(Maps)]
(* The map that is begun once all games of the first are out.              *)
Second == Maps[1]

(* What the containers hold, one after the other.                          *)
InOrder ==
  \/ ~ started /\ counters = <<>> /\ finished = <<>>
  \/ /\ started
     /\ \/ Keys(counters) = <<First>> /\ finished = <<>>
        \/ Keys(counters) = <<>> /\ finished = <<First>>
        \/ /\ Len(Maps) = 2
           /\ \/ Keys(counters) = <<Second, First>> /\ finished = <<>>
              \/ Keys(counters) = <<Second>> /\ finished = <<First>>
              \/ Keys(counters) = <<>> /\ finished = <<Second, First>>

(* No counter is of this map.                                              *)
Unknown(m) == \A i \in 1..Len(counters) : counters[i].map # m

(* What a counter has left and has out are what it has yet to finish,      *)
(* which is what was not played; and nothing is out of a map that has no   *)
(* counter.                                                                *)
Accounted ==
  /\ \A i \in 1..Len(counters) :
       /\ counters[i].done = NumGames - played[counters[i].map]
       /\ counters[i].left + outstanding[counters[i].map] = counters[i].done
  /\ \A m \in Served : Unknown(m) =>
       outstanding[m] = 0 /\ played[m] = IF m \in Range(finished) THEN NumGames ELSE 0

(* What is kept as long as every client has had all the files.             *)
NiceInv == nice => InOrder /\ Accounted

(* With one map or two there are no others.                                *)
LEMMA FirstAndSecond ==
  ASSUME Len(Maps) <= 2
  PROVE  /\ First \in Served /\ Second \in Served
         /\ Len(Maps) = 1 \/ Len(Maps) = 2
         /\ Len(Maps) = 1 => Maps = <<First>>
         /\ Len(Maps) = 2 => First # Second /\ Maps = <<Second, First>>
<1>1. Len(Maps) \in 1..3 /\ Maps \in Seq(Served) /\ DOMAIN Maps = 1..Len(Maps) /\ Unique(Maps)
  BY MapsTyped
<1> DEFINE n == Len(Maps)
<1>2. n \in 1..3 /\ n <= 2
  BY <1>1
<1> HIDE DEF n
<1>3. n = 1 \/ n = 2
  BY <1>2
<1>4. First \in Served /\ Second \in Served
  BY <1>1, <1>3 DEF n, First, Second, Served, Range
<1>5. ASSUME Len(Maps) = 1 PROVE Maps = <<First>>
  <2>1. <<First>> \in Seq(Served) /\ Len(<<First>>) = 1 /\ <<First>>[1] = First
    BY <1>4
  <2> QED
    BY <1>1, <1>5, <2>1, SeqEqual DEF First
<1>6. ASSUME Len(Maps) = 2 PROVE First # Second /\ Maps = <<Second, First>>
  <2> DEFINE s == <<Second, First>>
  <2>1. s \in Seq(Served) /\ Len(s) = 2 /\ s[1] = Second /\ s[2] = First
    BY <1>4
  <2> HIDE DEF s
  <2>2. \A i \in 1..Len(Maps) : Maps[i] = s[i]
    BY <1>6, <2>1 DEF First, Second
  <2>3. Maps = s
    BY <1>1, <1>6, <2>1, <2>2, SeqEqual
  <2>4. First # Second
    BY <1>1, <1>6 DEF First, Second, Unique, IsInjective
  <2> QED
    BY <2>3, <2>4 DEF s
<1> QED
  BY <1>3, <1>4, <1>5, <1>6 DEF n

(* A nice client has all of them in common, in reverse.                    *)
LEMMA NiceCommon ==
  ASSUME Len(Maps) <= 2, NEW o \in Offers, Nice(o)
  PROVE  /\ Len(Maps) = 1 => CommonMaps(o) = <<First>>
         /\ Len(Maps) = 2 => CommonMaps(o) = <<First, Second>>
<1>1. CommonMaps(o) = Intersection(Maps, Maps)
  BY DEF CommonMaps, Nice
<1>2. Maps \in Seq(Served)
  BY MapsTyped
<1> QED
  BY <1>1, <1>2, IntersectionOfFew DEF First, Second

(* The counters when their keys are known. *)
LEMMA FewKeys ==
  ASSUME Typed, NEW p, NEW q
  PROVE  /\ Keys(counters) = <<>> => counters = <<>> /\ Len(counters) = 0
         /\ Keys(counters) = <<p>> => Len(counters) = 1 /\ counters[1].map = p
         /\ Keys(counters) = <<p, q>> =>
              Len(counters) = 2 /\ counters[1].map = p /\ counters[2].map = q
<1>1. /\ Len(Keys(counters)) = Len(counters) /\ counters \in Seq(Counter)
      /\ \A i \in 1..Len(counters) : Keys(counters)[i] = counters[i].map
  BY CountersTyped DEF Typed
<1>2. ASSUME Keys(counters) = <<>>
      PROVE  counters = <<>> /\ Len(counters) = 0
  BY <1>1, <1>2, EmptySeq
<1>3. ASSUME Keys(counters) = <<p>>
      PROVE  Len(counters) = 1 /\ counters[1].map = p
  <2>1. Len(counters) = 1
    BY <1>1, <1>3
  <2> QED
    BY <1>1, <1>3, <2>1
<1>4. ASSUME Keys(counters) = <<p, q>>
      PROVE  Len(counters) = 2 /\ counters[1].map = p /\ counters[2].map = q
  <2>1. Len(counters) = 2
    BY <1>1, <1>4
  <2> QED
    BY <1>1, <1>4, <2>1
<1> QED
  BY <1>2, <1>3, <1>4

(* The second map is usable once no game of the first is left, and nothing *)
(* is after that.                                                          *)
LEMMA NiceUsable ==
  ASSUME Len(Maps) <= 2, InOrder, started, NEW o \in Offers, Nice(o)
  PROVE  \/ UsableMaps(CommonMaps(o)) = <<>>
         \/ /\ UsableMaps(CommonMaps(o)) = <<Second>> /\ Len(Maps) = 2
            /\ \/ Keys(counters) = <<First>> /\ finished = <<>>
               \/ Keys(counters) = <<>> /\ finished = <<First>>
<1> DEFINE cm == CommonMaps(o)
           nonActive == Difference(cm, Reverse(Keys(counters)))
           usable == UsableMaps(cm)
           x == First
           y == Second
<1>1. /\ x \in Served /\ y \in Served
      /\ (Len(Maps) = 1 /\ cm = <<x>>) \/ (Len(Maps) = 2 /\ cm = <<x, y>> /\ x # y)
  BY FirstAndSecond, NiceCommon
<1>2. usable = IF finished = <<>> THEN nonActive ELSE Difference(nonActive, finished)
  BY DEF UsableMaps
<1>3. /\ Reverse(<<>>) = <<>> /\ Reverse(<<x>>) = <<x>> /\ Reverse(<<y>>) = <<y>>
      /\ Reverse(<<y, x>>) = <<x, y>>
  BY ReverseOfFew
<1> HIDE DEF x, y
<1>4. /\ Difference(<<x>>, <<>>) = <<x>> /\ Difference(<<x>>, <<x>>) = <<>>
      /\ Difference(<<x, y>>, <<>>) = <<y, x>> /\ Difference(<<x, y>>, <<x>>) = <<y>>
      /\ Difference(<<x, y>>, <<x, y>>) = <<>>
      /\ Difference(<<y, x>>, <<y, x>>) = <<>>
      /\ x # y => Difference(<<x, y>>, <<y>>) = <<x>> /\ Difference(<<y, x>>, <<x>>) = <<y>>
  <2>1. /\ Difference(<<x>>, <<>>) = <<x>> /\ Difference(<<x>>, <<x>>) = <<>>
        /\ Difference(<<x, y>>, <<>>) = <<y, x>> /\ Difference(<<x, y>>, <<x>>) = <<y>>
        /\ Difference(<<x, y>>, <<x, y>>) = <<>>
        /\ x # y => Difference(<<x, y>>, <<y>>) = <<x>>
    BY <1>1, DifferencesOfFew
  <2>2. Difference(<<y, x>>, <<y, x>>) = <<>> /\ Difference(<<y, x>>, <<y>>) = <<x>>
        /\ (y # x => Difference(<<y, x>>, <<x>>) = <<y>>)
    BY <1>1, DifferencesOfFew
  <2> QED
    BY <2>1, <2>2
<1>5. <<x>> # <<>> /\ <<y, x>> # <<>>
  OBVIOUS
<1> HIDE DEF cm, usable
<1>6. CASE Keys(counters) = <<x>> /\ finished = <<>>
  BY <1>1, <1>2, <1>3, <1>4, <1>6 DEF usable, cm, x, y
<1>7. CASE Keys(counters) = <<>> /\ finished = <<x>>
  BY <1>1, <1>2, <1>3, <1>4, <1>5, <1>7 DEF usable, cm, x, y
<1>8. CASE Len(Maps) = 2 /\ Keys(counters) = <<y, x>> /\ finished = <<>>
  BY <1>1, <1>2, <1>3, <1>4, <1>8 DEF usable, cm
<1>9. CASE Len(Maps) = 2 /\ Keys(counters) = <<y>> /\ finished = <<x>>
  BY <1>1, <1>2, <1>3, <1>4, <1>5, <1>9 DEF usable, cm
<1>10. CASE Len(Maps) = 2 /\ Keys(counters) = <<>> /\ finished = <<y, x>>
  BY <1>1, <1>2, <1>3, <1>4, <1>5, <1>10 DEF usable, cm
<1> QED
  BY <1>6, <1>7, <1>8, <1>9, <1>10 DEF InOrder, x, y

(* The counter of m is changed to account for what is done with a game. *)
LEMMA AccountChanged ==
  ASSUME Typed, Accounted, NEW m \in Served, NEW i \in Seen(m), NEW c \in Counter, c.map = m,
         counters' = Changed(i, c), UNCHANGED finished,
         \A l \in Served : l # m => outstanding'[l] = outstanding[l] /\ played'[l] = played[l],
         c.done = NumGames - played'[m], c.left + outstanding'[m] = c.done
  PROVE  Accounted' /\ Keys(counters') = Keys(counters)
<1>1. /\ i \in 1..Len(counters) /\ counters[i].map = m /\ c.map = counters[i].map
      /\ DOMAIN counters = 1..Len(counters)
  BY SeenCounter, CountersTyped
<1>2. /\ counters' \in Seq(Counter) /\ Len(counters') = Len(counters)
      /\ \A j \in 1..Len(counters') : counters'[j] = (IF j = i THEN c ELSE counters[j])
                                      /\ counters'[j].map = counters[j].map
  BY <1>1, CounterChanged
<1>3. Keys(counters') = Keys(counters)
  <2>1. DOMAIN counters' = DOMAIN counters
    BY DEF Changed
  <2> QED
    BY <1>1, <1>2, <2>1 DEF Keys
<1>4. ASSUME NEW j \in 1..Len(counters')
      PROVE  /\ counters'[j].done = NumGames - played'[counters'[j].map]
             /\ counters'[j].left + outstanding'[counters'[j].map] = counters'[j].done
  <2>1. CASE j = i
    BY <1>1, <1>2, <2>1
  <2>2. CASE j # i
    <3>1. counters'[j] = counters[j] /\ counters[j].map \in Served /\ counters[j].map # m
      BY <1>1, <1>2, <2>2, CountersTyped DEF Counter
    <3> QED
      BY <1>2, <3>1 DEF Accounted
  <2> QED
    BY <2>1, <2>2
<1>5. ASSUME NEW l \in Served, Unknown(l)'
      PROVE  outstanding'[l] = 0 /\ played'[l] = IF l \in Range(finished') THEN NumGames ELSE 0
  <2>1. Unknown(l) /\ l # m
    BY <1>1, <1>2, <1>5 DEF Unknown
  <2> QED
    BY <2>1 DEF Accounted
<1> QED
  BY <1>3, <1>4, <1>5 DEF Accounted

(* A counter is made for a game of m and accounts for it. *)
LEMMA AccountAdded ==
  ASSUME Typed, Accounted, NEW m \in Served, Unknown(m), m \notin Range(finished),
         counters' = <<NewCounter(m)>> \o counters, HandOut(m), UNCHANGED <<finished, played>>
  PROVE  /\ Accounted' /\ Keys(counters') = <<m>> \o Keys(counters)
         /\ played[m] + outstanding[m] < NumGames
<1> DEFINE c == NewCounter(m)
<1>1. /\ c \in Counter /\ c.map = m /\ c.done = NumGames /\ c.left = NumGames - 1
      /\ NumGames \in Nat \ {0}
  BY NewCounterTyped, MapsTyped DEF NewCounter
<1>2. outstanding[m] = 0 /\ played[m] = 0
  BY DEF Accounted
<1>3. /\ outstanding'[m] = 1
      /\ \A l \in Served : l # m => outstanding'[l] = outstanding[l]
  BY <1>2 DEF HandOut, Typed
<1>4. /\ counters \in Seq(Counter) /\ Len(counters) \in Nat /\ DOMAIN counters = 1..Len(counters)
      /\ Keys(counters) \in Seq(Served) /\ Len(Keys(counters)) = Len(counters)
      /\ \A j \in 1..Len(counters) : Keys(counters)[j] = counters[j].map
                                     /\ counters[j].map \in Served
  <2>1. \A j \in 1..Len(counters) : counters[j].map \in Served
    BY CountersTyped DEF Counter
  <2>2. counters \in Seq(Counter)
    BY DEF Typed
  <2> QED
    BY <2>1, <2>2, CountersTyped
<1>5. counters' = <<c>> \o counters
  OBVIOUS
<1> HIDE DEF c
<1>6. /\ counters' \in Seq(Counter) /\ Len(counters') = Len(counters) + 1
      /\ DOMAIN counters' = 1..Len(counters) + 1
      /\ counters'[1] = c /\ \A j \in 2..Len(counters) + 1 : counters'[j] = counters[j - 1]
  BY <1>1, <1>4, <1>5, Prepended
<1>7. \A j \in 1..Len(counters) + 1 :
        j = 1 \/ (j \in 2..Len(counters) + 1 /\ j - 1 \in 1..Len(counters))
  BY <1>4
<1>8. Keys(counters') = <<m>> \o Keys(counters)
  <2> DEFINE s == Keys(counters')
             t == <<m>> \o Keys(counters)
  <2>1. DOMAIN s = 1..Len(counters) + 1 /\ \A j \in 1..Len(counters) + 1 : s[j] = counters'[j].map
    BY <1>6 DEF Keys
  <2>2. /\ t \in Seq(Served) /\ Len(t) = Len(counters) + 1
        /\ DOMAIN t = 1..Len(counters) + 1
        /\ t[1] = m /\ \A j \in 2..Len(counters) + 1 : t[j] = Keys(counters)[j - 1]
    BY <1>4, Prepended
  <2>3. s = [j \in 1..Len(counters) + 1 |-> counters'[j].map]
    BY <1>6 DEF Keys
  <2> HIDE DEF s, t
  <2>4. ASSUME NEW j \in 1..Len(counters) + 1
        PROVE  s[j] = t[j]
    <3>1. CASE j = 1
      BY <1>1, <1>6, <2>1, <2>2, <3>1
    <3>2. CASE j \in 2..Len(counters) + 1 /\ j - 1 \in 1..Len(counters)
      <4>1. s[j] = counters[j - 1].map
        BY <1>6, <2>1, <3>2
      <4>2. t[j] = counters[j - 1].map
        BY <1>4, <2>2, <3>2
      <4> QED
        BY <4>1, <4>2
    <3> QED
      BY <1>7, <3>1, <3>2
  <2>5. t = [j \in 1..Len(counters) + 1 |-> t[j]]
    BY <2>2
  <2>6. s = t
    BY <2>1, <2>3, <2>4, <2>5
  <2> QED
    BY <2>6 DEF s, t
<1>9. ASSUME NEW j \in 1..Len(counters')
      PROVE  /\ counters'[j].done = NumGames - played'[counters'[j].map]
             /\ counters'[j].left + outstanding'[counters'[j].map] = counters'[j].done
  <2>1. CASE j = 1
    BY <1>1, <1>2, <1>3, <1>6, <2>1
  <2>2. CASE j # 1
    <3>1. counters'[j] = counters[j - 1] /\ j - 1 \in 1..Len(counters)
      BY <1>6, <1>7, <2>2
    <3>2. counters[j - 1].map \in Served /\ counters[j - 1].map # m
      BY <1>4, <3>1 DEF Unknown
    <3>3. /\ counters[j - 1].done = NumGames - played[counters[j - 1].map]
          /\ counters[j - 1].left + outstanding[counters[j - 1].map] = counters[j - 1].done
      BY <3>1, Zenon DEF Accounted
    <3>4. /\ outstanding'[counters[j - 1].map] = outstanding[counters[j - 1].map]
          /\ played'[counters[j - 1].map] = played[counters[j - 1].map]
      BY <1>3, <3>2, Zenon
    <3> QED
      BY <3>1, <3>3, <3>4, Zenon
  <2> QED
    BY <2>1, <2>2
<1>10. ASSUME NEW l \in Served, Unknown(l)'
       PROVE  outstanding'[l] = 0 /\ played'[l] = IF l \in Range(finished') THEN NumGames ELSE 0
  <2>1. l # m
    BY <1>1, <1>4, <1>6, <1>10 DEF Unknown
  <2>2. Unknown(l)
    <3> SUFFICES ASSUME NEW j \in 1..Len(counters) PROVE counters[j].map # l
      BY DEF Unknown
    <3>1. j + 1 \in 1..Len(counters') /\ j + 1 \in 2..Len(counters) + 1 /\ (j + 1) - 1 = j
      BY <1>4, <1>6
    <3>2. counters'[j + 1] = counters[j]
      BY <1>6, <3>1
    <3> QED
      BY <1>10, <3>1, <3>2 DEF Unknown
  <2> QED
    BY <1>3, <2>1, <2>2 DEF Accounted
<1>11. Accounted'
  BY <1>9, <1>10 DEF Accounted
<1>12. played[m] + outstanding[m] < NumGames
  <2>1. NumGames \in Nat \ {0}
    BY MapsTyped
  <2> QED
    BY <1>2, <2>1
<1> QED
  BY <1>8, <1>11, <1>12

(* The counter of m goes with its last game. *)
LEMMA AccountClosed ==
  ASSUME Typed, Accounted, NEW m \in Served, NEW i \in Seen(m), ~ (counters[i].done > 1),
         outstanding[m] > 0, Returned(m), played' = [played EXCEPT ![m] = @ + 1],
         finished' = <<m>> \o finished, counters' = RemoveAt(counters, i)
  PROVE  Accounted'
<1>1. /\ i \in 1..Len(counters) /\ counters[i].map = m /\ counters[i] \in Counter
      /\ outstanding \in [Served -> Nat] /\ played \in [Served -> Nat] /\ NumGames \in Nat
      /\ finished \in Seq(Served) /\ Len(counters) \in Nat
      /\ \A j \in 1..Len(counters) : counters[j].map \in Served
      /\ \A j \in 1..Len(counters) : counters[j].map = m => j = i
  <2>1. i \in 1..Len(counters) /\ counters[i].map = m
    BY SeenCounter
  <2>2. /\ Len(counters) \in Nat /\ \A j \in 1..Len(counters) : counters[j] \in Counter
        /\ \A j, k \in 1..Len(counters) : counters[j].map = counters[k].map => j = k
    BY CountersTyped
  <2>3. \A j \in 1..Len(counters) : counters[j].map \in Served
    BY <2>2 DEF Counter
  <2>4. \A j \in 1..Len(counters) : counters[j].map = m => j = i
    BY <2>1, <2>2
  <2>5. /\ outstanding \in [Served -> Nat] /\ played \in [Served -> Nat] /\ NumGames \in Nat
        /\ finished \in Seq(Served)
    BY MapsTyped DEF Typed
  <2> QED
    BY <2>1, <2>2, <2>3, <2>4, <2>5
<1>2. counters[i].done = 1 /\ played[m] = NumGames - 1 /\ outstanding[m] = 1
  <2>1. counters[i].done = NumGames - played[m] /\ counters[i].left + outstanding[m] = counters[i].done
    BY <1>1 DEF Accounted
  <2>2. counters[i].left \in Nat /\ counters[i].done \in 1..NumGames /\ outstanding[m] \in Nat
        /\ played[m] \in Nat
    BY <1>1 DEF Counter
  <2> DEFINE d == counters[i].done
             f == counters[i].left
  <2> HIDE DEF d, f
  <2>3. d = 1 /\ played[m] = NumGames - 1 /\ outstanding[m] = 1
    BY <1>1, <2>1, <2>2 DEF d, f
  <2> QED
    BY <2>3 DEF d
<1>3. /\ outstanding'[m] = 0 /\ played'[m] = NumGames
      /\ \A l \in Served : l # m => outstanding'[l] = outstanding[l] /\ played'[l] = played[l]
  BY <1>1, <1>2 DEF Returned
<1>4. Range(finished') = Range(finished) \cup {m}
  <2>1. Len(finished) \in Nat /\ DOMAIN finished = 1..Len(finished)
    BY <1>1, LenProperties
  <2>2. /\ DOMAIN finished' = 1..Len(finished) + 1 /\ finished'[1] = m
        /\ \A k \in 1..Len(finished) : finished'[k + 1] = finished[k]
        /\ \A k \in 2..Len(finished) + 1 : finished'[k] = finished[k - 1]
    BY <1>1, Prepended
  <2>3. \A k \in 1..Len(finished) + 1 : k = 1 \/ (k \in 2..Len(finished) + 1 /\ k - 1 \in 1..Len(finished))
    BY <2>1
  <2>4. \A k \in 1..Len(finished) : k + 1 \in 1..Len(finished) + 1
    BY <2>1
  <2>5. \A v \in Range(finished') : v \in Range(finished) \cup {m}
    BY <2>1, <2>2, <2>3 DEF Range
  <2>6. ASSUME NEW v \in Range(finished)
        PROVE  v \in Range(finished')
    <3>1. PICK k \in 1..Len(finished) : v = finished[k]
      BY <2>1 DEF Range
    <3>2. k + 1 \in DOMAIN finished' /\ finished'[k + 1] = v
      BY <2>2, <2>4, <3>1
    <3> QED
      BY <3>2 DEF Range
  <2>7. m \in Range(finished')
    BY <2>1, <2>2 DEF Range
  <2> QED
    BY <2>5, <2>6, <2>7
<1>5. /\ Len(counters') = Len(counters) - 1
      /\ \A j \in 1..Len(counters') :
           counters'[j] = (IF j < i THEN counters[j] ELSE counters[j + 1])
  BY <1>1, CounterRemoved
<1>6. ASSUME NEW j \in 1..Len(counters')
      PROVE  /\ counters'[j].done = NumGames - played'[counters'[j].map]
             /\ counters'[j].left + outstanding'[counters'[j].map] = counters'[j].done
  <2>1. PICK l \in 1..Len(counters) : l # i /\ counters'[j] = counters[l]
    <3>1. /\ j < i => j \in 1..Len(counters) /\ j # i
          /\ ~ (j < i) => j + 1 \in 1..Len(counters) /\ j + 1 # i
      BY <1>1, <1>5
    <3> QED
      BY <1>5, <3>1
  <2>2. counters[l].map \in Served /\ counters[l].map # m
    BY <1>1, <2>1
  <2> QED
    BY <1>3, <2>1, <2>2 DEF Accounted
<1>7. ASSUME NEW l \in Served, Unknown(l)'
      PROVE  outstanding'[l] = 0 /\ played'[l] = IF l \in Range(finished') THEN NumGames ELSE 0
  <2>1. CASE l = m
    BY <1>3, <1>4, <2>1
  <2>2. CASE l # m
    <3>1. Unknown(l)
      <4> SUFFICES ASSUME NEW j \in 1..Len(counters), j # i PROVE counters[j].map # l
        BY <1>1, <2>2 DEF Unknown
      <4>1. /\ j < i => j \in 1..Len(counters')
            /\ ~ (j < i) => j - 1 \in 1..Len(counters') /\ ~ (j - 1 < i) /\ (j - 1) + 1 = j
        BY <1>1, <1>5
      <4>2. \E k \in 1..Len(counters') : counters'[k] = counters[j]
        BY <1>5, <4>1
      <4> QED
        BY <1>7, <4>2 DEF Unknown
    <3> QED
      BY <1>3, <1>4, <2>2, <3>1 DEF Accounted
  <2> QED
    BY <2>1, <2>2
<1> QED
  BY <1>6, <1>7 DEF Accounted

(* A game of m is handed out that there is.                                *)
Fair(m) == HandOut(m) /\ UNCHANGED played /\ played[m] + outstanding[m] < NumGames

(* A step that changes no container and no tally changes nothing of this.  *)
LEMMA NothingTold ==
  ASSUME InOrder, Accounted, UNCHANGED <<started, counters, finished, outstanding, played>>
  PROVE  InOrder' /\ Accounted' /\ UNCHANGED tallies
BY DEF InOrder, Accounted, Unknown, Keys, tallies

(* From a counter that has games left.                                     *)
LEMMA NiceActiveMap ==
  ASSUME Typed, InOrder, Accounted, NEW m \in Served, Open(m),
         \E i \in Seen(m) : counters' = [counters EXCEPT ![i].left = @ - 1],
         HandOut(m), UNCHANGED <<started, finished, played>>
  PROVE  InOrder' /\ Accounted' /\ Fair(m)
<1>1. PICK i \in Seen(m) : counters' = [counters EXCEPT ![i].left = @ - 1]
  OBVIOUS
<1>2. /\ i \in 1..Len(counters) /\ counters[i].map = m /\ counters[i] \in Counter
      /\ counters[i].left > 0
  <2>1. i \in 1..Len(counters) /\ counters[i].map = m
    BY SeenCounter
  <2>2. PICK j \in Seen(m) : counters[j].left > 0
    BY DEF Open
  <2>3. i = j
    BY SeenCounter
  <2> QED
    BY <2>1, <2>2, <2>3, CountersTyped
<1>3. /\ counters[i].done = NumGames - played[m]
      /\ counters[i].left + outstanding[m] = counters[i].done
      /\ counters[i].left \in Nat /\ played[m] \in Nat /\ outstanding[m] \in Nat /\ NumGames \in Nat
  BY <1>2, MapsTyped DEF Accounted, Counter, Typed
<1>4. /\ outstanding'[m] = outstanding[m] + 1
      /\ \A l \in Served : l # m => outstanding'[l] = outstanding[l]
  BY DEF HandOut, Typed
<1> DEFINE c == [counters[i] EXCEPT !.left = @ - 1]
           f == counters[i].left
<1>5. /\ c \in Counter /\ c.map = m /\ c.done = counters[i].done /\ c.left = f - 1
  <2>1. counters[i].left - 1 \in Nat
    BY <1>2, <1>3
  <2> QED
    BY <1>2, <2>1, NumberSet
<1>6. counters' = Changed(i, c)
  BY <1>1 DEF Changed
<1> HIDE DEF c, f
<1>7. c.left + outstanding'[m] = c.done /\ c.done = NumGames - played'[m]
  BY <1>3, <1>4, <1>5 DEF f
<1>8. Accounted' /\ Keys(counters') = Keys(counters)
  BY <1>4, <1>5, <1>6, <1>7, AccountChanged
<1>9. counters # <<>> /\ counters' # <<>>
  <2>1. Len(counters) # 0 /\ counters \in Seq(Counter)
    BY <1>2 DEF Typed
  <2>2. Len(counters') = Len(counters)
    BY <1>6
  <2> QED
    BY <2>1, <2>2
<1>10. InOrder'
  BY <1>8, <1>9 DEF InOrder
<1>11. played[m] + outstanding[m] < NumGames
  BY <1>2, <1>3
<1> QED
  BY <1>8, <1>10, <1>11 DEF Fair

(* From a new counter: the second map, of which no game is out or was      *)
(* played.                                                                 *)
LEMMA NiceEmplace ==
  ASSUME Typed, InOrder, Accounted, started, Len(Maps) = 2, First # Second,
         First \in Served, Second \in Served,
         \/ Keys(counters) = <<First>> /\ finished = <<>>
         \/ Keys(counters) = <<>> /\ finished = <<First>>,
         counters' = Emplace(counters, Second), HandOut(Second),
         UNCHANGED <<started, finished, played>>
  PROVE  InOrder' /\ Accounted' /\ Fair(Second)
<1> DEFINE x == First
           y == Second
<1>1. counters' = <<NewCounter(y)>> \o counters
  <2>1. ~ Collides(<<>>, y)
    BY DEF Collides
  <2>2. ~ Collides(<<x>>, y)
    <3>1. Root(<<x>>) = 1 /\ <<x>>[1] = x
      BY DEF Root
    <3> QED
      BY <3>1 DEF Collides, Less
  <2> HIDE DEF x, y
  <2>3. ~ Collides(Keys(counters), y)
    BY <2>1, <2>2 DEF x
  <2> QED
    BY <2>3 DEF Emplace, y
<1>2. Unknown(y) /\ y \notin Range(finished)
  <2>1. Keys(counters) = <<x>> => Len(counters) = 1 /\ counters[1].map = x
    BY FewKeys
  <2>2. Keys(counters) = <<>> => Len(counters) = 0
    BY FewKeys
  <2>3. y \notin Range(<<>>) /\ y \notin Range(<<x>>)
    BY DEF Range
  <2> HIDE DEF x, y
  <2> QED
    BY <2>1, <2>2, <2>3 DEF Unknown, x, y
<1>3. /\ Accounted' /\ Keys(counters') = <<y>> \o Keys(counters)
      /\ played[y] + outstanding[y] < NumGames
  BY <1>1, <1>2, AccountAdded
<1>4. <<y>> \o <<>> = <<y>> /\ <<y>> \o <<x>> = <<y, x>>
  BY PrependToFew
<1>5. InOrder'
  BY <1>3, <1>4 DEF InOrder
<1> QED
  BY <1>3, <1>5 DEF Fair

(* generateGame among nice clients hands out only games there are.         *)
LEMMA NiceGenerate ==
  ASSUME Len(Maps) <= 2, Typed, InOrder, Accounted, NEW o \in Offers, GenerateGame(o), nice'
  PROVE  InOrder' /\ Accounted' /\ (UNCHANGED tallies \/ \E m \in Served : Fair(m))
<1> DEFINE cm == CommonMaps(o)
           usable == UsableMaps(cm)
<1>1. Nice(o) /\ UNCHANGED <<finished, played>>
  BY DEF GenerateGame
<1>2. \/ Return(FALSE)
      \/ cm # <<>> /\ GenerateActiveMap(cm)
      \/ cm # <<>> /\ GenerateActiveMatchup(usable)
      \/ cm # <<>> /\ GenerateNewMatchup(cm)
  BY DEF GenerateGame
<1>3. /\ First \in Served /\ Second \in Served
      /\ (Len(Maps) = 1 /\ cm = <<First>>)
         \/ (Len(Maps) = 2 /\ cm = <<First, Second>> /\ First # Second)
  BY <1>1, FirstAndSecond, NiceCommon
<1> HIDE DEF cm, usable
<1>4. ASSUME NEW ok, Return(ok)
      PROVE  InOrder' /\ Accounted' /\ UNCHANGED tallies
  BY <1>1, <1>4, NothingTold DEF Return
<1>5. CASE cm # <<>> /\ GenerateActiveMap(cm)
  <2>1. PICK k \in DOMAIN cm :
          /\ Open(cm[k])
          /\ \E i \in Seen(cm[k]) : counters' = [counters EXCEPT ![i].left = @ - 1]
          /\ HandOut(cm[k])
          /\ UNCHANGED <<started, aborted>>
    BY <1>5 DEF GenerateActiveMap
  <2>2. cm[k] \in Served
    BY CommonMapsTyped, LenProperties DEF cm
  <2> QED
    BY <1>1, <2>1, <2>2, NiceActiveMap
<1>6. CASE cm # <<>> /\ GenerateActiveMatchup(usable)
  <2>1. started /\ usable # <<>>
    BY <1>6 DEF GenerateActiveMatchup
  <2>2. /\ usable = <<Second>> /\ Len(Maps) = 2
        /\ \/ Keys(counters) = <<First>> /\ finished = <<>>
           \/ Keys(counters) = <<>> /\ finished = <<First>>
    BY <1>1, <2>1, NiceUsable DEF usable, cm
  <2>3. Head(usable) = Second
    BY <2>2
  <2>4. CASE AssertFails
    BY <1>1, <2>4, NothingTold DEF AssertFails
  <2>5. CASE /\ counters' = Emplace(counters, Second) /\ HandOut(Second)
             /\ UNCHANGED <<started, aborted>>
    <3>1. First # Second
      BY <1>3, <2>2
    <3>2. InOrder' /\ Accounted' /\ Fair(Second)
      BY <1>1, <1>3, <2>1, <2>2, <2>5, <3>1, NiceEmplace
    <3> QED
      BY <1>3, <3>2
  <2> QED
    BY <1>6, <2>3, <2>4, <2>5 DEF GenerateActiveMatchup
<1>7. CASE /\ cm # <<>> /\ ~ started
           /\ started' = TRUE
           /\ counters' = Emplace(<<>>, Head(cm))
           /\ HandOut(Head(cm))
  <2> DEFINE x == First
  <2>1. Head(cm) = x
    BY <1>3
  <2>2. counters = <<>> /\ finished = <<>>
    BY <1>7 DEF InOrder
  <2>3. Keys(<<>>) = <<>>
    BY DEF Keys
  <2>4. counters' = <<NewCounter(x)>> \o counters
    BY <1>7, <2>1, <2>2, <2>3 DEF Emplace, Collides
  <2>5. Unknown(x) /\ x \notin Range(finished)
    BY <2>2 DEF Unknown, Range
  <2> HIDE DEF x
  <2>6. x \in Served /\ HandOut(x)
    BY <1>3, <1>7, <2>1 DEF x
  <2>7. /\ Accounted' /\ Keys(counters') = <<x>> \o Keys(counters)
        /\ played[x] + outstanding[x] < NumGames
    BY <1>1, <2>4, <2>5, <2>6, AccountAdded
  <2>8. Keys(counters') = <<x>>
    BY <2>2, <2>3, <2>7, PrependToFew
  <2>9. InOrder'
    BY <1>1, <1>7, <2>2, <2>8 DEF InOrder, x
  <2> QED
    BY <1>1, <2>6, <2>7, <2>9 DEF Fair
<1> QED
  BY <1>2, <1>4, <1>5, <1>6, <1>7 DEF GenerateNewMatchup

(* A counter is changed that was seen: the order stays. *)
LEMMA OrderKept ==
  ASSUME InOrder, counters # <<>>, counters' # <<>>, Keys(counters') = Keys(counters),
         UNCHANGED <<started, finished>>
  PROVE  InOrder'
BY DEF InOrder

(* The account of the counter a lookup comes to.                           *)
LEMMA SeenAccount ==
  ASSUME Typed, Accounted, NEW m \in Served, NEW i \in Seen(m)
  PROVE  /\ i \in 1..Len(counters) /\ counters[i].map = m /\ counters[i] \in Counter
         /\ counters[i].done = NumGames - played[m]
         /\ counters[i].left + outstanding[m] = counters[i].done
         /\ counters[i].left \in Nat /\ counters[i].done \in 1..NumGames
         /\ played[m] \in Nat /\ outstanding[m] \in Nat /\ NumGames \in Nat
         /\ counters # <<>> /\ counters \in Seq(Counter)
<1>1. i \in 1..Len(counters) /\ counters[i].map = m
  BY SeenCounter
<1>2. counters[i] \in Counter
  BY <1>1, CountersTyped
<1>3. counters # <<>> /\ counters \in Seq(Counter)
  BY <1>1 DEF Typed
<1>4. played[m] \in Nat /\ outstanding[m] \in Nat /\ NumGames \in Nat
  BY MapsTyped DEF Typed
<1>5. /\ counters[i].done = NumGames - played[m]
      /\ counters[i].left + outstanding[m] = counters[i].done
  BY <1>1 DEF Accounted
<1> QED
  BY <1>1, <1>2, <1>3, <1>4, <1>5 DEF Counter

(* A counter that is changed is still there.                               *)
LEMMA ChangedNotEmpty ==
  ASSUME counters \in Seq(Counter), counters # <<>>, NEW i \in 1..Len(counters), NEW c \in Counter,
         counters' = Changed(i, c)
  PROVE  counters' # <<>>
<1>1. Len(counters) # 0 /\ Len(counters') = Len(counters)
  BY DEF Changed
<1> QED
  BY <1>1

(* notifyGenerationFail among nice clients gives back a game that is out.  *)
LEMMA NiceFail ==
  ASSUME Typed, InOrder, Accounted, NEW m \in Served, NotifyFail(m)
  PROVE  /\ InOrder' /\ Accounted'
         /\ UNCHANGED tallies \/ (outstanding[m] > 0 /\ Returned(m) /\ UNCHANGED played)
<1>1. CASE AssertFails /\ UNCHANGED <<finished, played, nice>>
  BY <1>1, NothingTold DEF AssertFails
<1>2. CASE /\ \E i \in Seen(m) : counters' = [counters EXCEPT ![i].left = @ + 1]
           /\ Returned(m)
           /\ UNCHANGED <<started, finished, reply, aborted, played, nice>>
  <2>1. PICK i \in Seen(m) : counters' = [counters EXCEPT ![i].left = @ + 1]
    BY <1>2
  <2>2. /\ i \in 1..Len(counters) /\ counters[i].map = m /\ counters[i] \in Counter
        /\ counters[i].done = NumGames - played[m]
        /\ counters[i].left + outstanding[m] = counters[i].done
        /\ counters[i].left \in Nat /\ outstanding[m] \in Nat
        /\ counters # <<>> /\ counters \in Seq(Counter)
    BY SeenAccount
  <2> DEFINE c == [counters[i] EXCEPT !.left = @ + 1]
             f == counters[i].left
  <2>3. c \in Counter /\ c.map = m /\ c.done = counters[i].done /\ c.left = f + 1
    <3>1. counters[i].left + 1 \in Nat
      BY <2>2
    <3> QED
      BY <2>2, <3>1, NumberSet
  <2>4. counters' = Changed(i, c)
    BY <2>1 DEF Changed
  <2> HIDE DEF c, f
  <2>5. /\ outstanding'[m] = outstanding[m] - 1
        /\ \A l \in Served : l # m => outstanding'[l] = outstanding[l]
    BY <1>2 DEF Returned, Typed
  <2>6. c.left + outstanding'[m] = c.done /\ c.done = NumGames - played'[m]
    <3>1. played' = played /\ f \in Nat /\ f + outstanding[m] = counters[i].done
      BY <1>2, <2>2 DEF f
    <3>2. c.left + outstanding'[m] = f + outstanding[m]
      <4>1. \A o \in Nat : (f + 1) + (o - 1) = f + o
        BY <3>1
      <4>2. c.left + outstanding'[m] = (f + 1) + (outstanding[m] - 1)
        BY <2>3, <2>5, Zenon
      <4> QED
        BY <2>2, <4>1, <4>2, Zenon
    <3> QED
      BY <2>2, <2>3, <3>1, <3>2, Zenon
  <2>7. Accounted' /\ Keys(counters') = Keys(counters)
    BY <1>2, <2>3, <2>4, <2>5, <2>6, AccountChanged
  <2>8. counters' # <<>>
    BY <2>2, <2>3, <2>4, ChangedNotEmpty
  <2>9. InOrder'
    BY <1>2, <2>2, <2>7, <2>8, OrderKept
  <2> QED
    BY <1>2, <2>7, <2>9 DEF NotifyFail
<1> QED
  BY <1>1, <1>2 DEF NotifyFail

(* The maps of no counter or of one.                                       *)
LEMMA KeysOfFew ==
  ASSUME NEW cs \in Seq(Counter)
  PROVE  /\ Len(cs) = 0 => Keys(cs) = <<>>
         /\ Len(cs) = 1 => Keys(cs) = <<cs[1].map>>
<1>1. DOMAIN cs = 1..Len(cs)
  BY LenProperties
<1>2. ASSUME Len(cs) = 0 PROVE Keys(cs) = <<>>
  BY <1>2, EmptySeq DEF Keys
<1>3. ASSUME Len(cs) = 1 PROVE Keys(cs) = <<cs[1].map>>
  BY <1>1, <1>3 DEF Keys
<1> QED
  BY <1>2, <1>3

(* A map is finished in its turn. *)
LEMMA FinishedInOrder ==
  ASSUME Len(Maps) <= 2, Typed, InOrder, NEW m \in Served, NEW i \in Seen(m),
         finished' = Insert(finished, m), counters' = RemoveAt(counters, i), UNCHANGED started
  PROVE  InOrder' /\ finished' = <<m>> \o finished
<1> DEFINE x == First
           y == Second
<1>1. i \in 1..Len(counters) /\ counters[i].map = m /\ (Len(counters) >= 2 => i # 1)
  BY SeenCounter
<1>2. /\ counters' \in Seq(Counter) /\ Len(counters') = Len(counters) - 1
      /\ \A j \in 1..Len(counters') : counters'[j] = (IF j < i THEN counters[j] ELSE counters[j + 1])
  BY <1>1, CounterRemoved
<1>3. Len(Maps) = 2 => x # y
  BY FirstAndSecond
<1>4. Insert(<<>>, m) = <<m>>
  BY PrependToFew DEF Insert, Collides
<1>5. started
  <2>1. counters # <<>>
    BY <1>1
  <2> QED
    BY <2>1 DEF InOrder
<1> HIDE DEF x, y
<1>6. CASE Keys(counters) = <<x>> /\ finished = <<>>
  <2>1. Len(counters) = 1 /\ counters[1].map = x
    BY <1>6, FewKeys
  <2>2. m = x /\ Len(counters') = 0
    BY <1>1, <1>2, <2>1
  <2>3. Keys(counters') = <<>>
    BY <1>2, <2>2, KeysOfFew
  <2> QED
    BY <1>4, <1>5, <1>6, <2>2, <2>3, PrependToFew DEF InOrder, x
<1>7. CASE Len(Maps) = 2 /\ Keys(counters) = <<y, x>> /\ finished = <<>>
  <2>1. Len(counters) = 2 /\ counters[1].map = y /\ counters[2].map = x
    BY <1>7, FewKeys
  <2>2. i = 2 /\ m = x /\ Len(counters') = 1
    BY <1>1, <1>2, <2>1
  <2>3. counters'[1] = counters[1]
    BY <1>2, <2>2
  <2>4. Keys(counters') = <<y>>
    BY <1>2, <2>1, <2>2, <2>3, KeysOfFew
  <2> QED
    BY <1>4, <1>5, <1>7, <2>2, <2>4, PrependToFew DEF InOrder, x, y
<1>8. CASE Len(Maps) = 2 /\ Keys(counters) = <<y>> /\ finished = <<x>>
  <2>1. Len(counters) = 1 /\ counters[1].map = y
    BY <1>8, FewKeys
  <2>2. m = y /\ Len(counters') = 0
    BY <1>1, <1>2, <2>1
  <2>3. Keys(counters') = <<>>
    BY <1>2, <2>2, KeysOfFew
  <2>4. Insert(<<x>>, y) = <<y>> \o <<x>>
    <3>1. Root(<<x>>) = 1 /\ <<x>>[1] = x
      BY DEF Root
    <3>2. ~ Collides(<<x>>, y)
      BY <1>3, <1>8, <3>1 DEF Collides, Less
    <3> QED
      BY <3>2 DEF Insert
  <2>5. finished' = <<y, x>>
    BY <1>8, <2>2, <2>4, PrependToFew
  <2> QED
    BY <1>5, <1>8, <2>2, <2>3, <2>4, <2>5 DEF InOrder, x, y
<1>9. Keys(counters) # <<>>
  <2>1. Len(counters) # 0
    BY <1>1
  <2> QED
    BY <2>1, FewKeys
<1> QED
  BY <1>5, <1>6, <1>7, <1>8, <1>9 DEF InOrder, x, y

(* notifySuccess among nice clients plays a game that is out.              *)
LEMMA NiceSuccess ==
  ASSUME Len(Maps) <= 2, Typed, InOrder, Accounted, NEW m \in Served, NotifySuccess(m)
  PROVE  /\ InOrder' /\ Accounted'
         /\ \/ UNCHANGED tallies
            \/ outstanding[m] > 0 /\ Returned(m) /\ played' = [played EXCEPT ![m] = @ + 1]
<1>1. CASE AssertFails /\ UNCHANGED <<finished, played, nice>>
  BY <1>1, NothingTold DEF AssertFails
<1>2. CASE /\ \E i \in Seen(m) : Count(m, i)
           /\ Returned(m)
           /\ played' = [played EXCEPT ![m] = @ + 1]
           /\ UNCHANGED <<started, reply, aborted, nice>>
  <2>1. PICK i \in Seen(m) : Count(m, i)
    BY <1>2
  <2>2. /\ i \in 1..Len(counters) /\ counters[i].map = m /\ counters[i] \in Counter
        /\ counters[i].done = NumGames - played[m]
        /\ counters[i].left + outstanding[m] = counters[i].done
        /\ counters[i].left \in Nat /\ counters[i].done \in 1..NumGames
        /\ played[m] \in Nat /\ outstanding[m] \in Nat /\ NumGames \in Nat
        /\ counters # <<>> /\ counters \in Seq(Counter)
    BY SeenAccount
  <2>3. /\ outstanding'[m] = outstanding[m] - 1 /\ played'[m] = played[m] + 1
        /\ \A l \in Served : l # m => outstanding'[l] = outstanding[l] /\ played'[l] = played[l]
    BY <1>2 DEF Returned, Typed
  <2>4. CASE /\ counters[i].done > 1 /\ counters' = [counters EXCEPT ![i].done = @ - 1]
             /\ UNCHANGED finished
    <3> DEFINE c == [counters[i] EXCEPT !.done = @ - 1]
               d == counters[i].done
               f == counters[i].left
    <3>1. c \in Counter /\ c.map = m /\ c.done = d - 1 /\ c.left = f
      <4>1. d \in 1..NumGames /\ d > 1 /\ NumGames \in Nat
        BY <2>2, <2>4
      <4>2. d - 1 \in 1..NumGames
        <5> HIDE DEF d
        <5> QED
          BY <4>1
      <4> QED
        BY <2>2, <4>2, NumberSet
    <3>2. counters' = Changed(i, c) /\ UNCHANGED finished
      BY <2>4 DEF Changed
    <3>3. /\ d \in Nat /\ f \in Nat /\ d = NumGames - played[m] /\ f + outstanding[m] = d
          /\ played[m] \in Nat /\ outstanding[m] \in Nat /\ NumGames \in Nat
      BY <2>2
    <3> HIDE DEF c, d, f
    <3>4. c.left + outstanding'[m] = c.done /\ c.done = NumGames - played'[m]
      <4>1. outstanding'[m] = outstanding[m] - 1 /\ played'[m] = played[m] + 1
        BY <2>3
      <4>2. f + (outstanding[m] - 1) = d - 1 /\ d - 1 = NumGames - (played[m] + 1)
        BY <3>3
      <4> QED
        BY <3>1, <4>1, <4>2
    <3>5. Accounted' /\ Keys(counters') = Keys(counters)
      <4>1. \A l \in Served : l # m => outstanding'[l] = outstanding[l] /\ played'[l] = played[l]
        BY <2>3
      <4>2. c \in Counter /\ c.map = m
        BY <3>1
      <4> QED
        BY <3>2, <3>4, <4>1, <4>2, AccountChanged
    <3>6. counters' # <<>>
      BY <2>2, <3>1, <3>2, ChangedNotEmpty
    <3>7. InOrder'
      BY <1>2, <2>2, <3>2, <3>5, <3>6, OrderKept
    <3> QED
      BY <1>2, <3>5, <3>7 DEF NotifySuccess
  <2>5. CASE /\ ~ (counters[i].done > 1)
             /\ finished' = Insert(finished, m) /\ counters' = RemoveAt(counters, i)
    <3>1. InOrder' /\ finished' = <<m>> \o finished
      BY <1>2, <2>5, FinishedInOrder
    <3>2. outstanding[m] > 0
      BY DEF NotifySuccess
    <3>3. Accounted'
      BY <1>2, <2>5, <3>1, <3>2, AccountClosed
    <3> QED
      BY <1>2, <3>1, <3>2, <3>3
  <2> QED
    BY <2>1, <2>4, <2>5 DEF Count
<1> QED
  BY <1>1, <1>2 DEF NotifySuccess

---------------------------------------------------------------------------
(* The promise. *)

(* The games of Tournament when there is one matchup.                      *)
Pairings == [bot0 : {0}, bot1 : {1}, map : Served]
(* A tally of maps as one of games.                                        *)
Over(f) == [g \in Pairings |-> f[g.map]]

(* What is done to the tally of a map is done to that of its one pairing. *)
LEMMA OverExcept ==
  ASSUME NEW f \in [Served -> Nat], NEW v, NEW g \in Pairings
  PROVE  /\ Over([f EXCEPT ![g.map] = v]) = [Over(f) EXCEPT ![g] = v]
         /\ Over(f)[g] = f[g.map]
<1> DEFINE m == g.map
           h == [f EXCEPT ![m] = v]
<1>1. /\ m \in Served /\ h[m] = v /\ \A l \in Served : l # m => h[l] = f[l]
      /\ \A p \in Pairings : p.map \in Served /\ (p.map = m => p = g)
  BY DEF Pairings
<1> HIDE DEF m, h
<1>2. \A p \in Pairings : h[p.map] = IF p = g THEN v ELSE f[p.map]
  BY <1>1 DEF m
<1>3. Over(h) = [p \in Pairings |-> h[p.map]]
  BY DEF Over
<1>4. [Over(f) EXCEPT ![g] = v] = [p \in Pairings |-> IF p = g THEN v ELSE f[p.map]]
  BY DEF Over
<1>5. Over(h) = [Over(f) EXCEPT ![g] = v]
  BY <1>2, <1>3, <1>4
<1>6. Over(f)[g] = f[m]
  BY DEF Over, m
<1> QED
  BY <1>5, <1>6 DEF m, h

(* They are the games of the instance, one for each map.                   *)
LEMMA PairingsAreGames ==
  /\ Promise!Games = Pairings
  /\ \A m \in Served : \E g \in Pairings : g.map = m
<1>1. ASSUME NEW g \in Promise!Games
      PROVE  g \in Pairings
  <2>1. g \in [bot0 : {0, 1}, bot1 : {0, 1}, map : Served] /\ g.bot0 < g.bot1
    BY DEF Promise!Games
  <2>2. g.bot0 = 0 /\ g.bot1 = 1
    BY <2>1
  <2> QED
    BY <2>1, <2>2 DEF Pairings
<1>2. ASSUME NEW g \in Pairings
      PROVE  g \in Promise!Games
  BY DEF Pairings, Promise!Games
<1>3. \A m \in Served : [bot0 |-> 0, bot1 |-> 1, map |-> m] \in Pairings
  BY DEF Pairings
<1> QED
  BY <1>1, <1>2, <1>3

(* A nice step does to the tallies what the promise allows. *)
LEMMA FairHandOut ==
  ASSUME Typed, NEW m \in Served, Fair(m)
  PROVE  Promise!Next
<1>1. PICK g \in Pairings : g.map = m
  BY PairingsAreGames
<1>2. /\ outstanding \in [Served -> Nat] /\ played \in [Served -> Nat]
      /\ outstanding' = [outstanding EXCEPT ![m] = outstanding[m] + 1]
      /\ played' = played
      /\ played[m] + outstanding[m] < NumGames
  BY DEF Typed, Fair, HandOut
<1>3. /\ Over(outstanding') = [Over(outstanding) EXCEPT ![g] = outstanding[m] + 1]
      /\ Over(outstanding)[g] = outstanding[m]
  <2> DEFINE v == outstanding[m] + 1
  <2>1. outstanding' = [outstanding EXCEPT ![g.map] = v]
    BY <1>1, <1>2
  <2> HIDE DEF v
  <2>2. /\ Over([outstanding EXCEPT ![g.map] = v]) = [Over(outstanding) EXCEPT ![g] = v]
        /\ Over(outstanding)[g] = outstanding[g.map]
    BY <1>2, OverExcept
  <2> QED
    BY <1>1, <2>1, <2>2 DEF v
<1>4. Over(played') = Over(played) /\ Over(played)[g] = played[m]
  BY <1>1, <1>2 DEF Over
<1>5. g \in Promise!Games
  BY PairingsAreGames
<1> DEFINE o == [bots |-> {0, 1}, maps |-> Served]
<1>6. Promise!Owns(o, g)
  BY DEF Promise!Owns, Pairings
<1>7. Promise!HandOut(o, g)
  BY <1>2, <1>3, <1>4, <1>6 DEF Promise!HandOut, Over, Pairings
<1> QED
  BY <1>5, <1>7 DEF Promise!Next

(* A game that is given back, played or not, is one that was out.          *)
LEMMA FairReturn ==
  ASSUME Typed, NEW m \in Served, outstanding[m] > 0, Returned(m),
         UNCHANGED played \/ played' = [played EXCEPT ![m] = @ + 1]
  PROVE  Promise!Next
<1>1. PICK g \in Pairings : g.map = m
  BY PairingsAreGames
<1>2. /\ outstanding \in [Served -> Nat] /\ played \in [Served -> Nat]
      /\ outstanding' = [outstanding EXCEPT ![m] = outstanding[m] - 1]
  BY DEF Typed, Returned
<1>3. /\ Over(outstanding') = [Over(outstanding) EXCEPT ![g] = outstanding[m] - 1]
      /\ Over(outstanding)[g] = outstanding[m]
  <2> DEFINE v == outstanding[m] - 1
  <2>1. outstanding' = [outstanding EXCEPT ![g.map] = v]
    BY <1>1, <1>2
  <2> HIDE DEF v
  <2>2. /\ Over([outstanding EXCEPT ![g.map] = v]) = [Over(outstanding) EXCEPT ![g] = v]
        /\ Over(outstanding)[g] = outstanding[g.map]
    BY <1>2, OverExcept
  <2> QED
    BY <1>1, <2>1, <2>2 DEF v
<1>4. g \in Promise!Games
  BY PairingsAreGames
<1>5. CASE UNCHANGED played
  <2>1. Over(played') = Over(played)
    BY <1>5 DEF Over
  <2>2. Promise!Fail(g)
    BY <1>3, <2>1 DEF Promise!Fail, Over, Pairings
  <2> QED
    BY <1>4, <2>2 DEF Promise!Next
<1>6. CASE played' = [played EXCEPT ![m] = @ + 1]
  <2>1. /\ Over(played') = [Over(played) EXCEPT ![g] = played[m] + 1]
        /\ Over(played)[g] = played[m]
    <3> DEFINE v == played[m] + 1
    <3>1. played' = [played EXCEPT ![g.map] = v]
      BY <1>1, <1>6
    <3> HIDE DEF v
    <3>2. /\ Over([played EXCEPT ![g.map] = v]) = [Over(played) EXCEPT ![g] = v]
          /\ Over(played)[g] = played[g.map]
      BY <1>2, OverExcept
    <3> QED
      BY <1>1, <3>1, <3>2 DEF v
  <2>2. Promise!Succeed(g)
    BY <1>3, <2>1 DEF Promise!Succeed, Over, Pairings
  <2> QED
    BY <1>4, <2>2 DEF Promise!Next
<1> QED
  BY <1>5, <1>6

(* A step that keeps clients nice keeps the order and the account, and is  *)
(* one of the promise or none.                                             *)
LEMMA NiceStep ==
  ASSUME Len(Maps) <= 2, IInv, NiceInv, [Next]_vars, nice'
  PROVE  InOrder' /\ Accounted' /\ (Promise!Next \/ UNCHANGED tallies)
<1>1. Typed
  BY DEF IInv
<1>2. nice
  BY DEF Next, vars, GenerateGame, NotifySuccess, NotifyFail
<1>3. InOrder /\ Accounted
  BY <1>2 DEF NiceInv
<1>4. CASE UNCHANGED vars
  <2>1. UNCHANGED <<started, counters, finished, outstanding, played>>
    BY <1>4 DEF vars
  <2> QED
    BY <1>3, <2>1, NothingTold
<1>5. ASSUME NEW o \in Offers, GenerateGame(o)
      PROVE  InOrder' /\ Accounted' /\ (Promise!Next \/ UNCHANGED tallies)
  BY <1>1, <1>3, <1>5, NiceGenerate, FairHandOut
<1>6. ASSUME NEW m \in Served, NotifySuccess(m)
      PROVE  InOrder' /\ Accounted' /\ (Promise!Next \/ UNCHANGED tallies)
  BY <1>1, <1>3, <1>6, NiceSuccess, FairReturn
<1>7. ASSUME NEW m \in Served, NotifyFail(m)
      PROVE  InOrder' /\ Accounted' /\ (Promise!Next \/ UNCHANGED tallies)
  BY <1>1, <1>3, <1>7, NiceFail, FairReturn
<1> QED
  BY <1>4, <1>5, <1>6, <1>7 DEF Next

(* The order of things among nice clients, for one map or two. *)
THEOREM NiceInductive ==
  ASSUME Len(Maps) <= 2
  PROVE  Spec => []NiceInv
<1>1. Init => NiceInv
  <2> SUFFICES ASSUME Init PROVE InOrder /\ Accounted
    BY DEF NiceInv
  <2>1. InOrder
    BY DEF Init, InOrder
  <2>2. Range(finished) = {} /\ Len(counters) = 0
    BY DEF Init, Range
  <2>3. Accounted
    BY <2>2 DEF Init, Accounted
  <2> QED
    BY <2>1, <2>3
<1>2. IInv /\ NiceInv /\ [Next]_vars => NiceInv'
  BY NiceStep DEF NiceInv
<1> QED
  BY <1>1, <1>2, BuiltInductive, PTL DEF Spec

(* Among nice clients each game out has a counter that accounts for it.   *)
THEOREM NiceCountersKept ==
  ASSUME Len(Maps) <= 2
  PROVE  Spec => []NiceCounters
<1>1. IInv /\ NiceInv => NiceCounters
  <2> SUFFICES ASSUME IInv, InOrder, Accounted, NEW m \in Served
               PROVE  LET cs == {counters[i] : i \in FoundAnywhere(Keys(counters), m)}
                      IN /\ cs = {} => outstanding[m] = 0 /\ played[m] \in {0, NumGames}
                         /\ \A c \in cs : c.done = NumGames - played[m]
                                          /\ c.done - c.left = outstanding[m]
    BY DEF NiceInv, NiceCounters
  <2> DEFINE is == FoundAnywhere(Keys(counters), m)
             cs == {counters[i] : i \in is}
  <2>1. /\ Typed /\ DOMAIN Keys(counters) = 1..Len(counters)
        /\ \A i \in 1..Len(counters) : counters[i] \in Counter /\ Keys(counters)[i] = counters[i].map
    BY CountersTyped DEF IInv, Keys
  <2>2. is = {i \in 1..Len(counters) : counters[i].map = m}
    BY <2>1 DEF FoundAnywhere
  <2> HIDE DEF is
  <2>3. ASSUME cs = {}
        PROVE  outstanding[m] = 0 /\ played[m] \in {0, NumGames}
    <3>1. Unknown(m)
      BY <2>2, <2>3 DEF Unknown
    <3> QED
      BY <3>1 DEF Accounted
  <2>4. ASSUME NEW i \in is
        PROVE  counters[i].done = NumGames - played[m] /\ counters[i].done - counters[i].left = outstanding[m]
    <3> DEFINE d == counters[i].done
               f == counters[i].left
    <3>1. /\ d = NumGames - played[m] /\ f + outstanding[m] = d
          /\ d \in 1..NumGames /\ f \in Nat /\ outstanding[m] \in Nat /\ NumGames \in Nat
      BY <2>1, <2>2, MapsTyped DEF Accounted, Counter, Typed
    <3> HIDE DEF d, f
    <3>2. d = NumGames - played[m] /\ d - f = outstanding[m]
      BY <3>1
    <3> QED
      BY <3>2 DEF d, f
  <2> QED
    BY <2>3, <2>4 DEF is
<1> QED
  BY <1>1, BuiltInductive, NiceInductive, PTL

(* Among nice clients, with one map or two, the generator with the         *)
(* containers the build gets does to the tallies only what Tournament      *)
(* promises: no game is handed out that there is not.                      *)
THEOREM NicePromiseKept ==
  ASSUME Len(Maps) <= 2
  PROVE  Spec => NicePromise
<1>1. IInv /\ NiceInv /\ [Next]_vars => [nice' => Promise!Next \/ UNCHANGED tallies]_vars
  BY NiceStep
<1> QED
  BY <1>1, BuiltInductive, NiceInductive, PTL DEF Spec, NicePromise

===========================================================================
