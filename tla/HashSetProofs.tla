---------------------------- MODULE HashSetProofs ----------------------------
(***************************************************************************)
(* What HashSet guarantees for any universe of digests.  The invariant is  *)
(* about each set on its own: up to three nodes lie on the left spine or   *)
(* are reached on the way down it before the last one is inserted, so a    *)
(* digest that is there is met again; with the fourth it may be missed.    *)
(***************************************************************************)
EXTENDS HashSet, Foundations

(* A set is typed and holds these digests, each once until it is full.     *)
Holds(set, digests) ==
  /\ set \in Seq(Hashes) /\ Len(set) <= MaxNodes
  /\ Range(set) = digests
  /\ Len(set) < MaxNodes => Unique(set)

(* Both sides' sets hold what was read into them.                          *)
SetsHold == Holds(bots, ours) /\ Holds(cBots, theirs)

(* An insert adds the digest, or finds it where the descent comes. *)
LEMMA InsertHolds ==
  ASSUME NEW set, NEW digests, NEW h \in Hashes, Holds(set, digests), Len(set) < MaxNodes
  PROVE  Holds(Insert(set, h), digests \cup {h})
<1> USE DEF MaxNodes
<1>1. /\ set \in Seq(Hashes) /\ Len(set) \in 0..3 /\ DOMAIN set = 1..Len(set)
      /\ Range(set) = digests /\ Unique(set)
  <2>1. set \in Seq(Hashes) /\ Len(set) < 4 /\ Range(set) = digests /\ Unique(set)
    BY DEF Holds
  <2>2. Len(set) \in Nat /\ DOMAIN set = 1..Len(set)
    BY <2>1, LenProperties
  <2>3. Len(set) \in 0..3
    BY <2>1, <2>2
  <2> QED
    BY <2>1, <2>2, <2>3
<1>2. CASE Collides(set, h)
  <2>1. h \in Range(set)
    <3>1. set # <<>> /\ \E i \in 1..Root(set) : h = set[i]
      BY <1>2 DEF Collides, Less
    <3>2. Len(set) \in 1..3
      BY <1>1, <3>1, EmptySeq
    <3>3. Root(set) <= Len(set) /\ Root(set) \in Nat
      <4>1. <<1, 2, 2, 3>>[1] = 1 /\ <<1, 2, 2, 3>>[2] = 2 /\ <<1, 2, 2, 3>>[3] = 2
        OBVIOUS
      <4>2. Len(set) = 1 \/ Len(set) = 2 \/ Len(set) = 3
        BY <3>2
      <4>3. Root(set) = <<1, 2, 2, 3>>[Len(set)]
        BY DEF Root
      <4>4. \/ Len(set) = 1 /\ Root(set) = 1
            \/ Len(set) = 2 /\ Root(set) = 2
            \/ Len(set) = 3 /\ Root(set) = 2
        BY <4>1, <4>2, <4>3, Zenon
      <4>5. 1 <= 1 /\ 2 <= 2 /\ 2 <= 3 /\ 1 \in Nat /\ 2 \in Nat
        OBVIOUS
      <4> QED
        BY <4>4, <4>5, Zenon
    <3>4. \A i \in 1..Root(set) : i \in 1..Len(set)
      BY <3>2, <3>3
    <3> QED
      BY <1>1, <3>1, <3>4, Zenon DEF Range
  <2> QED
    BY <1>1, <1>2, <2>1 DEF Holds, Insert
<1>3. CASE ~ Collides(set, h)
  <2> DEFINE new == <<h>> \o set
  <2>1. /\ new \in Seq(Hashes) /\ Len(new) = Len(set) + 1 /\ DOMAIN new = 1..Len(set) + 1
        /\ new[1] = h /\ \A i \in 1..Len(set) : new[i + 1] = set[i]
    BY <1>1
  <2>2. Range(new) = digests \cup {h}
    <3>1. \A i \in DOMAIN new : new[i] = h \/ \E j \in DOMAIN set : new[i] = set[j]
      <4> SUFFICES ASSUME NEW i \in 1..Len(set) + 1, i # 1
                   PROVE  \E j \in DOMAIN set : new[i] = set[j]
        BY <2>1
      <4>1. i - 1 \in 1..Len(set) /\ (i - 1) + 1 = i
        BY <1>1
      <4> QED
        BY <1>1, <2>1, <4>1
    <3>2. \A j \in DOMAIN set : j + 1 \in DOMAIN new /\ new[j + 1] = set[j]
      BY <1>1, <2>1
    <3>3. 1 \in DOMAIN new
      BY <1>1, <2>1
    <3> HIDE DEF new
    <3>4. \A x \in Range(new) : x \in Range(set) \cup {h}
      BY <3>1 DEF Range
    <3>5. \A x \in Range(set) : x \in Range(new)
      BY <3>2 DEF Range
    <3>6. h \in Range(new)
      BY <2>1, <3>3 DEF Range
    <3> QED
      BY <1>1, <3>4, <3>5, <3>6
  <2>3. Len(new) < MaxNodes => Unique(new)
    <3> SUFFICES ASSUME Len(set) \in 0..2
                 PROVE  Unique(new)
      BY <1>1, <2>1
    <3>1. \A i \in DOMAIN set : set[i] # h
      <4>1. set = <<>> \/ Root(set) = Len(set)
        BY <1>1, EmptySeq DEF Root
      <4> QED
        BY <1>1, <1>3, <4>1 DEF Collides, Less
    <3>2. \A i, j \in DOMAIN set : set[i] = set[j] => i = j
      BY <1>1 DEF Unique, IsInjective
    <3>3. ASSUME NEW i \in DOMAIN new, NEW j \in DOMAIN new, new[i] = new[j]
          PROVE  i = j
      <4>1. \A k \in DOMAIN new : k # 1 => k - 1 \in DOMAIN set /\ new[k] = set[k - 1]
        <5> SUFFICES ASSUME NEW k \in 1..Len(set) + 1, k # 1
                     PROVE  k - 1 \in DOMAIN set /\ new[k] = set[k - 1]
          BY <2>1
        <5>1. k - 1 \in 1..Len(set) /\ (k - 1) + 1 = k
          BY <1>1
        <5> QED
          BY <1>1, <2>1, <5>1
      <4> QED
        BY <1>1, <2>1, <3>1, <3>2, <3>3, <4>1
    <3> QED
      BY <3>3 DEF Unique, IsInjective
  <2> QED
    BY <1>1, <1>3, <2>1, <2>2, <2>3 DEF Holds, Insert
<1> QED
  BY <1>2, <1>3

(* Both sets are empty at first.                                           *)
LEMMA SetsStart == Init => SetsHold
<1>1. /\ <<>> \in Seq(Hashes) /\ Len(<<>>) = 0 /\ DOMAIN <<>> = {} /\ Range(<<>>) = {}
      /\ Unique(<<>>)
  BY EmptySeq DEF Range, Unique, IsInjective
<1> QED
  BY <1>1 DEF Init, SetsHold, Holds, MaxNodes

(* A step inserts into one of the sets or into none.                       *)
LEMMA SetsStep == SetsHold /\ [Next]_vars => SetsHold'
<1> SUFFICES ASSUME SetsHold, [Next]_vars PROVE SetsHold'
  OBVIOUS
<1>1. ASSUME NEW h \in Hashes, InsertBot(h)
      PROVE  SetsHold'
  BY <1>1, InsertHolds DEF InsertBot, SetsHold, Holds
<1>2. ASSUME NEW h \in Hashes, InsertClientBot(h)
      PROVE  SetsHold'
  BY <1>2, InsertHolds DEF InsertClientBot, SetsHold, Holds
<1>3. CASE Intersect \/ UNCHANGED vars
  BY <1>3 DEF Intersect, vars, SetsHold, Holds
<1> QED
  BY <1>1, <1>2, <1>3 DEF Next

(* The invariant for the last botInter. *)
CommonHolds ==
  /\ ours \subseteq Hashes /\ theirs \subseteq Hashes
  /\ common \in Seq(Hashes) /\ Len(common) <= MaxNodes
  /\ CommonIsShared

(* Nothing is in common before a client says what it has.                  *)
LEMMA CommonStart == Init => CommonHolds
<1>1. <<>> \in Seq(Hashes) /\ Len(<<>>) = 0 /\ Range(<<>>) = {} /\ Unique(<<>>)
  BY EmptySeq DEF Range, Unique, IsInjective
<1> QED
  BY <1>1 DEF Init, CommonHolds, CommonIsShared, MaxNodes

(* botInter is made from the two sets as they are, and both only grow.     *)
LEMMA CommonStep == SetsHold /\ CommonHolds /\ [Next]_vars => CommonHolds'
<1> SUFFICES ASSUME SetsHold, CommonHolds, [Next]_vars PROVE CommonHolds'
  OBVIOUS
<1>1. ASSUME NEW h \in Hashes, InsertBot(h) \/ InsertClientBot(h)
      PROVE  CommonHolds'
  BY <1>1 DEF InsertBot, InsertClientBot, CommonHolds, CommonIsShared
<1>2. CASE Intersect
  <2>1. /\ bots \in Seq(Hashes) /\ Len(bots) <= MaxNodes /\ Range(bots) = ours
        /\ cBots \in Seq(Hashes) /\ Range(cBots) = theirs
    BY DEF SetsHold, Holds
  <2>2. /\ common' \in Seq(Hashes) /\ Len(common') <= Len(bots)
        /\ Range(common') \subseteq ours \cap theirs /\ Unique(common')
    BY <1>2, <2>1, IntersectionShared DEF Intersect
  <2>3. Len(common') <= MaxNodes
    BY <2>1, <2>2, LenProperties DEF MaxNodes
  <2> QED
    BY <1>2, <2>2, <2>3 DEF Intersect, CommonHolds, CommonIsShared
<1>3. CASE UNCHANGED vars
  BY <1>3 DEF vars, CommonHolds, CommonIsShared
<1> QED
  BY <1>1, <1>2, <1>3 DEF Next

(* Iterating a HashSet visits what was inserted, whatever the digests are, *)
(* and sets of up to three of them are sets.                               *)
THEOREM DigestsKept == Spec => []NoHashLost
<1>1. SetsHold => NoHashLost
  BY DEF SetsHold, Holds, NoHashLost
<1> QED
  BY <1>1, SetsStart, SetsStep, PTL DEF Spec

(* Type correctness: in particular no set ever outgrows what the model of  *)
(* the tree describes, the intersection included.                          *)
THEOREM SetsTyped == Spec => []TypeOK
<1>1. SetsHold /\ CommonHolds => TypeOK
  BY DEF SetsHold, Holds, CommonHolds, TypeOK
<1> QED
  BY <1>1, SetsStart, SetsStep, CommonStart, CommonStep, PTL DEF Spec

(* Whatever digests the two sides hold, and in whatever order, a bot that  *)
(* generateGame finds in common is in both sets, and it finds it once.     *)
THEOREM OnlySharedIsCommon == Spec => []CommonIsShared
<1>1. CommonHolds => CommonIsShared
  BY DEF CommonHolds
<1> QED
  BY <1>1, SetsStart, SetsStep, CommonStart, CommonStep, PTL DEF Spec

(* A client with the server's digests in the server's order has them all   *)
(* in common with it.                                                      *)
THEOREM SameFilesFound == Spec => []SameFilesMeet
<1>1. SetsHold => SameFilesMeet
  BY IntersectionOfSame DEF SetsHold, Holds, SameFilesMeet
<1> QED
  BY <1>1, SetsStart, SetsStep, PTL DEF Spec

===========================================================================
