------------------------------ MODULE HashSet ------------------------------
(***************************************************************************)
(* HashSet, the std::set of digests, for the set of the server's bots and  *)
(* that of a client's (the maps are treated alike), and generateGame's     *)
(* intersection of the two.  What the operations of such a set do is in    *)
(* module Containers.                                                      *)
(***************************************************************************)
EXTENDS Containers

CONSTANT Hashes

VARIABLES
  bots,     \* the server's HashSet
  cBots,    \* the client's HashSet
  common,   \* the last botInter
  ours,     \* every digest inserted into bots (history)
  theirs    \* every digest inserted into cBots (history)

vars == <<bots, cBots, common, ours, theirs>>

---------------------------------------------------------------------------
Init ==
  /\ bots = <<>> /\ cBots = <<>> /\ common = <<>>
  /\ ours = {} /\ theirs = {}

(* The constructor of GameGenerator, one file of the server's after another. *)
InsertBot(h) ==
  /\ Len(bots) < MaxNodes
  /\ bots' = Insert(bots, h)
  /\ ours' = ours \cup {h}
  /\ UNCHANGED <<cBots, common, theirs>>

(* readHandshake, one digest of the packet after another. *)
InsertClientBot(h) ==
  /\ Len(cBots) < MaxNodes
  /\ cBots' = Insert(cBots, h)
  /\ theirs' = theirs \cup {h}
  /\ UNCHANGED <<bots, common, ours>>

(* generateGame's first step.  When both sets hold a digest twice the      *)
(* inserts can overwrite a node, which is left out.                        *)
Intersect ==
  /\ Unique(bots) \/ Unique(cBots)
  /\ common' = Intersection(bots, cBots)
  /\ UNCHANGED <<bots, cBots, ours, theirs>>

Next ==
  \/ \E h \in Hashes : InsertBot(h)
  \/ \E h \in Hashes : InsertClientBot(h)
  \/ Intersect

Spec == Init /\ [][Next]_vars

---------------------------------------------------------------------------
(* Properties. *)

TypeOK ==
  /\ \A s \in {bots, cBots, common} :
       s \in Seq(Hashes) /\ Len(s) <= MaxNodes
  /\ ours \subseteq Hashes /\ theirs \subseteq Hashes

(* Whatever the comparison does, iterating a HashSet visits every digest   *)
(* inserted and no other, and a digest is kept twice only in a full set:   *)
(* sets of up to three digests are sets.  Of larger ones it is not true    *)
(* that the "hashes are unique" (sha256.h line 116): the descent of the    *)
(* fourth insert does not meet all of them.                                *)
NoHashLost ==
  /\ Range(bots) = ours /\ Range(cBots) = theirs
  /\ \A s \in {bots, cBots} : Len(s) < MaxNodes => Unique(s)

(* A client that has the server's files under names that sort alike sends  *)
(* the digests in the server's order, and then all of them are in common.  *)
SameFilesMeet ==
  bots = cBots /\ Unique(bots) => Range(Intersection(bots, cBots)) = ours

(* A client is never considered for a bot that it or the server lacks, and *)
(* never twice for the same bot.                                           *)
CommonIsShared == Unique(common) /\ Range(common) \subseteq ours \cap theirs

===========================================================================
