----------------------------- MODULE Containers -----------------------------
(***************************************************************************)
(* The associative containers of digests as the build gets them.  The      *)
(* functor CompareHashPtrFtor returns SHA256Hash::compare, -1, 0 or 1,     *)
(* where std::set and std::map want a bool: "comes before" is in truth     *)
(* "differs".  The tree operations of libstdc++ then do something definite *)
(* but different from an ordered container, and that is what this module   *)
(* says.                                                                   *)
(*                                                                         *)
(* A container is the sequence of its keys in iteration order.  A new key  *)
(* always becomes the leftmost node, so the shape of the tree, and with it *)
(* the position of the root, is a function of the size.                    *)
(***************************************************************************)
EXTENDS Integers, Sequences, SequencesExt

(* Up to this size every node left of the root is on its left spine, and   *)
(* every node right of it on its right spine.                              *)
MaxNodes == 4

(* Mistake: the pointers are compared, which always differ. *)
LessByPointer(h0, h1) == TRUE

(* CompareHashPtrFtor, converted to bool. *)
Less(h0, h1) == h0 # h1

Root(set) == <<1, 2, 2, 3>>[Len(set)]

(* The descent of insert goes left at every node that differs, so only the *)
(* left spine is compared.                                                 *)
Collides(set, h) == set # <<>> /\ \E i \in 1..Root(set) : ~ Less(h, set[i])

(* Mistake: no digest is ever refused. *)
InsertAlways(set, h) == <<h>> \o set

Insert(set, h) == IF Collides(set, h) THEN set ELSE <<h>> \o set

Unique(set) == IsInjective(set)

(* Mistake: std::set_union. *)
UnionOf(a, b) ==
  LET rest[i \in 1..Len(a) + 1] == [j \in 1..Len(b) + 1 |->
        IF i > Len(a) THEN Reverse(SubSeq(b, j, Len(b)))
        ELSE IF j > Len(b) THEN Reverse(SubSeq(a, i, Len(a)))
        ELSE Append(rest[i + 1][IF Less(a[i], b[j]) THEN j ELSE j + 1], a[i])]
  IN rest[1][1]

(* Mistake: what is copied is what was skipped. *)
IntersectionOfSkipped(a, b) ==
  LET rest[i \in 1..Len(a) + 1] == [j \in 1..Len(b) + 1 |->
        IF i > Len(a) \/ j > Len(b) THEN <<>>
        ELSE IF Less(a[i], b[j]) THEN Append(rest[i + 1][j], a[i])
        ELSE rest[i + 1][j + 1]]
  IN rest[1][1]

(* std::set_intersection into an empty HashSet: a digest of a that differs *)
(* from the current one of b is skipped, one that equals it is inserted in *)
(* front of those found before.                                            *)
Intersection(a, b) ==
  LET rest[i \in 1..Len(a) + 1] == [j \in 1..Len(b) + 1 |->
        IF i > Len(a) \/ j > Len(b) THEN <<>>
        ELSE IF Less(a[i], b[j]) THEN rest[i + 1][j]
        ELSE Append(rest[i + 1][j + 1], a[i])]
  IN rest[1][1]

(* Mistake: what b holds is not taken away. *)
DifferenceOfNothing(a, b) == Reverse(a)

(* std::set_difference into an empty HashSet: digests of a are copied,     *)
(* each in front of those before it, up to one that equals the current one *)
(* of b, where both are skipped.                                           *)
Difference(a, b) ==
  LET rest[i \in 1..Len(a) + 1] == [j \in 1..Len(b) + 1 |->
        IF i > Len(a) THEN <<>>
        ELSE IF j > Len(b) \/ Less(a[i], b[j]) THEN Append(rest[i + 1][j], a[i])
        ELSE rest[i + 1][j + 1]]
  IN rest[1][1]

(* Mistake: what an ordered container would find. *)
FoundAnywhere(set, h) == {i \in DOMAIN set : set[i] = h}

(* Where find(h) comes out: it goes right at every node that differs, and  *)
(* so reaches the root and its right spine only.                           *)
Found(set, h) == {i \in DOMAIN set : i >= Root(set) /\ ~ Less(set[i], h)}

(* The first key that find meets. *)
Find(set, h) == Min(Found(set, h))

(* What erase(h) takes away (equal_range): what is found and, if the root  *)
(* is, the run of equal keys that ends there.                              *)
Erased(set, h) ==
  {i \in DOMAIN set : ~ Less(set[i], h) /\ \A j \in i..Root(set) : ~ Less(set[j], h)}

===========================================================================
