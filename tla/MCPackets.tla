----------------------------- MODULE MCPackets -----------------------------
(* Narrow packets: bytes of five values, words and digests of two bytes.  *)
EXTENDS Packets

(* Digests that begin with a blank, end with one, or look like a count. *)
SomeHashes == {<<0, 1>>, <<2, 0>>, <<1, 2>>}

===========================================================================
