----------------------------- MODULE MCStartup -----------------------------
(* Short command lines and small files for Startup. *)
EXTENDS Startup

(* Directories "xy", "y" and "bots".  *)
Directories ==
  <<"x", "y">> :> {[path |-> "x1", ext |-> ".so"], [path |-> "x2", ext |-> ".so"],
                   [path |-> "x3", ext |-> ".SC2Map"]}
  @@ <<"y">> :> {[path |-> "y1", ext |-> ".SC2Map"], [path |-> "y2", ext |-> "other"]}
  @@ <<"bots">> :> {[path |-> "b1", ext |-> ".so"]}

(* Arguments in every form: names with one dash and two, values, values    *)
(* that begin with a name, and names with a sign and two, one or no        *)
(* letters behind it.                                                      *)
Arguments ==
  {<<"-", "-", "bots">>, <<"-", "bots">>, <<"-", "-", "maps">>,
   <<"x", "y">>, <<"y">>, <<"bots">>, <<"bots", "x">>, <<"maps">>,
   <<"-", "-", "bots", "=", "x", "y">>, <<"-", "-", "maps", "=", "x", "y">>,
   <<"-", "-", "maps", "=", "y">>, <<"-", "-", "maps", "=">>}

CommandLines == UNION {[1..n -> Arguments] : n \in 0..4}

(* Files around the sizes of a chunk, of a block, of the last length that  *)
(* still fits one block with its padding, and of the length field.         *)
Pattern == <<0, 8, 8, 0, 1, 0, 8, 8, 0, 1>>
Files == {SubSeq(Pattern, 1, n) : n \in {0, 1, 2, 4, 5, 7, 8, 9}}

===========================================================================
