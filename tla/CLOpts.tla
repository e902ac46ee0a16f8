------------------------------- MODULE CLOpts -------------------------------
(***************************************************************************)
(* CLOpts::parseOpts (CLOpts.cpp) for the two options it registers.        *)
(*                                                                         *)
(* A string is a sequence of letters, where "bots" and "maps" count as one *)
(* letter each: no other letters occur in the names of options, and        *)
(* nothing in the code looks into these.                                   *)
(***************************************************************************)
EXTENDS Integers, Sequences, SequencesExt

Dash == "-"
Equals == "="

(* registerOption; both are required, none is a flag. *)
BotsOption == "bots"
MapsOption == "maps"
Options == {BotsOption, MapsOption}

(* An argument once it is split, and what parseOpts returns: "true", or    *)
(* false for one of two reasons, or a std::out_of_range that main lets     *)
(* through; with optionResults.                                            *)
Pair(first, second) == [first |-> first, second |-> second]
Parsed(status, results) == [status |-> status, results |-> results]

NoResults == [s \in {} |-> {}]

(* Up to two leading dashes are no part of an argument. *)
Stripped(arg) ==
  LET dashes == IF Len(arg) > 1 /\ arg[2] = Dash THEN 2 ELSE 1
  IN SubSeq(arg, dashes + 1, Len(arg))

(* What stands for the value of --name=value: substr(eqIt+2) begins one    *)
(* letter late, and throws when the sign was the last one.                 *)
EqualsAt(s) == SelectInSeq(s, LAMBDA x : x = Equals)

Throws(arg) ==
  /\ arg # <<>> /\ arg[1] = Dash
  /\ EqualsAt(Stripped(arg)) # 0
  /\ EqualsAt(Stripped(arg)) = Len(Stripped(arg))

(* The loop over argv: an argument without a dash is kept as it is.        *)
Split(arg) ==
  LET s  == Stripped(arg)
      eq == EqualsAt(s)
  IN IF arg = <<>> \/ arg[1] # Dash THEN Pair(arg, <<>>)
     ELSE IF eq = 0 THEN Pair(s, <<>>)
     ELSE Pair(SubSeq(s, 1, eq - 1), SubSeq(s, eq + 2, Len(s)))

(* find_if: the first argument that begins with the option's name, be it   *)
(* an option or a value.                                                   *)
FindOption(pairs, name) ==
  SelectInSeq(pairs, LAMBDA p : p.first # <<>> /\ p.first[1] = name)

With(results, key, value) ==
  [k \in DOMAIN results \cup {key} |-> IF k = key THEN value ELSE results[k]]

(* Mistake: the value is left behind. *)
TakeOptionOnly(st, name) ==
  LET i == FindOption(st.pairs, name)
  IN IF i = 0 \/ i = Len(st.pairs) THEN st
     ELSE [pairs   |-> RemoveAt(st.pairs, i),
           results |-> With(st.results, st.pairs[i].first, st.pairs[i + 1].first)]

(* One round of the loop over the options: the value is the second half of *)
(* the argument, or else the first half of the next one.  It is filed      *)
(* under what the argument is called, not what the option is.              *)
TakeOption(st, name) ==
  LET i == FindOption(st.pairs, name)
  IN IF i = 0 THEN st
     ELSE IF st.pairs[i].second # <<>>
     THEN [pairs   |-> RemoveAt(st.pairs, i),
           results |-> With(st.results, st.pairs[i].first, st.pairs[i].second)]
     ELSE IF i = Len(st.pairs) THEN st
     ELSE [pairs   |-> RemoveAt(RemoveAt(st.pairs, i), i),
           results |-> With(st.results, st.pairs[i].first, st.pairs[i + 1].first)]

(* parseOpts on the arguments behind the name of the program; the options  *)
(* are visited in the order of the std::map they are in.                   *)
Parse(args) ==
  LET pairs   == [i \in DOMAIN args |-> Split(args[i])]
      start   == [pairs |-> pairs, results |-> NoResults]
      results == TakeOption(TakeOption(start, BotsOption), MapsOption).results
  IN IF Len(args) < 2 THEN Parsed("usage", NoResults)
     ELSE IF \E i \in DOMAIN args : Throws(args[i]) THEN Parsed("throws", NoResults)
     ELSE IF \A name \in Options : <<name>> \in DOMAIN results THEN Parsed("true", results)
     ELSE Parsed("missing", results)

(* getOpt. *)
GetOpt(results, name) == results[<<name>>]

===========================================================================
