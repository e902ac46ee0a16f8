------------------------------- MODULE Powers -------------------------------
(***************************************************************************)
(* Powers of the number of values a byte has, by the recursion a proof     *)
(* unfolds: the widths of the integers of Sha256 and Packets.              *)
(***************************************************************************)
EXTENDS Integers

Power(base, exponent) ==
  LET power[n \in Nat] == IF n = 0 THEN 1 ELSE base * power[n - 1]
  IN power[exponent]

===========================================================================
