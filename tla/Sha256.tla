------------------------------- MODULE Sha256 -------------------------------
(***************************************************************************)
(* What SHA256 (sha256.cpp) does with the bytes it is given: buffering in  *)
(* update, padding in final.  transform, the published compression         *)
(* function, is taken to be a function of the blocks it is fed, so a       *)
(* digest is that sequence of bytes; two digests are equal when the blocks *)
(* are.                                                                    *)
(***************************************************************************)
EXTENDS Integers, Sequences, SequencesExt, Powers

CONSTANTS
  Base,     \* values of a byte: 256
  Bits,     \* bits of a byte: 8
  Block,    \* SHA224_256_BLOCK_SIZE: 64
  Half,     \* bytes of the unsigned int that holds the length in bits: 4
  Message   \* byte sequences that can be hashed

ASSUME Sha256Assumption ==
  /\ Base \in Nat \ {0, 1} /\ Bits \in Nat \ {0} /\ Half \in Nat \ {0}
  /\ Block \in Nat /\ Block > 2 * Half + 1
  /\ Message \subseteq Seq(0..Base - 1)

(* unsigned int. *)
Wrap(n) == n % Power(Base, Half)

Zeros(n) == [i \in 1..n |-> 0]

(* n as so many bytes, the first the most significant: SHA2_UNPACK32. *)
Unpack(n, size) == [i \in 1..size |-> (n \div Power(Base, size - i)) % Base]

Mark == Base \div 2  \* 0x80

(* init: nothing is absorbed by transform, m_block and m_tot_len are empty. *)
Fresh == [absorbed |-> <<>>, block |-> <<>>, total |-> 0]

(* Mistake: a block that has just been filled is kept. *)
UpdateLate(ctx, msg) ==
  IF Len(ctx.block) + Len(msg) <= Block
  THEN [ctx EXCEPT !.block = @ \o msg]
  ELSE [absorbed |-> ctx.absorbed \o ctx.block \o SubSeq(msg, 1, Block - Len(ctx.block)),
        block    |-> SubSeq(msg, Block - Len(ctx.block) + 1, Len(msg)),
        total    |-> Wrap(ctx.total + Block)]

(* update: fill the block, absorb it and every whole block after it, and   *)
(* keep the rest.                                                          *)
Update(ctx, msg) ==
  LET fill == SubSeq(msg, 1, Block - Len(ctx.block))
      rest == SubSeq(msg, Len(fill) + 1, Len(msg))
      nb   == Len(rest) \div Block
  IN IF Len(ctx.block) + Len(msg) < Block
     THEN [ctx EXCEPT !.block = @ \o msg]
     ELSE [absorbed |-> ctx.absorbed \o ctx.block \o fill \o SubSeq(rest, 1, nb * Block),
           block    |-> SubSeq(rest, nb * Block + 1, Len(rest)),
           total    |-> Wrap(ctx.total + (nb + 1) * Block)]

(* Mistake: the boundary is one off. *)
FinalTight(ctx) ==
  LET blocks == IF Block - 2 * Half < Len(ctx.block) THEN 2 ELSE 1
      zeros  == blocks * Block - Len(ctx.block) - 1 - Half
  IN ctx.absorbed \o ctx.block \o <<Mark>> \o Zeros(zeros)
       \o Unpack(Wrap(Bits * Wrap(ctx.total + Len(ctx.block))), Half)

(* final: one block or two, the mark, zeros, and the length in bits in the *)
(* last Half bytes; the Half bytes before them are always zero.            *)
Final(ctx) ==
  LET blocks == IF Block - (2 * Half + 1) < Len(ctx.block) THEN 2 ELSE 1
      zeros  == blocks * Block - Len(ctx.block) - 1 - Half
      bits   == Wrap(Bits * Wrap(ctx.total + Len(ctx.block)))
  IN ctx.absorbed \o ctx.block \o <<Mark>> \o Zeros(zeros) \o Unpack(bits, Half)

---------------------------------------------------------------------------
(* The padding of FIPS 180-2, section 5.1.1: the mark, as few zeros as     *)
(* make whole blocks, and the length in bits in twice Half bytes.          *)
Padded(m) ==
  LET over == (Len(m) + 1 + 2 * Half) % Block
  IN m \o <<Mark>> \o Zeros(IF over = 0 THEN 0 ELSE Block - over)
       \o Unpack(Bits * Len(m), 2 * Half)

(* Lengths for which the code is meant to agree with it: 2^29 bytes, half  *)
(* a gigabyte.                                                             *)
Fits(m) == Bits * Len(m) < Power(Base, Half)

===========================================================================
