---------------------------- MODULE StartupProofs ----------------------------
(***************************************************************************)
(* Proofs about Startup: what update and final of SHA256 do with any       *)
(* sequence of bytes, what parseOpts does with a plain command line, and   *)
(* from them the invariants of a program that hashes its files.            *)
(***************************************************************************)
EXTENDS Startup, Foundations, FiniteSetTheorems

---------------------------------------------------------------------------
(* Sequences. *)

(* A sequence is what is up to a position and what is behind it.           *)
LEMMA SplitSeq ==
  ASSUME NEW S, NEW s \in Seq(S), NEW n \in 0..Len(s)
  PROVE  /\ SubSeq(s, 1, n) \in Seq(S) /\ Len(SubSeq(s, 1, n)) = n
         /\ SubSeq(s, n + 1, Len(s)) \in Seq(S) /\ Len(SubSeq(s, n + 1, Len(s))) = Len(s) - n
         /\ SubSeq(s, 1, n) \o SubSeq(s, n + 1, Len(s)) = s
<1> DEFINE a == SubSeq(s, 1, n)
           b == SubSeq(s, n + 1, Len(s))
<1>1. Len(s) \in Nat
  OBVIOUS
<1>2. a \in Seq(S) /\ Len(a) = n /\ \A i \in 1..n : a[i] = s[i]
  OBVIOUS
<1>3. b \in Seq(S) /\ Len(b) = Len(s) - n /\ \A i \in 1..Len(s) - n : b[i] = s[n + i]
  OBVIOUS
<1> HIDE DEF a, b
<1>4. /\ a \o b \in Seq(S) /\ Len(a \o b) = Len(a) + Len(b)
      /\ \A i \in 1..Len(a) + Len(b) : (a \o b)[i] = IF i <= Len(a) THEN a[i] ELSE b[i - Len(a)]
  BY <1>2, <1>3, ConcatProperties
<1>5. ASSUME NEW i \in 1..Len(s)
      PROVE  (a \o b)[i] = s[i]
  <2>1. CASE i <= n
    <3>1. i \in 1..n /\ i <= Len(a) /\ i \in 1..Len(a) + Len(b)
      BY <1>1, <1>2, <1>3, <2>1
    <3> QED
      BY <1>2, <1>4, <3>1
  <2>2. CASE i > n
    <3>1. i - n \in 1..Len(s) - n /\ n + (i - n) = i /\ ~ (i <= Len(a)) /\ i \in 1..Len(a) + Len(b)
      BY <1>1, <1>2, <1>3, <2>2
    <3> QED
      BY <1>2, <1>3, <1>4, <3>1
  <2>3. i <= n \/ i > n
    BY <1>1
  <2> QED
    BY <2>1, <2>2, <2>3
<1>6. Len(a \o b) = Len(s)
  BY <1>1, <1>2, <1>3, <1>4
<1>7. a \o b = s
  BY <1>4, <1>5, <1>6, SeqEqual
<1> QED
  BY <1>2, <1>3, <1>7 DEF a, b

---------------------------------------------------------------------------
(* SHA256. *)

(* So many bytes are whole blocks. *)
Whole(n) == \E k \in Nat : n = k * Block

(* Whole blocks and whole blocks are whole blocks.                         *)
LEMMA WholeBlocks ==
  /\ Whole(0) /\ Whole(Block)
  /\ \A n : Whole(n) => n \in Nat
  /\ \A n, m : Whole(n) /\ Whole(m) => Whole(n + m)
  /\ \A k \in Nat : Whole(k * Block)
  /\ \A n : Whole(n) => n % Block = 0
<1> USE DEF Whole
<1>1. Block \in Nat \ {0} /\ 0 = 0 * Block /\ Block = 1 * Block
  BY Sha256Assumption
<1>2. \A k, l \in Nat : k * Block \in Nat /\ (k * Block) + (l * Block) = (k + l) * Block
  BY <1>1
<1>3. ASSUME NEW n, Whole(n)
      PROVE  n % Block = 0
  <2>1. PICK k \in Nat : n = k * Block
    BY <1>3
  <2>2. 0 \in 0..Block - 1 /\ k * Block = (k * Block) + 0
    BY <1>1, <1>2
  <2> QED
    BY <1>1, <2>1, <2>2, DivideUnique
<1>4. ASSUME NEW n, NEW m, Whole(n), Whole(m)
      PROVE  Whole(n + m)
  <2>1. PICK k, l \in Nat : n = k * Block /\ m = l * Block
    BY <1>4
  <2>2. n + m = (k + l) * Block /\ k + l \in Nat
    BY <1>2, <2>1
  <2> QED
    BY <2>2
<1>5. Whole(0) /\ Whole(Block) /\ (\A k \in Nat : Whole(k * Block)) /\ \A n : Whole(n) => n \in Nat
  BY <1>1, <1>2
<1> QED
  BY <1>3, <1>4, <1>5

(* The number of bytes in whole blocks, of so many. *)
LEMMA CutBlocks ==
  ASSUME NEW n \in Nat
  PROVE  LET cut == (n \div Block) * Block
         IN Whole(cut) /\ cut \in 0..n /\ n - cut \in 0..Block - 1
<1>1. Block \in Nat \ {0}
  BY Sha256Assumption
<1> DEFINE q == n \div Block
           cut == q * Block
<1>2. q \in Nat /\ n % Block \in 0..Block - 1 /\ n = cut + (n % Block)
  BY <1>1, Divide
<1> HIDE DEF q
<1>3. Whole(cut) /\ cut \in Nat
  BY <1>2, WholeBlocks
<1>4. \A x \in Nat, y \in 0..Block - 1 : n = x + y => x \in 0..n /\ n - x \in 0..Block - 1
  BY <1>1
<1> HIDE DEF cut
<1>5. cut \in 0..n /\ n - cut \in 0..Block - 1
  BY <1>2, <1>3, <1>4
<1> QED
  BY <1>3, <1>5 DEF cut, q

(* A context update keeps: the block is not full, what was transformed are *)
(* whole blocks, and total counts them as long as it has room for that.    *)
Absorbs(ctx) ==
  /\ ctx \in [absorbed : Seq(Nat), block : Seq(Nat), total : Nat]
  /\ Len(ctx.block) < Block /\ Whole(Len(ctx.absorbed))
  /\ Len(ctx.absorbed) < Power(Base, Half) => ctx.total = Len(ctx.absorbed)

(* Concatenation, for proofs that need not look into it. *)
Cat(s, t) == s \o t

(* Everything a context was given.                                         *)
Fed(ctx) == Cat(ctx.absorbed, ctx.block)

(* Where it has room an integer is itself.                                 *)
LEMMA WrapSmall ==
  /\ \A n \in Nat : Wrap(n) \in Nat
  /\ \A n \in Nat : n < Power(Base, Half) => Wrap(n) = n
<1>1. Power(Base, Half) \in Nat \ {0}
  BY Sha256Assumption, PowerGrows
<1>2. \A n \in Nat, d \in Nat \ {0} : n % d \in Nat /\ (n < d => n % d = n)
  OBVIOUS
<1> QED
  BY <1>1, <1>2 DEF Wrap

(* init gives such a context, which was given nothing.                     *)
LEMMA FreshAbsorbs == Absorbs(Fresh) /\ Fed(Fresh) = <<>>
<1>1. <<>> \in Seq(Nat) /\ Len(<<>>) = 0 /\ <<>> \o <<>> = <<>>
  OBVIOUS
<1>2. 0 < Block /\ Whole(0) /\ 0 \in Nat
  BY WholeBlocks, Sha256Assumption
<1>3. Absorbs(Fresh)
  BY <1>1, <1>2 DEF Absorbs, Fresh
<1> QED
  BY <1>1, <1>3 DEF Fed, Fresh, Cat

(* It does not matter what is put together first.                          *)
LEMMA CatAssociative ==
  ASSUME NEW s \in Seq(Nat), NEW t \in Seq(Nat), NEW u \in Seq(Nat)
  PROVE  Cat(Cat(s, t), u) = Cat(s, Cat(t, u))
  BY SMTT(30) DEF Cat

(* What is put together has the length of both.                            *)
LEMMA CatProperties ==
  ASSUME NEW s \in Seq(Nat), NEW t \in Seq(Nat)
  PROVE  Cat(s, t) \in Seq(Nat) /\ Len(Cat(s, t)) = Len(s) + Len(t)
  BY ConcatProperties DEF Cat

(* The block is filled, whole blocks follow it, and the rest is kept.      *)
LEMMA FilledBlocks ==
  ASSUME NEW a \in Seq(Nat), NEW b \in Seq(Nat), NEW fill \in Seq(Nat),
         NEW whole \in Seq(Nat), NEW tail \in Seq(Nat)
  PROVE  LET new == Cat(Cat(Cat(a, b), fill), whole)
         IN /\ new \in Seq(Nat) /\ Len(new) = Len(a) + (Len(b) + Len(fill) + Len(whole))
            /\ Cat(new, tail) = Cat(Cat(a, b), Cat(fill, Cat(whole, tail)))
<1>1. Len(a) \in Nat /\ Len(b) \in Nat /\ Len(fill) \in Nat /\ Len(whole) \in Nat
  BY LenProperties
<1>2. Cat(a, b) \in Seq(Nat) /\ Len(Cat(a, b)) = Len(a) + Len(b)
  BY CatProperties
<1>3. /\ Cat(Cat(a, b), fill) \in Seq(Nat)
      /\ Len(Cat(Cat(a, b), fill)) = Len(Cat(a, b)) + Len(fill)
  BY <1>2, CatProperties
<1>4. /\ Cat(Cat(Cat(a, b), fill), whole) \in Seq(Nat)
      /\ Len(Cat(Cat(Cat(a, b), fill), whole)) = Len(Cat(Cat(a, b), fill)) + Len(whole)
  BY <1>3, CatProperties
<1>5. Cat(whole, tail) \in Seq(Nat)
  BY CatProperties
<1>6. Cat(Cat(Cat(Cat(a, b), fill), whole), tail) = Cat(Cat(Cat(a, b), fill), Cat(whole, tail))
  BY <1>3, CatAssociative
<1>7. Cat(Cat(Cat(a, b), fill), Cat(whole, tail)) = Cat(Cat(a, b), Cat(fill, Cat(whole, tail)))
  BY <1>2, <1>5, CatAssociative
<1> QED
  BY <1>1, <1>2, <1>3, <1>4, <1>6, <1>7

(* The context of its three parts.                                         *)
LEMMA AbsorbsRecord ==
  ASSUME NEW a \in Seq(Nat), NEW b \in Seq(Nat), NEW t \in Nat, Len(b) < Block, Whole(Len(a)),
         Len(a) < Power(Base, Half) => t = Len(a)
  PROVE  /\ Absorbs([absorbed |-> a, block |-> b, total |-> t])
         /\ Fed([absorbed |-> a, block |-> b, total |-> t]) = Cat(a, b)
  BY DEF Absorbs, Fed

(* Whatever the length of a message is, update loses no byte of it and     *)
(* leaves less than a block over: for every size of block, and for every   *)
(* way a file is cut into messages.                                        *)
LEMMA UpdateAbsorbs ==
  ASSUME NEW ctx, Absorbs(ctx), NEW msg \in Seq(Nat)
  PROVE  Absorbs(Update(ctx, msg)) /\ Fed(Update(ctx, msg)) = Cat(Fed(ctx), msg)
<1>1. PICK a, b \in Seq(Nat), t \in Nat :
        /\ ctx = [absorbed |-> a, block |-> b, total |-> t]
        /\ Len(b) < Block /\ Whole(Len(a))
        /\ Len(a) < Power(Base, Half) => t = Len(a)
  BY DEF Absorbs
<1>2. /\ Len(a) \in Nat /\ Len(b) \in 0..Block - 1 /\ Len(msg) \in Nat /\ Block \in Nat \ {0}
      /\ Fed(ctx) = Cat(a, b) /\ ctx.block = b /\ ctx.absorbed = a /\ ctx.total = t
  BY <1>1, LenProperties, Sha256Assumption DEF Fed
<1>3. CASE Len(b) + Len(msg) < Block
  <2> DEFINE bm == Cat(b, msg)
  <2>1. Update(ctx, msg) = [absorbed |-> a, block |-> bm, total |-> t]
    BY <1>1, <1>3 DEF Update, Cat
  <2>2. bm \in Seq(Nat) /\ Len(bm) < Block /\ Cat(Cat(a, b), msg) = Cat(a, bm)
    BY <1>2, <1>3, CatProperties, CatAssociative
  <2> HIDE DEF bm
  <2>3. Absorbs(Update(ctx, msg)) /\ Fed(Update(ctx, msg)) = Cat(a, bm)
    BY <1>1, <2>1, <2>2, AbsorbsRecord
  <2> QED
    BY <1>2, <2>2, <2>3
<1>4. CASE ~ (Len(b) + Len(msg) < Block)
  <2> DEFINE left == Block - Len(b)
             fill == SubSeq(msg, 1, left)
             rest == SubSeq(msg, left + 1, Len(msg))
             nb == Len(rest) \div Block
             cut == nb * Block
             whole == SubSeq(rest, 1, cut)
             tail == SubSeq(rest, cut + 1, Len(rest))
             new == Cat(Cat(Cat(a, b), fill), whole)
             more == (nb + 1) * Block
             total == Wrap(t + more)
  <2>1. left \in 0..Len(msg)
    BY <1>2, <1>4
  <2>2. /\ fill \in Seq(Nat) /\ Len(fill) = left
        /\ rest \in Seq(Nat) /\ Len(rest) = Len(msg) - left /\ Cat(fill, rest) = msg
    <3> HIDE DEF left
    <3> QED
      BY <2>1, SplitSeq DEF left, Cat
  <2>3. Update(ctx, msg) = [absorbed |-> new, block |-> tail, total |-> total]
    BY <1>2, <1>4, <2>2 DEF Update, Cat
  <2> HIDE DEF fill, rest
  <2>4. /\ Whole(cut) /\ cut \in 0..Len(rest) /\ Len(rest) - cut \in 0..Block - 1
        /\ more = cut + Block
    <3>1. Len(rest) \in Nat
      BY <2>2, LenProperties
    <3>2. nb \in Nat
      BY <1>2, <3>1, Divide
    <3>3. more = cut + Block
      <4> HIDE DEF nb
      <4> QED
        BY <1>2, <3>2
    <3> QED
      BY <3>1, <3>3, CutBlocks
  <2> HIDE DEF cut, more
  <2>5. /\ whole \in Seq(Nat) /\ Len(whole) = cut
        /\ tail \in Seq(Nat) /\ Len(tail) = Len(rest) - cut /\ Cat(whole, tail) = rest
    BY <2>2, <2>4, SplitSeq DEF Cat
  <2> HIDE DEF whole, tail
  <2>6. /\ new \in Seq(Nat) /\ Len(new) = Len(a) + (Len(b) + Len(fill) + Len(whole))
        /\ Cat(new, tail) = Cat(Cat(a, b), msg)
    <3>1. fill \in Seq(Nat) /\ whole \in Seq(Nat) /\ tail \in Seq(Nat)
      BY <2>2, <2>5
    <3>2. /\ Cat(Cat(Cat(a, b), fill), whole) \in Seq(Nat)
          /\ Len(Cat(Cat(Cat(a, b), fill), whole)) = Len(a) + (Len(b) + Len(fill) + Len(whole))
          /\ Cat(Cat(Cat(Cat(a, b), fill), whole), tail) = Cat(Cat(a, b), Cat(fill, Cat(whole, tail)))
      BY <3>1, FilledBlocks
    <3> QED
      BY <2>2, <2>5, <3>2
  <2> HIDE DEF new
  <2>7. more \in Nat /\ Len(new) = Len(a) + more /\ Whole(Len(new))
    <3>1. cut \in Nat /\ Block \in Nat \ {0} /\ Len(b) \in Nat
      BY <1>2, <2>4
    <3>2. more \in Nat /\ Whole(more)
      BY <2>4, <3>1, WholeBlocks
    <3>3. Len(b) + Len(fill) + Len(whole) = more
      <4>1. \A x, y, z \in Nat : x + (y - x) + z = z + y
        OBVIOUS
      <4>2. Len(b) + Len(fill) + Len(whole) = Len(b) + (Block - Len(b)) + cut
        BY <2>2, <2>5, Zenon
      <4> QED
        BY <2>4, <3>1, <4>1, <4>2, Zenon
    <3>4. Len(new) = Len(a) + more
      BY <2>6, <3>3, Zenon
    <3>5. Whole(Len(a) + more)
      BY <1>1, <1>2, <3>2, WholeBlocks, Zenon
    <3> QED
      BY <3>2, <3>4, <3>5, Zenon
  <2>8. total \in Nat /\ (Len(new) < Power(Base, Half) => total = Len(new))
    <3>1. t + more \in Nat
      BY <2>7
    <3>2. Power(Base, Half) \in Nat
      <4>1. Base \in Nat \ {0} /\ Half \in Nat /\ Half <= Half
        BY Sha256Assumption
      <4> QED
        BY <4>1, PowerGrows
    <3>3. ASSUME Len(new) < Power(Base, Half)
          PROVE  t + more = Len(new)
      <4>1. \A x, y, z \in Nat : x + y < z => x < z
        OBVIOUS
      <4>2. Len(a) < Power(Base, Half)
        BY <1>2, <2>7, <3>2, <3>3, <4>1
      <4>3. t = Len(a)
        BY <1>1, <4>2
      <4> QED
        BY <2>7, <4>3
    <3> QED
      BY <3>1, <3>3, WrapSmall
  <2> HIDE DEF total
  <2>9. Absorbs(Update(ctx, msg)) /\ Fed(Update(ctx, msg)) = Cat(new, tail)
    <3>1. Len(tail) < Block
      BY <1>2, <2>4, <2>5
    <3>2. /\ Absorbs([absorbed |-> new, block |-> tail, total |-> total])
          /\ Fed([absorbed |-> new, block |-> tail, total |-> total]) = Cat(new, tail)
      BY <2>5, <2>6, <2>7, <2>8, <3>1, AbsorbsRecord, Zenon
    <3> QED
      BY <2>3, <3>2
  <2> QED
    BY <1>2, <2>2, <2>5, <2>6, <2>9
<1> QED
  BY <1>3, <1>4

(* So many zeros, and zeros behind zeros.                                  *)
LEMMA ZerosProperties ==
  /\ \A n \in Nat : Zeros(n) \in Seq(Nat) /\ Len(Zeros(n)) = n
  /\ \A n, k \in Nat : Cat(Zeros(n), Zeros(k)) = Zeros(n + k)
<1>1. ASSUME NEW n \in Nat
      PROVE  Zeros(n) \in Seq(Nat) /\ Len(Zeros(n)) = n /\ \A i \in 1..n : Zeros(n)[i] = 0
  <2>1. Zeros(n) \in [1..n -> Nat]
    BY DEF Zeros
  <2> QED
    BY <2>1, FunctionSeq DEF Zeros
<1>2. ASSUME NEW n \in Nat, NEW k \in Nat
      PROVE  Cat(Zeros(n), Zeros(k)) = Zeros(n + k)
  <2> DEFINE a == Zeros(n)
             b == Zeros(k)
             c == Zeros(n + k)
  <2>1. /\ a \in Seq(Nat) /\ Len(a) = n /\ \A i \in 1..n : a[i] = 0
        /\ b \in Seq(Nat) /\ Len(b) = k /\ \A i \in 1..k : b[i] = 0
        /\ c \in Seq(Nat) /\ Len(c) = n + k /\ \A i \in 1..n + k : c[i] = 0
    BY <1>1
  <2> HIDE DEF a, b, c
  <2>2. /\ a \o b \in Seq(Nat) /\ Len(a \o b) = n + k
        /\ \A i \in 1..n + k : (a \o b)[i] = IF i <= n THEN a[i] ELSE b[i - n]
    BY <2>1, ConcatProperties
  <2>3. ASSUME NEW i \in 1..n + k
        PROVE  (a \o b)[i] = c[i]
    <3>1. CASE i <= n
      BY <2>1, <2>2, <3>1
    <3>2. CASE ~ (i <= n)
      <4>1. i - n \in 1..k
        BY <3>2
      <4> QED
        BY <2>1, <2>2, <3>2, <4>1
    <3> QED
      BY <3>1, <3>2
  <2>4. a \o b = c
    BY <2>1, <2>2, <2>3, SeqEqual
  <2> QED
    BY <2>4 DEF a, b, c, Cat
<1> QED
  BY <1>1, <1>2

(* An integer in so many bytes; one that fits in the lower half of them    *)
(* has zeros in the upper.                                                 *)
LEMMA UnpackProperties ==
  ASSUME NEW n \in Nat
  PROVE  /\ \A size \in Nat : Unpack(n, size) \in Seq(Nat) /\ Len(Unpack(n, size)) = size
         /\ n < Power(Base, Half) => Unpack(n, 2 * Half) = Cat(Zeros(Half), Unpack(n, Half))
<1>1. Base \in Nat \ {0, 1} /\ Half \in Nat \ {0}
  BY Sha256Assumption
<1>2. \A k \in Nat : Power(Base, k) \in Nat \ {0}
  BY <1>1, PowerGrows
<1>3. \A k \in Nat : (n \div Power(Base, k)) % Base \in Nat
  <2>1. \A k \in Nat : n \div Power(Base, k) \in Nat
    BY <1>2, Divide
  <2> QED
    BY <1>1, <2>1, Divide
<1>4. ASSUME NEW size \in Nat
      PROVE  /\ Unpack(n, size) \in Seq(Nat) /\ Len(Unpack(n, size)) = size
             /\ \A i \in 1..size : Unpack(n, size)[i] = (n \div Power(Base, size - i)) % Base
  <2>1. \A i \in 1..size : size - i \in Nat
    OBVIOUS
  <2>2. Unpack(n, size) \in [1..size -> Nat]
    BY <1>3, <2>1 DEF Unpack
  <2> QED
    BY <2>2, FunctionSeq DEF Unpack
<1>5. ASSUME n < Power(Base, Half)
      PROVE  Unpack(n, 2 * Half) = Cat(Zeros(Half), Unpack(n, Half))
  <2> DEFINE z == Zeros(Half)
             u == Unpack(n, Half)
             w == Unpack(n, 2 * Half)
  <2>1. /\ z \in Seq(Nat) /\ Len(z) = Half
        /\ \A i \in 1..Half : z[i] = 0
    BY <1>1, ZerosProperties DEF Zeros
  <2>2. u \in Seq(Nat) /\ Len(u) = Half /\ \A i \in 1..Half : u[i] = (n \div Power(Base, Half - i)) % Base
    BY <1>1, <1>4
  <2>3. /\ w \in Seq(Nat) /\ Len(w) = 2 * Half
        /\ \A i \in 1..2 * Half : w[i] = (n \div Power(Base, 2 * Half - i)) % Base
    BY <1>1, <1>4
  <2> HIDE DEF z, u, w
  <2>4. /\ z \o u \in Seq(Nat) /\ Len(z \o u) = 2 * Half
        /\ \A i \in 1..2 * Half : (z \o u)[i] = IF i <= Half THEN z[i] ELSE u[i - Half]
    <3>1. /\ z \o u \in Seq(Nat) /\ Len(z \o u) = Half + Half
          /\ \A i \in 1..Half + Half : (z \o u)[i] = IF i <= Half THEN z[i] ELSE u[i - Half]
      <4>1. Half \in Nat /\ z \in Seq(Nat) /\ u \in Seq(Nat) /\ Len(z) = Half /\ Len(u) = Half
        BY <1>1, <2>1, <2>2
      <4>2. /\ z \o u \in Seq(Nat) /\ Len(z \o u) = Len(z) + Len(u)
            /\ \A i \in 1..Len(z) + Len(u) : (z \o u)[i] = IF i <= Len(z) THEN z[i] ELSE u[i - Len(z)]
        BY <4>1, ConcatProperties
      <4> QED
        BY <4>1, <4>2
    <3>2. Half + Half = 2 * Half
      BY <1>1
    <3> QED
      BY <3>1, <3>2
  <2>5. ASSUME NEW i \in 1..2 * Half
        PROVE  w[i] = (z \o u)[i]
    <3>1. CASE i <= Half
      <4>1. 2 * Half - i \in Nat /\ Half <= 2 * Half - i
        BY <1>1, <3>1
      <4>2. Power(Base, Half) <= Power(Base, 2 * Half - i)
        BY <1>1, <4>1, PowerGrows
      <4>3. \A x, y \in Nat : n < x /\ x <= y => n < y
        OBVIOUS
      <4>4. n < Power(Base, 2 * Half - i)
        BY <1>1, <1>2, <1>5, <4>1, <4>2, <4>3
      <4>5. n \div Power(Base, 2 * Half - i) = 0
        <5>1. \A d \in Nat \ {0} : n < d => n = 0 * d + n /\ n \in 0..d - 1
          OBVIOUS
        <5> QED
          BY <1>2, <4>1, <4>4, <5>1, DivideUnique
      <4>6. 0 % Base = 0
        BY <1>1
      <4>7. i \in 1..Half
        BY <1>1, <3>1
      <4> QED
        BY <2>1, <2>3, <2>4, <3>1, <4>5, <4>6, <4>7
    <3>2. CASE ~ (i <= Half)
      <4>1. i - Half \in 1..Half /\ Half - (i - Half) = 2 * Half - i
        BY <1>1, <3>2
      <4> QED
        BY <2>2, <2>3, <2>4, <3>2, <4>1
    <3> QED
      BY <3>1, <3>2
  <2>6. w = z \o u
    BY <2>3, <2>4, <2>5, SeqEqual
  <2> QED
    BY <2>6 DEF w, z, u, Cat
<1> QED
  BY <1>4, <1>5

(* The code's zeros and the standard's are as many, and the code's blocks  *)
(* are filled: r bytes are in the last block.                              *)
LEMMA ZerosOfFinal ==
  ASSUME NEW r \in 0..Block - 1
  PROVE  LET blocks == IF Block - (2 * Half + 1) < r THEN 2 ELSE 1
             zeros  == blocks * Block - r - 1 - Half
             over   == (r + 1 + 2 * Half) % Block
             fill   == IF over = 0 THEN 0 ELSE Block - over
         IN /\ zeros \in Nat /\ fill \in Nat /\ zeros = fill + Half
            /\ \E k \in Nat : r + 1 + zeros + Half = k * Block
<1>1. Half \in Nat \ {0} /\ Block \in Nat \ {0} /\ Block > 2 * Half + 1 /\ r \in Nat /\ r < Block
  BY Sha256Assumption
<1> DEFINE s == r + 1 + 2 * Half
<1>2. /\ s \in Nat /\ s < 2 * Block
      /\ Block - (2 * Half + 1) < r <=> Block < s
  BY <1>1
<1>3. CASE s < Block
  <2>1. s = 0 * Block + s /\ s \in 0..Block - 1
    BY <1>1, <1>2, <1>3
  <2>2. s % Block = s /\ s # 0
    BY <1>1, <2>1, DivideUnique
  <2>3. r + 1 + (1 * Block - r - 1 - Half) + Half = 1 * Block /\ 1 \in Nat
    BY <1>1
  <2> QED
    BY <1>1, <1>2, <1>3, <2>2, <2>3
<1>4. CASE s = Block
  <2>1. s = 1 * Block + 0 /\ 0 \in 0..Block - 1
    BY <1>1, <1>2, <1>4
  <2>2. s % Block = 0
    BY <1>1, <2>1, DivideUnique
  <2>3. r + 1 + (1 * Block - r - 1 - Half) + Half = 1 * Block /\ 1 \in Nat
    BY <1>1
  <2> QED
    BY <1>1, <1>2, <1>4, <2>2, <2>3
<1>5. CASE s > Block
  <2>1. s = 1 * Block + (s - Block) /\ s - Block \in 0..Block - 1
    BY <1>1, <1>2, <1>5
  <2>2. s % Block = s - Block /\ s - Block # 0
    BY <1>1, <1>2, <1>5, <2>1, DivideUnique
  <2>3. r + 1 + (2 * Block - r - 1 - Half) + Half = 2 * Block /\ 2 \in Nat
    BY <1>1
  <2> QED
    BY <1>1, <1>2, <1>5, <2>2, <2>3
<1> QED
  BY <1>1, <1>2, <1>3, <1>4, <1>5

(* The parts that final puts together.                                     *)
LEMMA FinalTyped ==
  ASSUME NEW a \in Seq(Nat), NEW b \in Seq(Nat), NEW z \in Nat, NEW n \in Nat
  PROVE  LET digest == Cat(Cat(Cat(Cat(a, b), <<Mark>>), Zeros(z)), Unpack(n, Half))
         IN /\ digest \in Seq(Nat)
            /\ Len(digest) = Len(a) + (Len(b) + 1 + z + Half)
<1>1. Half \in Nat /\ Base \in Nat \ {0, 1}
  BY Sha256Assumption
<1>2. Mark \in Nat
  BY <1>1, Divide DEF Mark
<1>3. <<Mark>> \in Seq(Nat) /\ Len(<<Mark>>) = 1
  BY <1>2
<1>4. /\ Zeros(z) \in Seq(Nat) /\ Len(Zeros(z)) = z
      /\ Unpack(n, Half) \in Seq(Nat) /\ Len(Unpack(n, Half)) = Half
  BY <1>1, ZerosProperties, UnpackProperties
<1> DEFINE s1 == Cat(a, b)
           s2 == Cat(s1, <<Mark>>)
           s3 == Cat(s2, Zeros(z))
           s4 == Cat(s3, Unpack(n, Half))
<1>5. s1 \in Seq(Nat) /\ Len(s1) = Len(a) + Len(b)
  BY CatProperties
<1> HIDE DEF s1
<1>6. s2 \in Seq(Nat) /\ Len(s2) = Len(s1) + 1
  BY <1>3, <1>5, CatProperties
<1> HIDE DEF s2
<1>7. s3 \in Seq(Nat) /\ Len(s3) = Len(s2) + z
  BY <1>4, <1>6, CatProperties
<1> HIDE DEF s3
<1>8. s4 \in Seq(Nat) /\ Len(s4) = Len(s3) + Half
  BY <1>4, <1>7, CatProperties
<1> HIDE DEF s4
<1>9. Len(a) \in Nat /\ Len(b) \in Nat
  OBVIOUS
<1>10. Len(s4) = Len(a) + (Len(b) + 1 + z + Half)
  BY <1>1, <1>5, <1>6, <1>7, <1>8, <1>9
<1> QED
  BY <1>8, <1>10 DEF s4, s3, s2, s1

(* A digest is whole blocks; and up to half a gigabyte it is that of FIPS  *)
(* 180-2.                                                                  *)
LEMMA FinalPads ==
  ASSUME NEW ctx, Absorbs(ctx)
  PROVE  /\ Final(ctx) \in Seq(Nat) /\ Whole(Len(Final(ctx)))
         /\ Fits(Fed(ctx)) => Final(ctx) = Padded(Fed(ctx))
<1>1. PICK a, b \in Seq(Nat), t \in Nat :
        /\ ctx = [absorbed |-> a, block |-> b, total |-> t]
        /\ Len(b) < Block /\ Whole(Len(a))
        /\ Len(a) < Power(Base, Half) => t = Len(a)
  BY DEF Absorbs
<1>2. /\ Len(a) \in Nat /\ Len(b) \in 0..Block - 1 /\ Block \in Nat \ {0} /\ Half \in Nat \ {0}
      /\ Bits \in Nat \ {0} /\ Base \in Nat \ {0, 1}
      /\ Fed(ctx) = Cat(a, b) /\ ctx.block = b /\ ctx.absorbed = a /\ ctx.total = t
  BY <1>1, LenProperties, Sha256Assumption DEF Fed
<1> DEFINE blocks == IF Block - (2 * Half + 1) < Len(b) THEN 2 ELSE 1
           zeros  == blocks * Block - Len(b) - 1 - Half
           sum    == Bits * Wrap(t + Len(b))
           bits   == Wrap(sum)
           over   == (Len(b) + 1 + 2 * Half) % Block
           fill   == IF over = 0 THEN 0 ELSE Block - over
           digest == Cat(Cat(Cat(Cat(a, b), <<Mark>>), Zeros(zeros)), Unpack(bits, Half))
<1>3. Final(ctx) = digest
  BY <1>2 DEF Final, Cat
<1>4. /\ zeros \in Nat /\ fill \in Nat /\ zeros = fill + Half
      /\ \E k \in Nat : Len(b) + 1 + zeros + Half = k * Block
  BY <1>2, ZerosOfFinal
<1> HIDE DEF blocks, zeros, over, fill
<1>5. sum \in Nat /\ bits \in Nat
  <2>1. t + Len(b) \in Nat
    BY <1>2
  <2>2. Wrap(t + Len(b)) \in Nat
    BY <2>1, WrapSmall
  <2>3. sum \in Nat
    BY <1>2, <2>2
  <2> HIDE DEF sum
  <2> QED
    BY <2>3, WrapSmall
<1> HIDE DEF sum, bits
<1>6. Final(ctx) \in Seq(Nat) /\ Whole(Len(Final(ctx)))
  <2>1. PICK k \in Nat : Len(b) + 1 + zeros + Half = k * Block
    BY <1>4
  <2>2. digest \in Seq(Nat) /\ Len(digest) = Len(a) + (Len(b) + 1 + zeros + Half)
    <3>1. zeros \in Nat /\ bits \in Nat
      BY <1>4, <1>5
    <3> QED
      BY <3>1, FinalTyped, ZenonT(60)
  <2> HIDE DEF digest
  <2>3. Whole(k * Block) /\ Len(digest) = Len(a) + k * Block
    BY <2>1, <2>2, WholeBlocks
  <2>4. Whole(Len(a) + k * Block)
    BY <1>1, <2>3, WholeBlocks
  <2> QED
    BY <1>3, <2>2, <2>3, <2>4
<1>7. ASSUME Fits(Fed(ctx))
      PROVE  Final(ctx) = Padded(Fed(ctx))
  <2> DEFINE m == Cat(a, b)
  <2>1. m \in Seq(Nat) /\ Len(m) = Len(a) + Len(b) /\ Fed(ctx) = m
    BY <1>2, CatProperties
  <2> HIDE DEF m
  <2>2. Bits * Len(m) < Power(Base, Half) /\ Power(Base, Half) \in Nat
    <3>1. Fits(m)
      BY <1>7, <2>1
    <3>2. Power(Base, Half) \in Nat
      BY Sha256Assumption, PowerGrows
    <3> QED
      BY <3>1, <3>2 DEF Fits
  <2>3. Len(m) \in Nat /\ Len(m) <= Bits * Len(m) /\ Bits * Len(m) \in Nat
    <3>1. \A x \in Nat, d \in Nat \ {0} : x <= d * x /\ d * x \in Nat
      OBVIOUS
    <3>2. Len(m) \in Nat
      BY <2>1, LenProperties
    <3> QED
      BY <1>2, <3>1, <3>2
  <2>4. \A x, y, u \in Nat : x <= y /\ y < u => x < u
    OBVIOUS
  <2>5. Len(m) < Power(Base, Half)
    BY <2>2, <2>3, <2>4
  <2>6. Len(a) <= Len(m)
    BY <1>2, <2>1
  <2>7. Len(a) < Power(Base, Half)
    BY <1>2, <2>2, <2>3, <2>4, <2>5, <2>6
  <2>8. t + Len(b) = Len(m)
    BY <1>1, <1>2, <2>1, <2>7
  <2>9. Wrap(t + Len(b)) = Len(m)
    BY <2>3, <2>5, <2>8, WrapSmall
  <2>10. bits = Bits * Len(m)
    BY <2>2, <2>3, <2>9, WrapSmall DEF bits, sum
  <2>11. Unpack(Bits * Len(m), 2 * Half) = Cat(Zeros(Half), Unpack(bits, Half))
    BY <2>2, <2>3, <2>10, UnpackProperties
  <2>12. (Len(m) + 1 + 2 * Half) % Block = over
    <3>1. PICK k \in Nat : Len(a) = k * Block
      BY <1>1 DEF Whole
    <3> DEFINE s == Len(b) + 1 + 2 * Half
               q == s \div Block
    <3>2. s \in Nat /\ Len(m) + 1 + 2 * Half = Len(a) + s
      BY <1>2, <2>1
    <3>3. q \in Nat /\ s % Block \in 0..Block - 1 /\ s = (q * Block) + (s % Block)
      BY <1>2, <3>2, Divide
    <3> DEFINE o == s % Block
    <3> HIDE DEF s, q, o
    <3>4. q \in Nat /\ o \in 0..Block - 1 /\ s = (q * Block) + o
      BY <3>3 DEF o
    <3>5. (k * Block) + ((q * Block) + o) = ((k + q) * Block) + o /\ k + q \in Nat
      BY <1>2, <3>1, <3>4
    <3>6. Len(m) + 1 + 2 * Half = ((k + q) * Block) + o
      BY <3>1, <3>2, <3>4, <3>5
    <3>7. (Len(m) + 1 + 2 * Half) % Block = o
      <4>1. (((k + q) * Block) + o) % Block = o
        BY <1>2, <3>4, <3>5, DivideUnique
      <4> QED
        BY <3>6, <4>1, Zenon
    <3> QED
      BY <3>7 DEF o, s, over
  <2>13. Padded(m) = Cat(Cat(Cat(m, <<Mark>>), Zeros(fill)), Unpack(Bits * Len(m), 2 * Half))
    BY <2>12 DEF Padded, Cat, fill
  <2>14. Mark \in Nat /\ Half \in Nat
    BY <1>2, Divide DEF Mark
  <2> DEFINE start == Cat(m, <<Mark>>)
             field == Unpack(bits, Half)
  <2>15. /\ start \in Seq(Nat) /\ field \in Seq(Nat)
         /\ Zeros(fill) \in Seq(Nat) /\ Zeros(Half) \in Seq(Nat)
         /\ Cat(Zeros(fill), Zeros(Half)) = Zeros(zeros)
    <3>1. <<Mark>> \in Seq(Nat)
      BY <2>14
    <3>2. start \in Seq(Nat)
      BY <2>1, <3>1, CatProperties
    <3> QED
      BY <1>4, <1>5, <2>14, <3>2, ZerosProperties, UnpackProperties
  <2>16. digest = Cat(Cat(start, Zeros(zeros)), field)
    BY DEF m
  <2>17. Padded(m) = Cat(Cat(start, Zeros(fill)), Cat(Zeros(Half), field))
    BY <2>11, <2>13
  <2> HIDE DEF start, field, digest
  <2>18. Cat(start, Zeros(fill)) \in Seq(Nat)
    BY <2>15, CatProperties
  <2>19. Cat(Cat(start, Zeros(fill)), Cat(Zeros(Half), field))
           = Cat(Cat(Cat(start, Zeros(fill)), Zeros(Half)), field)
    BY <2>15, <2>18, CatAssociative
  <2>20. Cat(Cat(start, Zeros(fill)), Zeros(Half)) = Cat(start, Zeros(zeros))
    BY <2>15, CatAssociative
  <2> QED
    BY <1>3, <2>1, <2>16, <2>17, <2>19, <2>20
<1> QED
  BY <1>6, <1>7

---------------------------------------------------------------------------
(* The command line. *)

(* The least element is Min.                                               *)
LEMMA FirstOfSet ==
  ASSUME NEW S, NEW i \in S, \A j \in S : i <= j, S \subseteq Nat
  PROVE  Min(S) = i
<1>1. Min(S) \in S /\ \A j \in S : Min(S) <= j
  BY DEF Min
<1>2. Min(S) <= i /\ i <= Min(S) /\ i \in Nat /\ Min(S) \in Nat
  BY <1>1
<1> QED
  BY <1>2

(* The name of an option is split off whole.                               *)
LEMMA NameSplit ==
  ASSUME NEW name \in Options, NEW arg, IsName(arg, name)
  PROVE  Split(arg) = Pair(<<name>>, <<>>) /\ ~ Throws(arg)
<1>1. name \in {"bots", "maps"} /\ name # Dash /\ name # Equals
  BY DEF Options, BotsOption, MapsOption, Dash, Equals
<1>2. arg # <<>> /\ arg[1] = Dash
  BY DEF IsName
<1>3. Stripped(arg) = <<name>>
  <2>1. CASE arg = <<Dash, name>>
    <3>1. Len(arg) = 2 /\ arg[2] # Dash
      BY <1>1, <2>1
    <3>2. Stripped(arg) = SubSeq(arg, 2, 2)
      BY <3>1 DEF Stripped
    <3> QED
      BY <2>1, <3>2
  <2>2. CASE arg = <<Dash, Dash, name>>
    <3>1. Stripped(arg) = SubSeq(arg, 3, 3)
      BY <2>2 DEF Stripped
    <3> QED
      BY <2>2, <3>1
  <2> QED
    BY <2>1, <2>2 DEF IsName
<1>4. EqualsAt(<<name>>) = 0
  BY <1>1 DEF EqualsAt, SelectInSeq
<1> QED
  BY <1>2, <1>3, <1>4 DEF Split, Throws

(* A value is not split.                                                   *)
LEMMA ValueSplit ==
  ASSUME NEW arg, IsValue(arg)
  PROVE  Split(arg) = Pair(arg, <<>>) /\ ~ Throws(arg)
  BY DEF IsValue, Split, Throws

(* Of two options one is taken out, the other is left.                     *)
LEMMA RemovedPair ==
  ASSUME NEW V, NEW s \in Seq(V), Len(s) = 4, NEW i \in 1..3
  PROVE  /\ RemoveAt(RemoveAt(s, i), i) \in Seq(V) /\ Len(RemoveAt(RemoveAt(s, i), i)) = 2
         /\ i = 1 => RemoveAt(RemoveAt(s, i), i)[1] = s[3] /\ RemoveAt(RemoveAt(s, i), i)[2] = s[4]
         /\ i = 3 => RemoveAt(RemoveAt(s, i), i)[1] = s[1] /\ RemoveAt(RemoveAt(s, i), i)[2] = s[2]
<1> DEFINE q == RemoveAt(s, i)
           r == RemoveAt(q, i)
<1>1. /\ q \in Seq(V) /\ Len(q) = 3
      /\ \A j \in 1..i - 1 : q[j] = s[j]
      /\ \A j \in i..3 : q[j] = s[j + 1]
  <2>1. i \in 1..Len(s) /\ Len(s) - 1 = 3
    OBVIOUS
  <2> HIDE DEF q
  <2> QED
    BY <2>1, Removed DEF q
<1>2. /\ r \in Seq(V) /\ Len(r) = 2
      /\ \A j \in 1..i - 1 : r[j] = q[j]
      /\ \A j \in i..2 : r[j] = q[j + 1]
  <2> HIDE DEF q
  <2>1. i \in 1..Len(q) /\ Len(q) - 1 = 2
    BY <1>1
  <2>2. /\ RemoveAt(q, i) \in Seq(V)
        /\ Len(RemoveAt(q, i)) = Len(q) - 1
        /\ \A j \in 1..i - 1 : RemoveAt(q, i)[j] = q[j]
        /\ \A j \in i..Len(q) - 1 : RemoveAt(q, i)[j] = q[j + 1]
    BY <1>1, <2>1, Removed
  <2> HIDE DEF r
  <2> QED
    BY <2>1, <2>2 DEF r
<1> HIDE DEF q
<1>3. i = 1 => r[1] = s[3] /\ r[2] = s[4]
  BY <1>1, <1>2
<1>4. i = 3 => r[1] = s[1] /\ r[2] = s[2]
  BY <1>1, <1>2
<1> HIDE DEF r
<1> QED
  BY <1>2, <1>3, <1>4 DEF q, r

(* FindOption comes to the first pair with the name.                       *)
LEMMA FirstFound ==
  ASSUME NEW V, NEW pairs \in Seq(V), NEW name, NEW i \in 1..Len(pairs),
         pairs[i].first # <<>>, pairs[i].first[1] = name,
         \A j \in 1..i - 1 : ~ (pairs[j].first # <<>> /\ pairs[j].first[1] = name)
  PROVE  FindOption(pairs, name) = i
<1> DEFINE I == {j \in 1..Len(pairs) : pairs[j].first # <<>> /\ pairs[j].first[1] = name}
<1>1. i \in I /\ (\A j \in I : i <= j) /\ I \subseteq Nat
  OBVIOUS
<1>2. FindOption(pairs, name) = IF I # {} THEN Min(I) ELSE 0
  BY DEF FindOption, SelectInSeq
<1> HIDE DEF I
<1> QED
  BY <1>1, <1>2, FirstOfSet

(* PlainUnderstood of one command line. *)
PlainGood(line) ==
    LET p == Parse(line)
        i == IF IsName(line[1], BotsOption) THEN 2 ELSE 4
    IN /\ p.status = "true"
       /\ GetOpt(p.results, BotsOption) = line[i]
       /\ GetOpt(p.results, MapsOption) = line[6 - i]

(* One option is taken: its name is at position i, where it is found. *)
LEMMA OptionTaken ==
  ASSUME NEW V, NEW pairs \in Seq(V), NEW results, NEW name, NEW i \in 1..Len(pairs) - 1,
         pairs[i] = Pair(<<name>>, <<>>),
         \A j \in 1..i - 1 : ~ (pairs[j].first # <<>> /\ pairs[j].first[1] = name)
  PROVE  TakeOption([pairs |-> pairs, results |-> results], name)
           = [pairs |-> RemoveAt(RemoveAt(pairs, i), i),
              results |-> With(results, <<name>>, pairs[i + 1].first)]
<1>1. i \in 1..Len(pairs) /\ i # 0 /\ i # Len(pairs)
  OBVIOUS
<1>2. pairs[i].first = <<name>> /\ pairs[i].second = <<>>
  BY DEF Pair
<1>3. FindOption(pairs, name) = i
  <2>1. <<name>> # <<>> /\ <<name>>[1] = name
    OBVIOUS
  <2>2. pairs[i].first # <<>> /\ pairs[i].first[1] = name
    BY <1>2, <2>1, Zenon
  <2> QED
    BY <1>1, <2>2, FirstFound
<1> QED
  BY <1>1, <1>2, <1>3, SMTT(30) DEF TakeOption

(* A plain command line is understood, its options in either order.        *)
LEMMA PlainParsed ==
  ASSUME NEW Arg, NEW line \in Seq(Arg), Plain(line)
  PROVE  PlainGood(line)
<1> DEFINE pairs == [i \in DOMAIN line |-> Split(line[i])]
           Pairs == {Pair(<<n>>, <<>>) : n \in Options} \cup {Pair(line[2], <<>>), Pair(line[4], <<>>)}
           start == [pairs |-> pairs, results |-> NoResults]
           one == TakeOption(start, BotsOption)
           two == TakeOption(one, MapsOption)
<1>1. Len(line) = 4 /\ DOMAIN line = 1..4 /\ \A i \in 1..4 : line[i] \in Arg
  <2>1. Len(line) = 4
    BY DEF Plain
  <2> QED
    BY <2>1, LenProperties, ElementOfSeq
<1>2. PICK n1, n3 \in Options :
        /\ IsName(line[1], n1) /\ IsName(line[3], n3) /\ n1 # n3
        /\ n1 = MapsOption => line[2][1] # BotsOption
  BY DEF Plain, Options, BotsOption, MapsOption
<1>3. /\ Split(line[1]) = Pair(<<n1>>, <<>>) /\ ~ Throws(line[1])
      /\ Split(line[3]) = Pair(<<n3>>, <<>>) /\ ~ Throws(line[3])
  BY <1>2, NameSplit
<1>4. /\ Split(line[2]) = Pair(line[2], <<>>) /\ ~ Throws(line[2])
      /\ Split(line[4]) = Pair(line[4], <<>>) /\ ~ Throws(line[4])
      /\ line[2] # <<>>
  BY ValueSplit DEF Plain, IsValue
<1>5. /\ pairs \in Seq(Pairs) /\ Len(pairs) = 4
      /\ pairs[1] = Pair(<<n1>>, <<>>) /\ pairs[2] = Pair(line[2], <<>>)
      /\ pairs[3] = Pair(<<n3>>, <<>>) /\ pairs[4] = Pair(line[4], <<>>)
  <2>1. /\ pairs[1] = Pair(<<n1>>, <<>>) /\ pairs[2] = Pair(line[2], <<>>)
        /\ pairs[3] = Pair(<<n3>>, <<>>) /\ pairs[4] = Pair(line[4], <<>>)
    BY <1>1, <1>3, <1>4
  <2>2. \A i \in 1..4 : i = 1 \/ i = 2 \/ i = 3 \/ i = 4
    OBVIOUS
  <2>4. \A i \in 1..4 : pairs[i] \in Pairs
    BY <2>1, <2>2
  <2>5. pairs \in [1..4 -> Pairs]
    BY <1>1, <2>4
  <2> HIDE DEF pairs, Pairs
  <2>6. pairs \in Seq(Pairs)
    BY <2>5, SeqDef
  <2>7. DOMAIN pairs = 1..Len(pairs) /\ Len(pairs) \in Nat
    BY <2>6, LenProperties
  <2>8. Len(pairs) = 4
    BY <2>5, <2>7
  <2> QED
    BY <2>1, <2>6, <2>8
<1> HIDE DEF pairs, Pairs
<1>6. ~ \E i \in DOMAIN line : Throws(line[i])
  BY <1>1, <1>3, <1>4
<1>7. BotsOption # MapsOption
  BY DEF BotsOption, MapsOption
<1>8. CASE n1 = BotsOption
  <2>1. n3 = MapsOption
    BY <1>2, <1>8 DEF Options
  <2>2. one = [pairs |-> RemoveAt(RemoveAt(pairs, 1), 1), results |-> With(NoResults, <<BotsOption>>, line[2])]
    <3>1. 1 \in 1..Len(pairs) - 1 /\ 1..1 - 1 = {} /\ pairs[1 + 1].first = line[2]
      BY <1>5 DEF Pair
    <3> QED
      BY <1>5, <1>8, <3>1, OptionTaken, SMTT(30)
  <2> DEFINE rest == RemoveAt(RemoveAt(pairs, 1), 1)
  <2>3. /\ rest \in Seq(Pairs) /\ Len(rest) = 2
        /\ rest[1] = Pair(<<MapsOption>>, <<>>) /\ rest[2] = Pair(line[4], <<>>)
    BY <1>5, <2>1, RemovedPair
  <2> HIDE DEF rest
  <2>4. two.results = With(With(NoResults, <<BotsOption>>, line[2]), <<MapsOption>>, line[4])
    <3>1. 1 \in 1..Len(rest) - 1 /\ 1..1 - 1 = {} /\ rest[1 + 1].first = line[4]
      BY <2>3 DEF Pair
    <3>2. two = [pairs |-> RemoveAt(RemoveAt(rest, 1), 1),
                 results |-> With(With(NoResults, <<BotsOption>>, line[2]), <<MapsOption>>, line[4])]
      BY <2>2, <2>3, <3>1, OptionTaken, SMTT(30) DEF rest
    <3> QED
      BY <3>2
  <2>5. /\ <<BotsOption>> \in DOMAIN two.results /\ <<MapsOption>> \in DOMAIN two.results
        /\ two.results[<<BotsOption>>] = line[2] /\ two.results[<<MapsOption>>] = line[4]
    BY <1>7, <2>4 DEF With
  <2>6. Parse(line) = Parsed("true", two.results)
    BY <1>1, <1>6, <2>5 DEF Parse, Options, pairs
  <2> HIDE DEF two
  <2> QED
    BY <1>2, <1>8, <2>5, <2>6 DEF PlainGood, Parsed, GetOpt
<1>9. CASE n1 = MapsOption
  <2>1. n3 = BotsOption
    BY <1>2, <1>9 DEF Options
  <2>2. one = [pairs |-> RemoveAt(RemoveAt(pairs, 3), 3), results |-> With(NoResults, <<BotsOption>>, line[4])]
    <3>1. /\ 3 \in 1..Len(pairs) - 1 /\ pairs[3 + 1].first = line[4]
          /\ pairs[1].first[1] # BotsOption /\ pairs[2].first[1] # BotsOption
      BY <1>2, <1>5, <1>7, <1>9 DEF Pair
    <3>2. \A j \in 1..3 - 1 : ~ (pairs[j].first # <<>> /\ pairs[j].first[1] = BotsOption)
      <4>1. \A j \in 1..3 - 1 : j = 1 \/ j = 2
        OBVIOUS
      <4> QED
        BY <3>1, <4>1
    <3> QED
      BY <1>5, <2>1, <3>1, <3>2, OptionTaken
  <2> DEFINE rest == RemoveAt(RemoveAt(pairs, 3), 3)
  <2>3. /\ rest \in Seq(Pairs) /\ Len(rest) = 2
        /\ rest[1] = Pair(<<MapsOption>>, <<>>) /\ rest[2] = Pair(line[2], <<>>)
    <3>1. 3 \in 1..3
      OBVIOUS
    <3> QED
      BY <1>5, <1>9, <3>1, RemovedPair
  <2> HIDE DEF rest
  <2>4. two.results = With(With(NoResults, <<BotsOption>>, line[4]), <<MapsOption>>, line[2])
    <3>1. 1 \in 1..Len(rest) - 1 /\ 1..1 - 1 = {} /\ rest[1 + 1].first = line[2]
      BY <2>3 DEF Pair
    <3>2. two = [pairs |-> RemoveAt(RemoveAt(rest, 1), 1),
                 results |-> With(With(NoResults, <<BotsOption>>, line[4]), <<MapsOption>>, line[2])]
      BY <2>2, <2>3, <3>1, OptionTaken DEF rest
    <3> QED
      BY <3>2
  <2>5. /\ <<BotsOption>> \in DOMAIN two.results /\ <<MapsOption>> \in DOMAIN two.results
        /\ two.results[<<BotsOption>>] = line[4] /\ two.results[<<MapsOption>>] = line[2]
    BY <1>7, <2>4 DEF With
  <2>6. Parse(line) = Parsed("true", two.results)
    BY <1>1, <1>6, <2>5 DEF Parse, Options, pairs
  <2>7. ~ IsName(line[1], BotsOption)
    BY <1>2, <1>7, <1>9 DEF IsName, BotsOption, MapsOption, Dash
  <2> HIDE DEF two
  <2> QED
    BY <2>5, <2>6, <2>7 DEF PlainGood, Parsed, GetOpt
<1> QED
  BY <1>2, <1>8, <1>9 DEF Options

---------------------------------------------------------------------------
(* The inductive invariant. *)

(* The file that is being hashed: what update was given is what was read,  *)
(* and while nobody changes the file that is its beginning.                *)
FileOK(f) ==
  /\ f \in [path : Paths, bytes : Seq(Nat), length : Int, eof : BOOLEAN, read : Nat,
            ctx : [absorbed : Seq(Nat), block : Seq(Nat), total : Nat],
            changes : Nat, cut : BOOLEAN]
  /\ Absorbs(f.ctx) /\ f.read = Len(Fed(f.ctx))
  /\ \A c \in steady[f.path] :
       /\ f.bytes = Bytes(c) /\ f.length = Length(c)
       /\ f.read <= Len(f.bytes) /\ Fed(f.ctx) = SubSeq(f.bytes, 1, f.read)

(* The digest of a file: whole blocks, and of a file that had only one     *)
(* content the one of FIPS 180-2.                                          *)
DigestOK(digest, path) ==
  /\ Whole(Len(digest))
  /\ \A c \in steady[path] : Fits(Bytes(c)) => digest = Padded(Bytes(c))

(* The file that is open, if any.                                          *)
Opened == {f.path : f \in file}

(* The bots in the directory that was given for them.                      *)
Bots == Filtered(GetOpt(opts, BotsOption), ".so")
(* The maps in the directory that was given for them.                      *)
SC2Maps == Filtered(GetOpt(opts, MapsOption), ".SC2Map")

(* Of the files wanted each is yet to do, open or has its digest, and of   *)
(* what is yet to do nothing is done.                                      *)
Progress(map, wanted) ==
  /\ todo \cup Opened \cup DOMAIN map = wanted
  /\ todo \cap (Opened \cup DOMAIN map) = {}

(* What is there at each stage of the program.                             *)
Stages ==
  /\ stage \in {"parse", "bots", "maps"} \cup Ended
  /\ stage = "parse" => args \in ArgLists
  /\ stage \notin {"bots", "maps"} => todo = {} /\ file = {}
  /\ stage = "bots" => Progress(botMap, Bots) /\ DOMAIN mapMap = {}
  /\ stage = "maps" => Progress(mapMap, SC2Maps) /\ DOMAIN botMap = Bots
  /\ stage = "running" => DOMAIN botMap = Bots /\ DOMAIN mapMap = SC2Maps
  /\ stage \in {"parse", "exited", "terminated"} => DOMAIN botMap = {} /\ DOMAIN mapMap = {}

(* The inductive invariant.                                                *)
IInv ==
  /\ Stages
  /\ file = {} \/ \E f : file = {f}
  /\ \A f \in file : FileOK(f)
  /\ steady \in [Paths -> SUBSET Contents]
  /\ \A p \in DOMAIN botMap : DigestOK(botMap[p], p)
  /\ \A p \in DOMAIN mapMap : DigestOK(mapMap[p], p)

(* It holds at first: nothing is read.                                     *)
LEMMA InitInv == Init => IInv
<1> SUFFICES ASSUME Init PROVE IInv
  OBVIOUS
<1>1. /\ stage = "parse" /\ args \in ArgLists /\ todo = {} /\ file = {}
      /\ botMap = [p \in {} |-> <<>>] /\ mapMap = [p \in {} |-> <<>>]
      /\ steady = [p \in Paths |-> {}]
  BY DEF Init
<1>2. DOMAIN botMap = {} /\ DOMAIN mapMap = {}
  BY <1>1
<1>3. Stages
  BY <1>1, <1>2 DEF Stages
<1> QED
  BY <1>1, <1>2, <1>3 DEF IInv

(* No file is filtered by both extensions.                                 *)
LEMMA FilteredPaths ==
  /\ \A dir, ext : Filtered(dir, ext) \subseteq Paths
  /\ \A d, e : Filtered(d, ".so") \cap Filtered(e, ".SC2Map") = {}
<1>1. \A dir \in DOMAIN Listing : Listing[dir] \subseteq UNION Range(Listing)
  BY DEF Range
<1>2. \A dir, ext : \A p \in Filtered(dir, ext) :
        \E f \in UNION Range(Listing) : f.path = p /\ f.ext = ext
  BY <1>1 DEF Filtered
<1>3. ".so" # ".SC2Map"
  OBVIOUS
<1> QED
  BY <1>2, <1>3, StartupAssumption DEF Paths

(* What a file is read as: tellg counts its bytes, or fails for it.        *)
LEMMA ContentBytes ==
  ASSUME NEW c \in Contents
  PROVE  /\ Bytes(c) \in Seq(Nat) /\ Length(c) \in Int
         /\ Length(c) <= Len(Bytes(c))
         /\ Len(Bytes(c)) > 0 => Length(c) = Len(Bytes(c))
<1>1. CASE c = {}
  <2>1. Bytes(c) = <<>> /\ Length(c) = -1
    BY <1>1 DEF Bytes, Length
  <2>2. <<>> \in Seq(Nat) /\ Len(<<>>) = 0
    OBVIOUS
  <2> QED
    BY <2>1, <2>2
<1>2. CASE \E m \in Message : c = {m}
  <2>1. PICK m \in Message : c = {m}
    BY <1>2
  <2>2. Bytes(c) = m /\ Length(c) = Len(m)
    BY <2>1 DEF Bytes, Length
  <2>3. m \in Seq(Nat)
    <3>1. m \in Seq(0..Base - 1) /\ 0..Base - 1 \subseteq Nat
      BY Sha256Assumption
    <3> QED
      BY <3>1, SeqMonotonic
  <2>4. Len(m) \in Nat
    BY <2>3
  <2> QED
    BY <2>2, <2>3, <2>4
<1> QED
  BY <1>1, <1>2 DEF Contents

(* The command line says which files are wanted.                           *)
LEMMA ParseOptsInv == IInv /\ ParseOpts => IInv'
<1> SUFFICES ASSUME IInv, ParseOpts PROVE IInv'
  OBVIOUS
<1> USE DEF IInv
<1>1. /\ stage = "parse" /\ todo = {} /\ file = {}
      /\ DOMAIN botMap = {} /\ DOMAIN mapMap = {}
  BY DEF ParseOpts, Stages
<1>2. file' = file /\ botMap' = botMap /\ mapMap' = mapMap /\ steady' = steady
  BY DEF ParseOpts, maps
<1>3. Stages'
  <2>1. CASE stage' = "bots" /\ todo' = Filtered(GetOpt(opts', BotsOption), ".so")
    <3>1. todo' = Bots' /\ Opened' = {}
      BY <1>1, <1>2, <2>1 DEF Bots, Opened
    <3> QED
      BY <1>1, <1>2, <2>1, <3>1 DEF Stages, Progress, Ended
  <2>2. CASE stage' \in {"exited", "terminated"} /\ todo' = {}
    BY <1>1, <1>2, <2>2 DEF Stages, Ended
  <2> QED
    BY <1>1, <2>1, <2>2 DEF ParseOpts, BeginDirectory
<1> QED
  BY <1>1, <1>2, <1>3 DEF DigestOK

(* One directory is done and the other begun, or both are done.            *)
LEMMA EndDirectoryInv == IInv /\ EndDirectory => IInv'
<1> SUFFICES ASSUME IInv, EndDirectory PROVE IInv'
  OBVIOUS
<1> USE DEF IInv
<1>1. file = {} /\ todo = {} /\ Opened = {}
  BY DEF EndDirectory, Opened
<1>2. file' = file /\ botMap' = botMap /\ mapMap' = mapMap /\ steady' = steady /\ opts' = opts
      /\ Opened' = {} /\ Bots' = Bots /\ SC2Maps' = SC2Maps
  BY <1>1 DEF EndDirectory, maps, Opened, Bots, SC2Maps
<1>3. Stages'
  <2>1. CASE stage = "bots" /\ stage' = "maps" /\ todo' = Filtered(GetOpt(opts, MapsOption), ".SC2Map")
    <3>1. DOMAIN botMap = Bots /\ DOMAIN mapMap = {} /\ todo' = SC2Maps
      BY <1>1, <2>1 DEF Stages, Progress, SC2Maps
    <3> QED
      BY <1>1, <1>2, <2>1, <3>1 DEF Stages, Progress
  <2>2. CASE stage = "maps" /\ stage' = "running" /\ todo' = todo
    <3>1. DOMAIN botMap = Bots /\ DOMAIN mapMap = SC2Maps
      BY <1>1, <2>2 DEF Stages, Progress
    <3> QED
      BY <1>1, <1>2, <2>2, <3>1 DEF Stages, Ended
  <2> QED
    BY <2>1, <2>2 DEF EndDirectory, BeginDirectory
<1> QED
  BY <1>1, <1>2, <1>3 DEF DigestOK

(* A file to do is opened and nothing is read of it.                       *)
LEMMA OpenFileInv ==
  ASSUME NEW path \in Paths, NEW content \in Contents
  PROVE  IInv /\ OpenFile(path, content) => IInv'
<1> SUFFICES ASSUME IInv, OpenFile(path, content) PROVE IInv'
  OBVIOUS
<1> USE DEF IInv
<1> DEFINE f == [path |-> path, bytes |-> Bytes(content), length |-> Length(content),
                 eof |-> FALSE, read |-> 0, ctx |-> Fresh, changes |-> 0, cut |-> FALSE]
<1>1. /\ stage \in {"bots", "maps"} /\ file = {} /\ path \in todo /\ todo' = todo \ {path}
      /\ file' = {f} /\ steady' = [steady EXCEPT ![path] = {content}]
      /\ stage' = stage /\ opts' = opts /\ botMap' = botMap /\ mapMap' = mapMap
  BY DEF OpenFile
<1>2. Opened = {} /\ Opened' = {path} /\ Bots' = Bots /\ SC2Maps' = SC2Maps
  BY <1>1 DEF Opened, Bots, SC2Maps
<1>3. steady' \in [Paths -> SUBSET Contents] /\ steady'[path] = {content}
      /\ \A p \in Paths : p # path => steady'[p] = steady[p]
  BY <1>1
<1>4. FileOK(f)'
  <2>1. /\ Bytes(content) \in Seq(Nat) /\ Length(content) \in Int
        /\ Len(Bytes(content)) \in Nat /\ SubSeq(Bytes(content), 1, 0) = <<>>
    BY ContentBytes
  <2>2. Absorbs(Fresh) /\ Fed(Fresh) = <<>> /\ Len(<<>>) = 0
    BY FreshAbsorbs
  <2>3. Fresh \in [absorbed : Seq(Nat), block : Seq(Nat), total : Nat]
    BY <2>2 DEF Absorbs
  <2> QED
    BY <1>3, <2>1, <2>2, <2>3 DEF FileOK
<1>5. path \notin DOMAIN botMap /\ path \notin DOMAIN mapMap
  <2>1. CASE stage = "bots"
    BY <1>1, <2>1 DEF Stages, Progress
  <2>2. CASE stage = "maps"
    <3>1. path \in SC2Maps /\ path \notin DOMAIN mapMap /\ DOMAIN botMap = Bots
      BY <1>1, <2>2 DEF Stages, Progress
    <3> QED
      BY <3>1, FilteredPaths DEF Bots, SC2Maps
  <2> QED
    BY <1>1, <2>1, <2>2
<1>6. DOMAIN botMap \subseteq Paths /\ DOMAIN mapMap \subseteq Paths
  BY <1>1, FilteredPaths DEF Stages, Progress, Bots, SC2Maps
<1>7. /\ \A p \in DOMAIN botMap : DigestOK(botMap[p], p)'
      /\ \A p \in DOMAIN mapMap : DigestOK(mapMap[p], p)'
  BY <1>1, <1>3, <1>5, <1>6 DEF DigestOK
<1> HIDE DEF f
<1>8. Stages'
  <2>1. ASSUME NEW map, NEW wanted, Progress(map, wanted)
        PROVE  /\ todo' \cup Opened' \cup DOMAIN map = wanted
               /\ todo' \cap (Opened' \cup DOMAIN map) = {}
    BY <1>1, <1>2, <2>1 DEF Progress
  <2>2. CASE stage = "bots"
    <3>1. Progress(botMap, Bots)' /\ DOMAIN mapMap = {}
      BY <1>1, <1>2, <2>1, <2>2 DEF Stages, Progress
    <3> QED
      BY <1>1, <2>2, <3>1 DEF Stages
  <2>3. CASE stage = "maps"
    <3>1. Progress(mapMap, SC2Maps)' /\ DOMAIN botMap = Bots
      BY <1>1, <1>2, <2>1, <2>3 DEF Stages, Progress
    <3> QED
      BY <1>1, <1>2, <2>3, <3>1 DEF Stages
  <2> QED
    BY <1>1, <2>2, <2>3
<1> QED
  BY <1>1, <1>3, <1>4, <1>7, <1>8

(* What was read and the next bytes are again a beginning.                 *)
LEMMA NextBytes ==
  ASSUME NEW s \in Seq(Nat), NEW r \in Nat, NEW k \in Nat, r <= k, k <= Len(s)
  PROVE  /\ SubSeq(s, r + 1, k) \in Seq(Nat) /\ Len(SubSeq(s, r + 1, k)) = k - r
         /\ Cat(SubSeq(s, 1, r), SubSeq(s, r + 1, k)) = SubSeq(s, 1, k)
<1> DEFINE a == SubSeq(s, 1, r)
           b == SubSeq(s, r + 1, k)
           c == SubSeq(s, 1, k)
<1>1. a \in Seq(Nat) /\ Len(a) = r /\ \A i \in 1..r : a[i] = s[i]
  OBVIOUS
<1>2. b \in Seq(Nat) /\ Len(b) = k - r /\ \A i \in 1..k - r : b[i] = s[r + i]
  OBVIOUS
<1>3. c \in Seq(Nat) /\ Len(c) = k /\ \A i \in 1..k : c[i] = s[i]
  OBVIOUS
<1> HIDE DEF a, b, c
<1>4. /\ a \o b \in Seq(Nat) /\ Len(a \o b) = Len(a) + Len(b)
      /\ \A i \in 1..Len(a) + Len(b) : (a \o b)[i] = IF i <= Len(a) THEN a[i] ELSE b[i - Len(a)]
  <2>1. a \in Seq(Nat) /\ b \in Seq(Nat)
    BY <1>1, <1>2
  <2> QED
    BY <2>1, ConcatProperties
<1>5. Len(a \o b) = k
  <2>1. r + (k - r) = k
    OBVIOUS
  <2> QED
    BY <1>1, <1>2, <1>4, <2>1, Zenon
<1>6. ASSUME NEW i \in 1..k
      PROVE  (a \o b)[i] = c[i]
  <2>1. i \in 1..Len(a) + Len(b)
    BY <1>1, <1>2
  <2>2. CASE i <= r
    <3>1. i \in 1..r
      BY <2>2
    <3> QED
      BY <1>1, <1>3, <1>4, <2>1, <2>2, <3>1
  <2>3. CASE ~ (i <= r)
    <3>1. i - r \in 1..k - r /\ r + (i - r) = i
      BY <2>3
    <3> QED
      BY <1>1, <1>2, <1>3, <1>4, <2>1, <2>3, <3>1
  <2> QED
    BY <2>2, <2>3
<1>7. a \o b = c
  BY <1>3, <1>4, <1>5, <1>6, SeqEqual
<1> QED
  BY <1>2, <1>7 DEF a, b, c, Cat

(* A read gives the next bytes of the file, or none. *)
LEMMA ChunkRead ==
  ASSUME NEW bytes \in Seq(Nat), NEW read \in Nat, NEW eof
  PROVE  LET left == IF eof THEN {} ELSE read + 1..Len(bytes)
             got  == SubSeq(bytes, read + 1, read + Min({Chunk, Cardinality(left)}))
         IN /\ got \in Seq(Nat)
            /\ read <= Len(bytes) =>
                 /\ read + Len(got) <= Len(bytes)
                 /\ Cat(SubSeq(bytes, 1, read), got) = SubSeq(bytes, 1, read + Len(got))
<1> DEFINE left == IF eof THEN {} ELSE read + 1..Len(bytes)
           n == Min({Chunk, Cardinality(left)})
           got == SubSeq(bytes, read + 1, read + n)
<1>1. Len(bytes) \in Nat /\ Chunk \in Nat \ {0}
  BY StartupAssumption
<1>2. Cardinality(left) \in Nat /\ (Cardinality(left) # 0 => read + Cardinality(left) <= Len(bytes))
  <2>1. CASE eof
    BY <2>1, FS_EmptySet
  <2>2. CASE ~ eof
    <3>1. left = read + 1..Len(bytes) /\ read + 1 \in Int /\ Len(bytes) \in Int
      BY <1>1, <2>2
    <3>2. Cardinality(read + 1..Len(bytes))
            = IF read + 1 > Len(bytes) THEN 0 ELSE Len(bytes) - (read + 1) + 1
      BY <3>1, FS_Interval
    <3> QED
      BY <1>1, <3>1, <3>2
  <2> QED
    BY <2>1, <2>2
<1>3. n \in {Chunk, Cardinality(left)} /\ n <= Cardinality(left)
  <2> DEFINE c == Cardinality(left)
  <2>1. c \in Nat
    BY <1>2
  <2> HIDE DEF c
  <2>2. \E x \in {Chunk, c} : \A y \in {Chunk, c} : x <= y
    BY <1>1, <2>1
  <2>3. Min({Chunk, c}) \in {Chunk, c} /\ \A y \in {Chunk, c} : Min({Chunk, c}) <= y
    BY <2>2 DEF Min
  <2> QED
    BY <2>3 DEF c
<1>4. n \in Nat
  BY <1>1, <1>2, <1>3
<1> HIDE DEF n, left
<1>5. CASE n = 0
  <2>1. got = <<>>
    BY <1>1, <1>5
  <2>2. SubSeq(bytes, 1, read) \in Seq(Nat) \/ ~ (read <= Len(bytes))
    BY <1>1
  <2>3. Cat(SubSeq(bytes, 1, read), <<>>) = SubSeq(bytes, 1, read) \/ ~ (read <= Len(bytes))
    BY <2>2, ConcatEmptySeq DEF Cat
  <2>4. <<>> \in Seq(Nat) /\ Len(<<>>) = 0 /\ read + 0 = read
    OBVIOUS
  <2> HIDE DEF got
  <2> QED
    BY <2>1, <2>3, <2>4 DEF got, n, left
<1>6. CASE n # 0
  <2>1. read + n \in Nat /\ read <= read + n /\ read + n <= Len(bytes)
    BY <1>1, <1>2, <1>3, <1>4, <1>6
  <2>2. /\ got \in Seq(Nat) /\ Len(got) = (read + n) - read
        /\ Cat(SubSeq(bytes, 1, read), got) = SubSeq(bytes, 1, read + n)
    BY <2>1, NextBytes
  <2>3. read + Len(got) = read + n
    BY <1>4, <2>2
  <2> HIDE DEF got
  <2> QED
    BY <2>1, <2>2, <2>3 DEF got, n, left
<1> QED
  BY <1>5, <1>6

(* The next bytes are given to update, which loses none of them.           *)
LEMMA ReadChunkInv == IInv /\ ReadChunk => IInv'
<1> SUFFICES ASSUME IInv, ReadChunk PROVE IInv'
  OBVIOUS
<1> USE DEF IInv
<1>1. PICK f \in file :
        LET left == IF f.eof THEN {} ELSE f.read + 1..Len(f.bytes)
            got  == SubSeq(f.bytes, f.read + 1, f.read + Min({Chunk, Cardinality(left)}))
        IN /\ file' = {[f EXCEPT !.read = @ + Len(got), !.eof = @ \/ Len(got) < Chunk,
                                 !.ctx = Update(@, got)]}
           /\ UNCHANGED <<stage, args, opts, todo, maps>>
  BY DEF ReadChunk
<1> DEFINE left == IF f.eof THEN {} ELSE f.read + 1..Len(f.bytes)
           got  == SubSeq(f.bytes, f.read + 1, f.read + Min({Chunk, Cardinality(left)}))
           g == [f EXCEPT !.read = @ + Len(got), !.eof = @ \/ Len(got) < Chunk,
                          !.ctx = Update(@, got)]
<1>2. /\ file' = {g} /\ stage' = stage /\ args' = args /\ opts' = opts /\ todo' = todo
      /\ botMap' = botMap /\ mapMap' = mapMap /\ steady' = steady
  BY <1>1 DEF maps
<1>3. FileOK(f) /\ file = {f}
  OBVIOUS
<1>4. /\ f \in [path : Paths, bytes : Seq(Nat), length : Int, eof : BOOLEAN, read : Nat,
                ctx : [absorbed : Seq(Nat), block : Seq(Nat), total : Nat],
                changes : Nat, cut : BOOLEAN]
      /\ Absorbs(f.ctx) /\ f.read = Len(Fed(f.ctx))
  BY <1>3 DEF FileOK
<1>5. /\ got \in Seq(Nat)
      /\ f.read <= Len(f.bytes) =>
           /\ f.read + Len(got) <= Len(f.bytes)
           /\ Cat(SubSeq(f.bytes, 1, f.read), got) = SubSeq(f.bytes, 1, f.read + Len(got))
  <2>1. f.bytes \in Seq(Nat) /\ f.read \in Nat
    BY <1>4
  <2> QED
    BY <2>1, ChunkRead, Zenon
<1> HIDE DEF left, got
<1>6. Absorbs(Update(f.ctx, got)) /\ Fed(Update(f.ctx, got)) = Cat(Fed(f.ctx), got)
  BY <1>4, <1>5, UpdateAbsorbs
<1>7. Fed(f.ctx) \in Seq(Nat)
  <2>1. f.ctx.absorbed \in Seq(Nat) /\ f.ctx.block \in Seq(Nat)
    BY <1>4
  <2> QED
    BY <2>1, CatProperties DEF Fed
<1>8. Len(Cat(Fed(f.ctx), got)) = f.read + Len(got) /\ Len(got) \in Nat
  BY <1>4, <1>5, <1>7, CatProperties
<1>9. /\ g.path = f.path /\ g.bytes = f.bytes /\ g.length = f.length
      /\ g.read = f.read + Len(got) /\ g.ctx = Update(f.ctx, got)
      /\ g \in [path : Paths, bytes : Seq(Nat), length : Int, eof : BOOLEAN, read : Nat,
                ctx : [absorbed : Seq(Nat), block : Seq(Nat), total : Nat],
                changes : Nat, cut : BOOLEAN]
  <2>1. Update(f.ctx, got) \in [absorbed : Seq(Nat), block : Seq(Nat), total : Nat]
    BY <1>6 DEF Absorbs
  <2>2. f.read + Len(got) \in Nat /\ (f.eof \/ Len(got) < Chunk) \in BOOLEAN
    BY <1>4, <1>8
  <2> QED
    BY <1>4, <2>1, <2>2
<1> HIDE DEF g
<1>10. \A c \in steady[f.path] :
         /\ f.bytes = Bytes(c) /\ f.length = Length(c)
         /\ f.read <= Len(f.bytes) /\ Fed(f.ctx) = SubSeq(f.bytes, 1, f.read)
  BY <1>3 DEF FileOK
<1>11. FileOK(g)'
  <2>1. ASSUME NEW c \in steady[f.path]
        PROVE  /\ g.read <= Len(g.bytes) /\ Fed(g.ctx) = SubSeq(g.bytes, 1, g.read)
               /\ g.bytes = Bytes(c) /\ g.length = Length(c)
    BY <1>5, <1>6, <1>9, <1>10
  <2>2. Absorbs(g.ctx) /\ g.read = Len(Fed(g.ctx))
    BY <1>6, <1>8, <1>9
  <2> QED
    BY <1>2, <1>9, <2>1, <2>2 DEF FileOK
<1>12. Opened' = Opened /\ Bots' = Bots /\ SC2Maps' = SC2Maps
  BY <1>2, <1>3, <1>9 DEF Opened, Bots, SC2Maps
<1>13. Stages'
  <2>1. stage \in {"bots", "maps"}
    BY <1>3 DEF Stages
  <2> QED
    BY <1>2, <1>12, <2>1 DEF Stages, Progress
<1> QED
  BY <1>2, <1>11, <1>13 DEF DigestOK

(* The file has been read to its end: its digest is that of all of it.     *)
LEMMA CloseFileInv == IInv /\ CloseFile => IInv'
<1> SUFFICES ASSUME IInv, CloseFile PROVE IInv'
  OBVIOUS
<1> USE DEF IInv
<1>1. PICK f \in file :
        /\ ~ MoreToRead(f) /\ file' = {}
        /\ botMap' = IF stage = "bots" THEN Digested(botMap, f) ELSE botMap
        /\ mapMap' = IF stage = "maps" THEN Digested(mapMap, f) ELSE mapMap
        /\ UNCHANGED <<stage, args, opts, todo, steady>>
  BY DEF CloseFile
<1>2. file = {f} /\ FileOK(f) /\ stage \in {"bots", "maps"}
  BY <1>1 DEF Stages
<1>3. Opened = {f.path} /\ Opened' = {} /\ Bots' = Bots /\ SC2Maps' = SC2Maps
  BY <1>1, <1>2 DEF Opened, Bots, SC2Maps
<1>4. /\ f \in [path : Paths, bytes : Seq(Nat), length : Int, eof : BOOLEAN, read : Nat,
                ctx : [absorbed : Seq(Nat), block : Seq(Nat), total : Nat],
                changes : Nat, cut : BOOLEAN]
      /\ Absorbs(f.ctx)
  BY <1>2 DEF FileOK
<1>5. DigestOK(Final(f.ctx), f.path)
  <2>1. ASSUME NEW c \in steady[f.path]
        PROVE  Fed(f.ctx) = Bytes(c)
    <3>1. c \in Contents
      BY <1>4
    <3>2. /\ f.bytes = Bytes(c) /\ f.length = Length(c)
          /\ f.read <= Len(f.bytes) /\ Fed(f.ctx) = SubSeq(f.bytes, 1, f.read)
      BY <1>2 DEF FileOK
    <3>3. Len(f.bytes) \in Nat /\ f.length \in Int /\ f.read \in Nat /\ ~ (f.read < f.length)
      BY <1>1, <1>4 DEF MoreToRead
    <3>4. f.read = Len(f.bytes)
      BY <3>1, <3>2, <3>3, ContentBytes
    <3>5. SubSeq(f.bytes, 1, Len(f.bytes)) = f.bytes
      BY <1>4
    <3> QED
      BY <3>2, <3>4, <3>5
  <2>2. Whole(Len(Final(f.ctx))) /\ (Fits(Fed(f.ctx)) => Final(f.ctx) = Padded(Fed(f.ctx)))
    BY <1>4, FinalPads
  <2> QED
    BY <2>1, <2>2 DEF DigestOK
<1>6. ASSUME NEW map, \A p \in DOMAIN map : DigestOK(map[p], p)
      PROVE  /\ DOMAIN Digested(map, f) = DOMAIN map \cup {f.path}
             /\ \A p \in DOMAIN Digested(map, f) : DigestOK(Digested(map, f)[p], p)
  <2>1. /\ DOMAIN Digested(map, f) = DOMAIN map \cup {f.path}
        /\ \A p \in DOMAIN map \cup {f.path} :
             Digested(map, f)[p] = IF p = f.path THEN Final(f.ctx) ELSE map[p]
    BY DEF Digested
  <2> QED
    BY <1>5, <1>6, <2>1
<1>7. ASSUME NEW map, NEW wanted, Progress(map, wanted)
      PROVE  /\ todo' \cup Opened' \cup DOMAIN Digested(map, f) = wanted
             /\ todo' \cap (Opened' \cup DOMAIN Digested(map, f)) = {}
  <2>1. DOMAIN Digested(map, f) = DOMAIN map \cup {f.path}
    BY DEF Digested
  <2> QED
    BY <1>1, <1>3, <1>7, <2>1 DEF Progress
<1>8. \A p, d : DigestOK(d, p) => DigestOK(d, p)'
  BY <1>1 DEF DigestOK
<1>9. CASE stage = "bots"
  <2>1. botMap' = Digested(botMap, f) /\ mapMap' = mapMap
    BY <1>1, <1>9
  <2>2. Progress(botMap, Bots)' /\ DOMAIN mapMap = {}
    BY <1>3, <1>7, <1>9, <2>1 DEF Stages, Progress
  <2>3. Stages'
    BY <1>1, <1>9, <2>1, <2>2 DEF Stages
  <2>4. \A p \in DOMAIN botMap' : DigestOK(botMap'[p], p)
    BY <1>6, <2>1
  <2> QED
    BY <1>1, <1>8, <2>1, <2>3, <2>4
<1>10. CASE stage = "maps"
  <2>1. mapMap' = Digested(mapMap, f) /\ botMap' = botMap
    BY <1>1, <1>10
  <2>2. Progress(mapMap, SC2Maps)' /\ DOMAIN botMap = Bots
    BY <1>3, <1>7, <1>10, <2>1 DEF Stages, Progress
  <2>3. Stages'
    BY <1>1, <1>3, <1>10, <2>1, <2>2 DEF Stages
  <2>4. \A p \in DOMAIN mapMap' : DigestOK(mapMap'[p], p)
    BY <1>6, <2>1
  <2> QED
    BY <1>1, <1>8, <2>1, <2>3, <2>4
<1> QED
  BY <1>2, <1>9, <1>10

(* Somebody changes the file: from then on nothing is said of its digest.  *)
LEMMA ChangeFileInv == IInv /\ ChangeFile => IInv'
<1> SUFFICES ASSUME IInv, ChangeFile PROVE IInv'
  OBVIOUS
<1> USE DEF IInv
<1>1. PICK f \in file :
        /\ steady' = [steady EXCEPT ![f.path] = {}]
        /\ \/ \E m \in Message : file' = {[f EXCEPT !.bytes = m, !.changes = @ + 1]}
           \/ \E n \in 0..Len(f.bytes) - 1 :
                file' = {[f EXCEPT !.bytes = SubSeq(@, 1, n), !.changes = @ + 1, !.cut = TRUE]}
        /\ UNCHANGED <<stage, args, opts, todo, botMap, mapMap>>
  BY DEF ChangeFile
<1>2. file = {f} /\ FileOK(f) /\ stage \in {"bots", "maps"}
  BY <1>1 DEF Stages
<1>3. /\ f \in [path : Paths, bytes : Seq(Nat), length : Int, eof : BOOLEAN, read : Nat,
                ctx : [absorbed : Seq(Nat), block : Seq(Nat), total : Nat],
                changes : Nat, cut : BOOLEAN]
      /\ Absorbs(f.ctx) /\ f.read = Len(Fed(f.ctx))
  BY <1>2 DEF FileOK
<1>4. /\ steady' \in [Paths -> SUBSET Contents] /\ steady'[f.path] = {}
      /\ \A p \in Paths : steady'[p] \subseteq steady[p]
  BY <1>1, <1>3
<1>5. PICK g : file' = {g} /\ g.path = f.path /\ FileOK(g)'
  <2>1. ASSUME NEW b \in Seq(Nat), NEW cut \in BOOLEAN
        PROVE  LET g == [f EXCEPT !.bytes = b, !.changes = @ + 1, !.cut = cut]
               IN g.path = f.path /\ FileOK(g)'
    <3> DEFINE g == [f EXCEPT !.bytes = b, !.changes = @ + 1, !.cut = cut]
    <3>1. /\ g \in [path : Paths, bytes : Seq(Nat), length : Int, eof : BOOLEAN, read : Nat,
                    ctx : [absorbed : Seq(Nat), block : Seq(Nat), total : Nat],
                    changes : Nat, cut : BOOLEAN]
          /\ g.path = f.path /\ g.ctx = f.ctx /\ g.read = f.read
      <4>1. f.changes + 1 \in Nat
        BY <1>3
      <4> QED
        BY <1>3, <4>1
    <3> HIDE DEF g
    <3>2. FileOK(g)'
      BY <1>3, <1>4, <3>1 DEF FileOK
    <3> QED
      BY <3>1, <3>2 DEF g
  <2>2. CASE \E m \in Message : file' = {[f EXCEPT !.bytes = m, !.changes = @ + 1]}
    <3>1. PICK m \in Message : file' = {[f EXCEPT !.bytes = m, !.changes = @ + 1]}
      BY <2>2
    <3>2. m \in Seq(Nat)
      <4>1. {m} \in Contents
        BY DEF Contents
      <4>2. Bytes({m}) = m
        BY DEF Bytes
      <4> QED
        BY <4>1, <4>2, ContentBytes
    <3>3. [f EXCEPT !.bytes = m, !.changes = @ + 1]
            = [f EXCEPT !.bytes = m, !.changes = @ + 1, !.cut = f.cut]
      BY <1>3
    <3> QED
      BY <1>3, <2>1, <3>1, <3>2, <3>3
  <2>3. CASE \E n \in 0..Len(f.bytes) - 1 :
               file' = {[f EXCEPT !.bytes = SubSeq(@, 1, n), !.changes = @ + 1, !.cut = TRUE]}
    <3>1. PICK n \in 0..Len(f.bytes) - 1 :
            file' = {[f EXCEPT !.bytes = SubSeq(@, 1, n), !.changes = @ + 1, !.cut = TRUE]}
      BY <2>3
    <3>2. SubSeq(f.bytes, 1, n) \in Seq(Nat)
      BY <1>3
    <3> QED
      BY <2>1, <3>1, <3>2
  <2> QED
    BY <1>1, <2>2, <2>3
<1>6. Opened' = Opened /\ Bots' = Bots /\ SC2Maps' = SC2Maps
  <2>1. Opened = {f.path} /\ Opened' = {g.path}
    BY <1>2, <1>5 DEF Opened
  <2> QED
    BY <1>1, <1>5, <2>1 DEF Bots, SC2Maps
<1>7. Stages'
  BY <1>1, <1>2, <1>6 DEF Stages, Progress
<1>8. DOMAIN botMap \subseteq Paths /\ DOMAIN mapMap \subseteq Paths
  BY <1>2, FilteredPaths DEF Stages, Progress, Bots, SC2Maps
<1>9. \A p \in Paths : \A d : DigestOK(d, p) => DigestOK(d, p)'
  BY <1>4 DEF DigestOK
<1> QED
  BY <1>1, <1>4, <1>5, <1>7, <1>8, <1>9

(* Every step keeps the invariant.                                         *)
LEMMA NextInv == IInv /\ [Next]_vars => IInv'
<1> SUFFICES ASSUME IInv, [Next]_vars PROVE IInv'
  OBVIOUS
<1>1. CASE Hashing
  BY <1>1, OpenFileInv, ReadChunkInv, CloseFileInv, EndDirectoryInv DEF Hashing
<1>2. CASE UNCHANGED vars
  <2>1. /\ stage' = stage /\ args' = args /\ opts' = opts /\ todo' = todo /\ file' = file
        /\ botMap' = botMap /\ mapMap' = mapMap /\ steady' = steady
    BY <1>2 DEF vars
  <2> QED
    BY <2>1 DEF IInv, Stages, Progress, Opened, Bots, SC2Maps, FileOK, DigestOK
<1> QED
  BY <1>1, <1>2, ParseOptsInv, ChangeFileInv DEF Next

(* IInv holds in every reachable state.                                    *)
THEOREM Inductive == Spec => []IInv
  BY InitInv, NextInv, PTL DEF Spec

---------------------------------------------------------------------------
(* What it implies. *)

(* Whatever files are found, however they grow or shrink meanwhile, the    *)
(* block that update fills is never full and every digest is whole blocks. *)
THEOREM StartupTyped == Spec => []TypeOK
<1>1. IInv => TypeOK
  <2> SUFFICES ASSUME IInv PROVE TypeOK
    OBVIOUS
  <2> USE DEF IInv
  <2>1. todo \subseteq Paths
    BY FilteredPaths DEF Stages, Progress, Bots, SC2Maps, Ended
  <2>2. Cardinality(file) <= 1
    <3>1. Cardinality({}) = 0 /\ \A f : Cardinality({f}) = 1
      BY FS_EmptySet, FS_Singleton
    <3>2. CASE file = {}
      BY <3>1, <3>2
    <3>3. CASE \E f : file = {f}
      BY <3>1, <3>3
    <3> QED
      BY <3>2, <3>3
  <2>3. \A f \in file : Len(f.ctx.block) < Block /\ Len(f.ctx.absorbed) % Block = 0
    BY WholeBlocks DEF FileOK, Absorbs
  <2>4. /\ \A p \in DOMAIN botMap : Len(botMap[p]) % Block = 0
        /\ \A p \in DOMAIN mapMap : Len(mapMap[p]) % Block = 0
    BY WholeBlocks DEF DigestOK
  <2> QED
    BY <2>1, <2>2, <2>3, <2>4 DEF TypeOK, Stages
<1> QED
  BY <1>1, Inductive, PTL

(* A plain command line, whatever its two values are, gives each option    *)
(* its own.                                                                *)
THEOREM PlainIsUnderstood == Spec => []PlainUnderstood
<1>1. IInv => PlainUnderstood
  <2> SUFFICES ASSUME IInv, stage = "parse", Plain(args)
               PROVE  PlainGood(args)
    BY DEF PlainUnderstood, PlainGood
  <2>1. args \in Seq(Seq(STRING))
    BY StartupAssumption DEF IInv, Stages
  <2> QED
    BY <2>1, PlainParsed
<1> QED
  BY <1>1, Inductive, PTL

(* The digest of a file nobody touches is the one FIPS 180-2 defines,      *)
(* whatever the sizes of chunks and blocks: for every file the length      *)
(* field has room for.                                                     *)
THEOREM DigestsAreOfContent == Spec => []DigestsOfContent
<1>1. IInv => DigestsOfContent
  BY DEF IInv, DigestsOfContent, DigestOK
<1> QED
  BY <1>1, Inductive, PTL

(* A program that runs has one digest for each file with the extension in  *)
(* each of the two directories, and no other.                              *)
THEOREM AllFilesAreHashed == Spec => []AllFilesHashed
<1>1. IInv => AllFilesHashed
  BY DEF IInv, Stages, AllFilesHashed, Bots, SC2Maps
<1> QED
  BY <1>1, Inductive, PTL

=============================================================================
