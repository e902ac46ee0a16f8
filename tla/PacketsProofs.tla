--------------------------- MODULE PacketsProofs ---------------------------
(***************************************************************************)
(* What the packets guarantee for bytes, words and digests of any width:   *)
(* a packet is read as it was written, and a reader waits for exactly its  *)
(* bytes.  The first half is about the bytes of one packet, the second     *)
(* about the stream.                                                       *)
(***************************************************************************)
EXTENDS Packets, Foundations

Bytes == Seq(Byte)
Hash == [1..Digest -> Byte]

(* The widths, from the assumption on the constants. *)
LEMMA Widths ==
  /\ Base \in Nat /\ Base > 1 /\ Word \in Nat \ {0} /\ Digest \in Nat \ {0} /\ MaxHashes \in Nat
  /\ 0 \in Byte /\ 1 \in Byte /\ 0 \notin Blank /\ 1 \notin Blank
  /\ \A b \in Byte : b \in Nat /\ b < Base
  /\ Hashes \subseteq Hash
<1>1. Base \in Nat /\ 0 \in Byte /\ 1 \in Byte
  BY PacketsAssumption
<1>2. Base > 1
  BY <1>1 DEF Byte
<1>3. \A b \in Byte : b \in Nat /\ b < Base
  BY <1>1 DEF Byte
<1> QED
  BY <1>1, <1>2, <1>3, PacketsAssumption DEF Hash

(* The bytes of so many digests. *)
Size(n) == n * Digest

(* They add up. *)
LEMMA Sizes ==
  /\ Size(0) = 0 /\ Size(1) = Digest /\ Size(3) = 3 * Digest
  /\ \A n \in Nat : Size(n) \in Nat /\ Size(n + 1) = Size(n) + Digest
  /\ \A n, m \in Nat : Digest * (n + m) = Size(n) + Size(m)
  /\ \A n, m \in Nat : n <= m => Size(n) <= Size(m)
<1>1. Digest \in Nat
  BY Widths
<1>2. \A d \in Nat : 0 * d = 0 /\ 1 * d = d
  OBVIOUS
<1>3. \A n, d \in Nat : n * d \in Nat /\ (n + 1) * d = (n * d) + d
  OBVIOUS
<1>4. \A n, m, d \in Nat : d * (n + m) = (n * d) + (m * d)
  OBVIOUS
<1>5. \A n, m, d \in Nat : n <= m => n * d <= m * d
  OBVIOUS
<1> QED
  BY <1>1, <1>2, <1>3, <1>4, <1>5 DEF Size

---------------------------------------------------------------------------
(* Sequences that stand in others. *)

(* The bytes s are those from position i on. *)
Stands(s, bytes, i) ==
  /\ i \in Nat \ {0} /\ i + Len(s) <= Len(bytes) + 1
  /\ \A j \in 1..Len(s) : bytes[i + j - 1] = s[j]

(* Concatenation, for proofs that need not look into it. *)
Cat(s, t) == s \o t

(* The parts of a concatenation, and what is not cut off. *)
LEMMA Parts ==
  ASSUME NEW s \in Bytes, NEW t \in Bytes
  PROVE  /\ Cat(s, t) \in Bytes /\ Len(Cat(s, t)) = Len(s) + Len(t)
         /\ Stands(s, Cat(s, t), 1) /\ Stands(t, Cat(s, t), Len(s) + 1)
         /\ SubSeq(Cat(s, t), 1, Len(s)) = s
         /\ SubSeq(Cat(s, t), Len(s) + 1, Len(Cat(s, t))) = t
<1> DEFINE u == Cat(s, t)
<1>1. Len(s) \in Nat /\ Len(t) \in Nat /\ Len(s) + 1 \in Nat
  BY LenProperties DEF Bytes
<1>2. /\ u \in Bytes /\ Len(u) = Len(s) + Len(t)
      /\ \A i \in 1..Len(s) + Len(t) : u[i] = IF i <= Len(s) THEN s[i] ELSE t[i - Len(s)]
  BY ConcatProperties DEF Bytes, Cat
<1> HIDE DEF u
<1>3. ASSUME NEW j \in 1..Len(s) PROVE u[j] = s[j] /\ 1 + j - 1 = j
  BY <1>1, <1>2
<1>4. ASSUME NEW j \in 1..Len(t) PROVE u[Len(s) + j] = t[j] /\ Len(s) + 1 + j - 1 = Len(s) + j
  <2>1. /\ Len(s) + j \in 1..Len(s) + Len(t) /\ ~ (Len(s) + j <= Len(s))
        /\ Len(s) + j - Len(s) = j /\ Len(s) + 1 + j - 1 = Len(s) + j
    BY <1>1
  <2> QED
    BY <1>2, <2>1
<1>5. Stands(s, u, 1)
  BY <1>1, <1>2, <1>3 DEF Stands
<1>6. Stands(t, u, Len(s) + 1)
  BY <1>1, <1>2, <1>4 DEF Stands
<1>7. SubSeq(u, 1, Len(s)) = s
  <2> DEFINE v == SubSeq(u, 1, Len(s))
  <2>1. v \in Bytes /\ Len(v) = Len(s) /\ \A i \in 1..Len(s) : v[i] = u[i]
    BY <1>1, <1>2 DEF Bytes
  <2> HIDE DEF v
  <2>2. v = s
    BY <1>3, <2>1, SeqEqual DEF Bytes
  <2> QED
    BY <2>2 DEF v
<1>8. SubSeq(u, Len(s) + 1, Len(u)) = t
  <2> DEFINE v == SubSeq(u, Len(s) + 1, Len(u))
  <2>1. v \in Bytes /\ Len(v) = Len(t) /\ \A i \in 1..Len(t) : v[i] = u[Len(s) + i]
    BY <1>1, <1>2 DEF Bytes
  <2> HIDE DEF v
  <2>2. v = t
    BY <1>4, <2>1, SeqEqual DEF Bytes
  <2> QED
    BY <2>2 DEF v
<1> QED
  BY <1>2, <1>5, <1>6, <1>7, <1>8 DEF u

(* What stands in a part stands in the whole. *)
LEMMA StandsWithin ==
  ASSUME NEW r \in Bytes, NEW t \in Bytes, NEW u \in Bytes, NEW i, NEW j,
         Stands(r, t, j), Stands(t, u, i)
  PROVE  Stands(r, u, i + j - 1)
<1>1. /\ Len(u) \in Nat /\ Len(t) \in Nat /\ Len(r) \in Nat
      /\ i \in Nat \ {0} /\ i + Len(t) <= Len(u) + 1
      /\ j \in Nat \ {0} /\ j + Len(r) <= Len(t) + 1
  BY LenProperties DEF Bytes, Stands
<1>2. i + j - 1 \in Nat \ {0} /\ i + j - 1 + Len(r) <= Len(u) + 1
  BY <1>1
<1>3. ASSUME NEW k \in 1..Len(r)
      PROVE  u[i + j - 1 + k - 1] = r[k]
  <2>1. j + k - 1 \in 1..Len(t) /\ i + (j + k - 1) - 1 = i + j - 1 + k - 1
    BY <1>1
  <2>2. t[j + k - 1] = r[k]
    BY DEF Stands
  <2>3. u[i + (j + k - 1) - 1] = t[j + k - 1]
    BY <2>1 DEF Stands
  <2> QED
    BY <2>1, <2>2, <2>3
<1> QED
  BY <1>2, <1>3 DEF Stands

(* What stands in the second part stands further back in the whole. *)
LEMMA StandsBehind ==
  ASSUME NEW s \in Bytes, NEW t \in Bytes, NEW r \in Bytes, NEW i, Stands(r, t, i)
  PROVE  Stands(r, Cat(s, t), Len(s) + i)
<1>1. Cat(s, t) \in Bytes /\ Stands(t, Cat(s, t), Len(s) + 1)
  BY Parts
<1>2. Stands(r, Cat(s, t), Len(s) + 1 + i - 1)
  BY <1>1, StandsWithin
<1>3. Len(s) \in Nat /\ i \in Nat
  BY LenProperties DEF Bytes, Stands
<1>4. Len(s) + 1 + i - 1 = Len(s) + i
  BY <1>3
<1> QED
  BY <1>2, <1>4

---------------------------------------------------------------------------
(* Reading bytes. *)

(* Whatever the position, there is a byte: a zero behind the end. *)
LEMMA Peeked ==
  ASSUME NEW bytes \in Bytes, NEW i \in Nat \ {0}
  PROVE  /\ Peek(bytes, i) \in Byte
         /\ i <= Len(bytes) => Peek(bytes, i) = bytes[i]
         /\ i > Len(bytes) => Peek(bytes, i) = 0
<1>1. Len(bytes) \in Nat /\ \A k \in 1..Len(bytes) : bytes[k] \in Byte
  BY LenProperties DEF Bytes
<1>2. i <= Len(bytes) => i \in 1..Len(bytes)
  BY <1>1
<1> QED
  BY <1>1, <1>2, Widths DEF Peek

(* What stands at a position is what is read there. *)
LEMMA PeekStands ==
  ASSUME NEW bytes \in Bytes, NEW s \in Bytes, NEW i, Stands(s, bytes, i)
  PROVE  \A j \in 1..Len(s) : Peek(bytes, i + j - 1) = s[j]
<1> SUFFICES ASSUME NEW j \in 1..Len(s) PROVE Peek(bytes, i + j - 1) = s[j]
  OBVIOUS
<1>1. /\ Len(bytes) \in Nat /\ Len(s) \in Nat /\ i \in Nat \ {0}
      /\ i + Len(s) <= Len(bytes) + 1 /\ bytes[i + j - 1] = s[j]
  BY LenProperties DEF Bytes, Stands
<1>2. i + j - 1 <= Len(bytes)
  BY <1>1
<1> QED
  BY <1>1, <1>2 DEF Peek

(* read fills its destination. *)
LEMMA BytesRead ==
  ASSUME NEW bytes \in Bytes, NEW i \in Nat \ {0}, NEW n \in Nat
  PROVE  /\ ReadBytes(bytes, i, n) \in [1..n -> Byte]
         /\ \A s \in Bytes : Len(s) = n /\ Stands(s, bytes, i) => ReadBytes(bytes, i, n) = s
<1>1. ASSUME NEW j \in 1..n PROVE Peek(bytes, i + j - 1) \in Byte
  BY Peeked
<1>2. ReadBytes(bytes, i, n) \in [1..n -> Byte]
  BY <1>1 DEF ReadBytes
<1>3. ASSUME NEW s \in Bytes, Len(s) = n, Stands(s, bytes, i)
      PROVE  ReadBytes(bytes, i, n) = s
  <2> DEFINE r == ReadBytes(bytes, i, n)
  <2>1. r \in Bytes /\ Len(r) = n
    BY <1>2, FunctionSeq DEF Bytes
  <2>2. \A j \in 1..n : r[j] = Peek(bytes, i + j - 1)
    BY DEF ReadBytes
  <2> HIDE DEF r
  <2>3. r = s
    BY <1>3, <2>1, <2>2, PeekStands, SeqEqual DEF Bytes
  <2> QED
    BY <2>3 DEF r
<1> QED
  BY <1>2, <1>3

(* operator>> finds a byte that is not white space, at once if it is at    *)
(* one: behind the end there are zeros.                                    *)
LEMMA Skipped ==
  ASSUME NEW bytes \in Bytes, NEW i \in Nat \ {0}
  PROVE  /\ Skip(bytes, i) \in Nat /\ Skip(bytes, i) >= i
         /\ Peek(bytes, i) \notin Blank => Skip(bytes, i) = i
<1> DEFINE T == {j \in i..i + Len(bytes) : Peek(bytes, j) \notin Blank}
           Comes(j) == Peek(bytes, j) \notin Blank /\ \A k \in i..j - 1 : Peek(bytes, k) \in Blank
<1>1. Len(bytes) \in Nat
  BY LenProperties DEF Bytes
<1>2. i + Len(bytes) \in T
  <2>1. i + Len(bytes) \in i..i + Len(bytes) /\ i + Len(bytes) > Len(bytes) /\ i + Len(bytes) \in Nat \ {0}
    BY <1>1
  <2>2. Peek(bytes, i + Len(bytes)) = 0
    BY <2>1, Peeked
  <2> QED
    BY <2>1, <2>2, Widths
<1>3. T \subseteq Nat /\ T # {}
  BY <1>1, <1>2
<1>4. PICK j \in T : \A k \in T : j <= k
  <2> HIDE DEF T
  <2> QED
    BY <1>3, LeastElement
<1>5. Comes(j)
  <2>1. ASSUME NEW k \in i..j - 1 PROVE Peek(bytes, k) \in Blank
    <3>1. k \in i..i + Len(bytes) /\ ~ (j <= k)
      BY <1>1, <1>4
    <3> QED
      BY <1>4, <3>1
  <2> QED
    BY <1>4, <2>1
<1>6. Skip(bytes, i) = CHOOSE k \in i..i + Len(bytes) : Comes(k)
  BY DEF Skip
<1>7. Skip(bytes, i) \in i..i + Len(bytes) /\ Comes(Skip(bytes, i))
  <2>1. j \in i..i + Len(bytes)
    BY <1>4
  <2> HIDE DEF Comes, T
  <2> QED
    BY <1>5, <1>6, <2>1
<1>8. ASSUME Peek(bytes, i) \notin Blank PROVE Skip(bytes, i) = i
  <2>1. ~ (i \in i..Skip(bytes, i) - 1)
    BY <1>7, <1>8
  <2> QED
    BY <1>1, <1>7, <2>1
<1> QED
  BY <1>1, <1>7, <1>8

---------------------------------------------------------------------------
(* Integers. *)

(* readUint32 goes through the bytes of a word. *)
LEMMA UintUnfolds ==
  ASSUME NEW bytes \in Bytes, NEW i \in Nat \ {0}
  PROVE  \E f \in [Nat -> Nat] :
           /\ f[0] = 0 /\ ReadUint32(bytes, i) = f[Word]
           /\ \A n \in Nat : f[n + 1] = (f[n] * Base) + Peek(bytes, i + n)
<1> DEFINE Is(f) == f = [n \in Nat |-> IF n = 0 THEN 0
                                       ELSE f[n - 1] * Base + Peek(bytes, i + n - 1)]
           step == [p \in Nat \X Nat |-> (p[2] * Base) + Peek(bytes, i + p[1])]
           value == CHOOSE f : Is(f)
<1>1. \A n \in Nat : Peek(bytes, i + n) \in Nat
  BY Peeked, Widths
<1>2. Base \in Nat
  BY Widths
<1>3. \A n, v \in Nat : (v * Base) + Peek(bytes, i + n) \in Nat
  <2>1. \A v, b \in Nat : (v * Base) + b \in Nat
    BY <1>2
  <2> QED
    BY <1>1, <2>1
<1>4. step \in [Nat \X Nat -> Nat]
  BY <1>3
<1>5. \A n, v \in Nat : step[<<n, v>>] = (v * Base) + Peek(bytes, i + n)
  OBVIOUS
<1> HIDE DEF step
<1>6. PICK g : Iterates(g, Nat, 0, step)
  BY <1>4, Recursion
<1>7. g \in [Nat -> Nat] /\ g[0] = 0 /\ \A n \in Nat : g[n + 1] = (g[n] * Base) + Peek(bytes, i + n)
  BY <1>5, <1>6 DEF Iterates
<1>8. \A n \in Nat : n # 0 => g[n] = g[n - 1] * Base + Peek(bytes, i + n - 1)
  <2> SUFFICES ASSUME NEW n \in Nat, n # 0
               PROVE  g[n] = g[n - 1] * Base + Peek(bytes, i + n - 1)
    OBVIOUS
  <2>1. n - 1 \in Nat /\ (n - 1) + 1 = n /\ i + (n - 1) = i + n - 1
    OBVIOUS
  <2> QED
    BY <1>7, <2>1
<1>9. Is(value)
  <2>1. Is(g)
    BY <1>7, <1>8
  <2> HIDE DEF Is
  <2> QED
    BY <2>1
<1>10. ReadUint32(bytes, i) = value[Word]
  BY DEF ReadUint32
<1> HIDE DEF value
<1>11. value[0] = 0 /\ \A n \in Nat : n # 0 => value[n] = value[n - 1] * Base + Peek(bytes, i + n - 1)
  BY <1>9
<1>12. value = [n \in Nat |-> value[n]]
  BY <1>9
<1> HIDE DEF Is
<1>13. \A n \in Nat : value[n + 1] = (value[n] * Base) + Peek(bytes, i + n)
  <2> SUFFICES ASSUME NEW n \in Nat PROVE value[n + 1] = (value[n] * Base) + Peek(bytes, i + n)
    OBVIOUS
  <2>1. n + 1 \in Nat /\ n + 1 # 0 /\ (n + 1) - 1 = n /\ i + (n + 1) - 1 = i + n
    OBVIOUS
  <2>2. value[n + 1] = value[(n + 1) - 1] * Base + Peek(bytes, i + (n + 1) - 1)
    BY <1>11, <2>1
  <2> QED
    BY <2>1, <2>2
<1>14. \A n \in Nat : value[n] \in Nat
  <2> DEFINE S == {n \in Nat : value[n] \in Nat}
  <2>1. 0 \in S
    BY <1>11
  <2>2. \A n \in Nat : n \in S => n + 1 \in S
    BY <1>3, <1>13
  <2> HIDE DEF S
  <2>3. \A n \in Nat : n \in S
    BY <2>1, <2>2, SetInduction
  <2> QED
    BY <2>3 DEF S
<1>15. value \in [Nat -> Nat]
  BY <1>12, <1>14
<1> QED
  BY <1>10, <1>11, <1>13, <1>15

(* Dividing by a product is dividing twice. *)
LEMMA DivideTwice ==
  ASSUME NEW n \in Nat, NEW d \in Nat \ {0}, NEW b \in Nat \ {0}
  PROVE  n \div (b * d) = (n \div d) \div b
<1> DEFINE q == n \div d
           r == n % d
           h == q \div b
           l == q % b
<1>1. q \in Nat /\ r \in 0..d - 1 /\ n = (q * d) + r
  BY Divide
<1>2. h \in Nat /\ l \in 0..b - 1 /\ q = (h * b) + l
  BY <1>1, Divide
<1> HIDE DEF q, r, h, l
<1>3. n = (h * (b * d)) + ((l * d) + r)
  <2>1. \A x, y, z \in Nat : ((x * b) + y) * d = (x * (b * d)) + (y * d)
    OBVIOUS
  <2>2. q * d = (h * (b * d)) + (l * d)
    BY <1>2, <2>1
  <2>3. h * (b * d) \in Nat /\ l * d \in Nat /\ r \in Nat
    BY <1>1, <1>2
  <2>4. \A x, y, z \in Nat : (x + y) + z = x + (y + z)
    OBVIOUS
  <2> QED
    BY <1>1, <2>2, <2>3, <2>4
<1>4. b * d \in Nat \ {0} /\ (l * d) + r \in 0..(b * d) - 1
  <2>1. \A x, y \in Nat : x < y => (x * d) + d <= y * d
    OBVIOUS
  <2>2. (l * d) + d <= b * d
    BY <1>2, <2>1
  <2>3. b * d \in Nat /\ l * d \in Nat
    BY <1>2
  <2>4. \A x, y \in Nat : x + d <= y => y # 0 /\ x + r \in 0..y - 1
    BY <1>1
  <2> QED
    BY <2>2, <2>3, <2>4
<1> DEFINE e == b * d
           s == (l * d) + r
<1>5. e \in Nat \ {0} /\ s \in 0..e - 1 /\ n = (h * e) + s
  BY <1>3, <1>4
<1> HIDE DEF e, s
<1>6. n \div e = h
  BY <1>2, <1>5, DivideUnique
<1> QED
  BY <1>6 DEF e, h, q

(* A word is bytes. *)
LEMMA WordWritten ==
  ASSUME NEW n \in Nat
  PROVE  WriteUint32(n) \in Bytes /\ Len(WriteUint32(n)) = Word
<1>1. ASSUME NEW i \in 1..Word
      PROVE  (n \div Power(Base, Word - i)) % Base \in Byte
  <2>1. Word - i \in Nat /\ Base \in Nat \ {0}
    BY Widths
  <2>2. Power(Base, Word - i) \in Nat \ {0}
    BY <2>1, PowerGrows
  <2>3. n \div Power(Base, Word - i) \in Nat
    BY <2>2, Divide
  <2> QED
    BY <2>1, <2>3, Divide DEF Byte
<1>2. WriteUint32(n) \in [1..Word -> Byte] /\ Word \in Nat
  BY <1>1, Widths DEF WriteUint32
<1> QED
  BY <1>2, FunctionSeq DEF Bytes

(* What writeUint32 writes of a number that has room in a word is what     *)
(* readUint32 reads; whatever it reads is a natural number.                *)
LEMMA WordRead ==
  ASSUME NEW bytes \in Bytes, NEW i \in Nat \ {0}
  PROVE  /\ ReadUint32(bytes, i) \in Nat
         /\ \A n \in Nat : n < Power(Base, Word) /\ Stands(WriteUint32(n), bytes, i)
              => ReadUint32(bytes, i) = n
<1>1. PICK f \in [Nat -> Nat] :
        /\ f[0] = 0 /\ ReadUint32(bytes, i) = f[Word]
        /\ \A n \in Nat : f[n + 1] = (f[n] * Base) + Peek(bytes, i + n)
  BY UintUnfolds
<1>2. Word \in Nat \ {0} /\ Base \in Nat \ {0}
  BY Widths
<1>3. ASSUME NEW n \in Nat, n < Power(Base, Word), Stands(WriteUint32(n), bytes, i)
      PROVE  f[Word] = n
  <2> DEFINE d(k) == Power(Base, Word - k)
             q(k) == n \div d(k)
             S == {k \in Nat : k <= Word => f[k] = q(k)}
  <2>1. \A k \in Nat : k <= Word => d(k) \in Nat \ {0} /\ q(k) \in Nat
    <3> SUFFICES ASSUME NEW k \in Nat, k <= Word PROVE d(k) \in Nat \ {0} /\ q(k) \in Nat
      OBVIOUS
    <3>1. Word - k \in Nat
      BY <1>2
    <3>2. d(k) \in Nat \ {0}
      BY <1>2, <3>1, PowerGrows
    <3> HIDE DEF d
    <3> QED
      BY <3>2, Divide
  <2>2. ASSUME NEW k \in Nat, k < Word
        PROVE  q(k + 1) = (q(k) * Base) + Peek(bytes, i + k)
    <3>1. k + 1 \in Nat /\ k + 1 <= Word /\ k <= Word /\ k + 1 \in 1..Word
          /\ Word - (k + 1) \in Nat /\ (Word - (k + 1)) + 1 = Word - k
          /\ i + (k + 1) - 1 = i + k
      BY <1>2, <2>2
    <3>2. d(k) = Base * d(k + 1)
      BY <1>2, <3>1, PowerUnfolds
    <3>3. Peek(bytes, i + k) = q(k + 1) % Base
      <4>1. Peek(bytes, i + (k + 1) - 1) = WriteUint32(n)[k + 1]
        <5>1. WriteUint32(n) \in Bytes /\ Len(WriteUint32(n)) = Word
          BY WordWritten
        <5>2. \A j \in 1..Len(WriteUint32(n)) : Peek(bytes, i + j - 1) = WriteUint32(n)[j]
          BY <1>3, <5>1, PeekStands
        <5> QED
          BY <3>1, <5>1, <5>2
      <4>2. WriteUint32(n)[k + 1] = (n \div Power(Base, Word - (k + 1))) % Base
        BY <3>1 DEF WriteUint32
      <4> QED
        BY <3>1, <4>1, <4>2
    <3>4. d(k + 1) \in Nat \ {0} /\ q(k + 1) \in Nat
      BY <2>1, <3>1
    <3>5. n \div (Base * d(k + 1)) = q(k + 1) \div Base
      <4> HIDE DEF d
      <4> QED
        BY <1>2, <3>4, DivideTwice
    <3>6. q(k) = q(k + 1) \div Base
      BY <3>2, <3>5
    <3> HIDE DEF q, d
    <3> QED
      BY <1>2, <3>3, <3>4, <3>6, Divide
  <2>3. 0 \in S
    <3>1. Word - 0 = Word
      BY <1>2
    <3>2. q(0) = n \div Power(Base, Word)
      BY <3>1
    <3>3. Power(Base, Word) \in Nat \ {0}
      BY <1>2, PowerGrows
    <3>4. n \in 0..Power(Base, Word) - 1 /\ n = (0 * Power(Base, Word)) + n
      BY <1>3, <3>3
    <3>5. n \div Power(Base, Word) = 0
      BY <3>3, <3>4, DivideUnique
    <3> QED
      BY <1>1, <3>2, <3>5
  <2>4. ASSUME NEW k \in Nat, k \in S PROVE k + 1 \in S
    <3> SUFFICES ASSUME k + 1 <= Word PROVE f[k + 1] = q(k + 1)
      OBVIOUS
    <3>1. k < Word /\ k <= Word
      BY <1>2
    <3> HIDE DEF q
    <3>2. f[k] = q(k)
      BY <2>4, <3>1
    <3> QED
      BY <1>1, <2>2, <3>1, <3>2
  <2> HIDE DEF S
  <2>5. \A k \in Nat : k \in S
    BY <2>3, <2>4, SetInduction
  <2>6. f[Word] = q(Word)
    BY <1>2, <2>5 DEF S
  <2>7. d(Word) = 1
    <3>1. Word - Word = 0
      BY <1>2
    <3> QED
      BY <1>2, <3>1, PowerUnfolds
  <2>8. n \div 1 = n
    OBVIOUS
  <2> HIDE DEF d
  <2> QED
    BY <2>6, <2>7, <2>8
<1> QED
  BY <1>1, <1>2, <1>3

---------------------------------------------------------------------------
(* Digests. *)

(* FlattenSeq puts a list together from its beginning. *)
LEMMA FlattenUnfolds ==
  ASSUME NEW S, NEW s \in Seq(Seq(S)), Len(s) > 0
  PROVE  \E f \in [1..Len(s) -> Seq(S)] :
           /\ f[1] = s[1] /\ FlattenSeq(s) = f[Len(s)]
           /\ \A i \in 1..Len(s) - 1 : f[i + 1] = f[i] \o s[i + 1]
<1> DEFINE N == Len(s)
           Is(f) == f = [i \in 1..N |-> IF i = 1 THEN s[i] ELSE f[i - 1] \o s[i]]
           step == [p \in Nat \X Seq(S) |-> IF p[1] < N THEN p[2] \o s[p[1] + 1] ELSE p[2]]
           flatten == CHOOSE f : Is(f)
<1>1. N \in Nat /\ 1 \in 1..N /\ N \in 1..N /\ \A i \in 1..N : s[i] \in Seq(S)
  BY LenProperties
<1>2. step \in [Nat \X Seq(S) -> Seq(S)]
  <2> SUFFICES ASSUME NEW p \in Nat \X Seq(S), p[1] < N PROVE p[2] \o s[p[1] + 1] \in Seq(S)
    OBVIOUS
  <2>1. p[1] + 1 \in 1..N /\ p[2] \in Seq(S)
    BY <1>1
  <2>2. s[p[1] + 1] \in Seq(S)
    BY <1>1, <2>1
  <2> QED
    BY <2>1, <2>2, ConcatProperties
<1>3. \A n \in Nat, t \in Seq(S) : n < N => step[<<n, t>>] = t \o s[n + 1]
  OBVIOUS
<1> HIDE DEF step
<1>4. <<>> \in Seq(S)
  OBVIOUS
<1>5. PICK g : Iterates(g, Seq(S), <<>>, step)
  BY <1>2, <1>4, Recursion
<1>6. g \in [Nat -> Seq(S)] /\ g[0] = <<>> /\ \A n \in Nat : n < N => g[n + 1] = g[n] \o s[n + 1]
  BY <1>3, <1>5 DEF Iterates
<1> DEFINE h == [i \in 1..N |-> g[i]]
<1>7. h \in [1..N -> Seq(S)]
  BY <1>6
<1>8. h[1] = s[1]
  <2>1. 0 < N /\ 0 + 1 = 1
    BY <1>1
  <2>2. g[1] = <<>> \o s[1]
    BY <1>6, <2>1
  <2>3. <<>> \o s[1] = s[1]
    BY <1>1, ConcatEmptySeq
  <2> QED
    BY <1>1, <2>2, <2>3
<1>9. \A i \in 1..N - 1 : h[i + 1] = h[i] \o s[i + 1]
  <2> SUFFICES ASSUME NEW i \in 1..N - 1 PROVE h[i + 1] = h[i] \o s[i + 1]
    OBVIOUS
  <2>1. i \in Nat /\ i < N /\ i \in 1..N /\ i + 1 \in 1..N
    BY <1>1
  <2> QED
    BY <1>6, <2>1
<1> HIDE DEF h
<1>10. Is(h)
  <2>1. \A i \in 1..N : i # 1 => h[i] = h[i - 1] \o s[i]
    <3> SUFFICES ASSUME NEW i \in 1..N, i # 1 PROVE h[i] = h[i - 1] \o s[i]
      OBVIOUS
    <3>1. i - 1 \in 1..N - 1 /\ (i - 1) + 1 = i
      BY <1>1
    <3> QED
      BY <1>9, <3>1
  <2>2. h = [i \in 1..N |-> h[i]]
    BY <1>7
  <2>3. \A i \in 1..N : h[i] = IF i = 1 THEN s[i] ELSE h[i - 1] \o s[i]
    BY <1>8, <2>1
  <2> QED
    BY <2>2, <2>3
<1>11. Is(flatten)
  <2> HIDE DEF Is
  <2> QED
    BY <1>10
<1>12. FlattenSeq(s) = flatten[N]
  BY <1>1 DEF FlattenSeq
<1> HIDE DEF flatten
<1>13. flatten = [i \in 1..N |-> flatten[i]]
  BY <1>11
<1>14. \A i \in 1..N : flatten[i] = IF i = 1 THEN s[i] ELSE flatten[i - 1] \o s[i]
  BY <1>11
<1> HIDE DEF Is
<1>15. flatten[1] = s[1]
  BY <1>1, <1>14
<1>16. \A i \in 1..N - 1 : flatten[i + 1] = flatten[i] \o s[i + 1]
  <2> SUFFICES ASSUME NEW i \in 1..N - 1 PROVE flatten[i + 1] = flatten[i] \o s[i + 1]
    OBVIOUS
  <2>1. i + 1 \in 1..N /\ i + 1 # 1 /\ (i + 1) - 1 = i
    BY <1>1
  <2> QED
    BY <1>14, <2>1
<1>17. \A i \in 1..N : flatten[i] \in Seq(S)
  <2> DEFINE T == {n \in Nat : n + 1 <= N => flatten[n + 1] \in Seq(S)}
  <2>1. 0 \in T
    BY <1>1, <1>15
  <2>2. ASSUME NEW n \in Nat, n \in T PROVE n + 1 \in T
    <3> SUFFICES ASSUME (n + 1) + 1 <= N PROVE flatten[(n + 1) + 1] \in Seq(S)
      OBVIOUS
    <3>1. n + 1 <= N /\ n + 1 \in 1..N - 1 /\ (n + 1) + 1 \in 1..N
      BY <1>1
    <3>2. flatten[n + 1] \in Seq(S) /\ s[(n + 1) + 1] \in Seq(S)
      BY <1>1, <2>2, <3>1
    <3>3. flatten[(n + 1) + 1] = flatten[n + 1] \o s[(n + 1) + 1]
      BY <1>16, <3>1
    <3> QED
      BY <3>2, <3>3, ConcatProperties
  <2> HIDE DEF T
  <2>3. \A n \in Nat : n \in T
    BY <2>1, <2>2, SetInduction
  <2>4. ASSUME NEW i \in 1..N PROVE flatten[i] \in Seq(S)
    <3>1. i - 1 \in Nat /\ (i - 1) + 1 = i /\ i <= N
      BY <1>1
    <3> QED
      BY <2>3, <3>1 DEF T
  <2> QED
    BY <2>4
<1>18. flatten \in [1..N -> Seq(S)]
  BY <1>13, <1>17
<1> QED
  BY <1>12, <1>15, <1>16, <1>18

(* The digests of a list stand one behind the other. *)
LEMMA HashesWritten ==
  ASSUME NEW s \in Seq(Hash)
  PROVE  /\ FlattenSeq(s) \in Bytes /\ Len(FlattenSeq(s)) = Size(Len(s))
         /\ \A k \in 1..Len(s) : s[k] \in Bytes /\ Len(s[k]) = Digest
         /\ \A k \in 1..Len(s) : Stands(s[k], FlattenSeq(s), Size(k - 1) + 1)
<1>1. Len(s) \in Nat /\ Digest \in Nat \ {0} /\ \A k \in 1..Len(s) : s[k] \in Hash
  BY LenProperties, Widths
<1>2. \A h \in Hash : h \in Bytes /\ Len(h) = Digest
  BY <1>1, FunctionSeq DEF Hash, Bytes
<1>3. \A k \in 1..Len(s) : s[k] \in Bytes /\ Len(s[k]) = Digest
  BY <1>1, <1>2
<1>4. s \in Seq(Bytes)
  BY <1>1, <1>3, SeqDef
<1>5. CASE Len(s) = 0
  <2>1. s = <<>> /\ FlattenSeq(s) = s
    BY <1>5, EmptySeq DEF FlattenSeq
  <2>2. <<>> \in Bytes /\ Len(<<>>) = 0
    BY DEF Bytes
  <2> QED
    BY <1>3, <1>5, <2>1, <2>2, Sizes
<1>6. CASE Len(s) > 0
  <2>1. PICK f \in [1..Len(s) -> Bytes] :
          /\ f[1] = s[1] /\ FlattenSeq(s) = f[Len(s)]
          /\ \A i \in 1..Len(s) - 1 : f[i + 1] = Cat(f[i], s[i + 1])
    BY <1>4, <1>6, FlattenUnfolds DEF Bytes, Cat
  <2> DEFINE Good(i) == /\ f[i] \in Bytes /\ Len(f[i]) = Size(i)
                        /\ \A k \in 1..i : Stands(s[k], f[i], Size(k - 1) + 1)
             T == {n \in Nat : n + 1 <= Len(s) => Good(n + 1)}
  <2>2. 0 \in T
    <3> SUFFICES ASSUME 1 <= Len(s) PROVE Good(1)
      OBVIOUS
    <3>1. 1 \in 1..Len(s) /\ f[1] \in Bytes /\ f[1] = s[1] /\ Len(f[1]) = Digest
      BY <1>1, <1>3, <2>1
    <3>2. Size(1) = Digest /\ Size(1 - 1) + 1 = 1
      BY Sizes
    <3>3. Stands(s[1], f[1], 1)
      <4>1. 1 + Len(s[1]) <= Len(f[1]) + 1 /\ \A j \in 1..Len(s[1]) : 1 + j - 1 = j
        BY <1>1, <1>3, <3>1
      <4> QED
        BY <3>1, <4>1 DEF Stands
    <3> QED
      BY <3>1, <3>2, <3>3
  <2>3. ASSUME NEW n \in Nat, n \in T PROVE n + 1 \in T
    <3> SUFFICES ASSUME (n + 1) + 1 <= Len(s) PROVE Good((n + 1) + 1)
      OBVIOUS
    <3> DEFINE i == n + 1
    <3>1. i \in Nat /\ i \in 1..Len(s) - 1 /\ i + 1 \in 1..Len(s) /\ i <= Len(s) /\ (i + 1) - 1 = i
      BY <1>1
    <3>2. Good(i)
      BY <2>3, <3>1
    <3> HIDE DEF i
    <3>3. f[i + 1] = Cat(f[i], s[i + 1]) /\ s[i + 1] \in Bytes /\ Len(s[i + 1]) = Digest
      BY <1>3, <2>1, <3>1
    <3>4. f[i + 1] \in Bytes /\ Len(f[i + 1]) = Size(i) + Digest
      <4>1. f[i] \in Bytes /\ Len(f[i]) = Size(i)
        BY <3>2
      <4>2. /\ Cat(f[i], s[i + 1]) \in Bytes
            /\ Len(Cat(f[i], s[i + 1])) = Len(f[i]) + Len(s[i + 1])
        BY <3>3, <4>1, Parts, Zenon
      <4> QED
        BY <3>3, <4>1, <4>2, Zenon
    <3>5. Size(i + 1) = Size(i) + Digest
      BY <3>1, Sizes
    <3>6. Stands(f[i], f[i + 1], 1) /\ Stands(s[i + 1], f[i + 1], Size(i) + 1)
      BY <3>2, <3>3, Parts
    <3>7. ASSUME NEW k \in 1..i + 1
          PROVE  Stands(s[k], f[i + 1], Size(k - 1) + 1)
      <4>1. CASE k = i + 1
        BY <3>1, <3>6, <4>1
      <4>2. CASE k \in 1..i
        <5>1. Stands(s[k], f[i], Size(k - 1) + 1) /\ s[k] \in Bytes
          BY <1>3, <3>1, <3>2, <4>2
        <5>2. Stands(s[k], f[i + 1], 1 + (Size(k - 1) + 1) - 1)
          BY <3>2, <3>4, <3>6, <5>1, StandsWithin
        <5>3. Size(k - 1) \in Nat /\ 1 + (Size(k - 1) + 1) - 1 = Size(k - 1) + 1
          <6>1. k - 1 \in Nat
            BY <4>2
          <6>2. Size(k - 1) \in Nat
            BY <6>1, Sizes
          <6> QED
            BY <6>2
        <5> QED
          BY <5>2, <5>3
      <4> QED
        BY <3>1, <4>1, <4>2
    <3>8. Good(i + 1)
      BY <3>4, <3>5, <3>7
    <3> QED
      BY <3>8 DEF i
  <2> HIDE DEF T
  <2>4. \A n \in Nat : n \in T
    BY <2>2, <2>3, SetInduction
  <2>5. Len(s) - 1 \in Nat /\ (Len(s) - 1) + 1 = Len(s)
    BY <1>1, <1>6
  <2>6. Good(Len(s))
    <3>1. Len(s) - 1 \in T
      BY <2>4, <2>5
    <3> QED
      BY <2>5, <3>1 DEF T
  <2> QED
    BY <1>3, <2>1, <2>6
<1> QED
  BY <1>1, <1>5, <1>6

(* And are read so. *)
LEMMA HashesRead ==
  ASSUME NEW bytes \in Bytes, NEW i \in Nat \ {0}, NEW n \in Nat
  PROVE  /\ ReadHashes(bytes, i, n) \in [1..n -> Hash]
         /\ \A s \in Seq(Hash) : Len(s) = n /\ Stands(FlattenSeq(s), bytes, i)
              => ReadHashes(bytes, i, n) = s
<1> DEFINE at(k) == i + (k - 1) * Digest
<1>1. \A k \in 1..n : at(k) \in Nat \ {0} /\ at(k) = i + (Size(k - 1) + 1) - 1
  <2> SUFFICES ASSUME NEW k \in 1..n PROVE at(k) \in Nat \ {0} /\ at(k) = i + (Size(k - 1) + 1) - 1
    OBVIOUS
  <2>1. Size(k - 1) = (k - 1) * Digest /\ Size(k - 1) \in Nat
    <3>1. k - 1 \in Nat
      OBVIOUS
    <3> QED
      BY <3>1, Sizes DEF Size
  <2> QED
    BY <2>1
<1>2. Digest \in Nat
  BY Widths
<1>3. \A k \in 1..n : ReadHashes(bytes, i, n)[k] = ReadBytes(bytes, at(k), Digest)
  BY DEF ReadHashes
<1>4. ReadHashes(bytes, i, n) = [k \in 1..n |-> ReadBytes(bytes, at(k), Digest)]
  BY DEF ReadHashes
<1> HIDE DEF at
<1>5. ReadHashes(bytes, i, n) \in [1..n -> Hash]
  <2>1. \A k \in 1..n : ReadBytes(bytes, at(k), Digest) \in Hash
    BY <1>1, <1>2, BytesRead DEF Hash
  <2> QED
    BY <1>4, <2>1
<1>6. ASSUME NEW s \in Seq(Hash), Len(s) = n, Stands(FlattenSeq(s), bytes, i)
      PROVE  ReadHashes(bytes, i, n) = s
  <2> DEFINE r == ReadHashes(bytes, i, n)
  <2>1. r \in Seq(Hash) /\ Len(r) = n
    BY <1>5, FunctionSeq
  <2>2. ASSUME NEW k \in 1..n PROVE r[k] = s[k]
    <3>1. /\ FlattenSeq(s) \in Bytes /\ s[k] \in Bytes /\ Len(s[k]) = Digest
          /\ Stands(s[k], FlattenSeq(s), Size(k - 1) + 1)
      BY <1>6, HashesWritten
    <3>2. Stands(s[k], bytes, at(k))
      BY <1>1, <1>6, <3>1, StandsWithin
    <3> QED
      BY <1>1, <1>2, <1>3, <3>1, <3>2, BytesRead
  <2> HIDE DEF r
  <2>3. r = s
    BY <1>6, <2>1, <2>2, SeqEqual
  <2> QED
    BY <2>3 DEF r
<1> QED
  BY <1>5, <1>6

---------------------------------------------------------------------------
(* Handshakes. *)

(* A handshake behind its size. *)
Rest(p) ==
  p.version \o (WriteUint32(Len(p.bots)) \o (FlattenSeq(p.bots)
    \o (WriteUint32(Len(p.maps)) \o FlattenSeq(p.maps))))

(* Lists of digests, short enough to be counted. *)
LEMMA ListTyped ==
  ASSUME NEW s \in Lists
  PROVE  s \in Seq(Hash) /\ Len(s) \in Nat /\ Len(s) <= MaxHashes
<1>1. PICK n \in 0..MaxHashes : s \in [1..n -> Hashes]
  BY DEF Lists
<1>2. n \in Nat /\ s \in [1..n -> Hash]
  BY <1>1, Widths
<1>3. s \in Seq(Hash) /\ Len(s) = n
  BY <1>2, FunctionSeq
<1> QED
  BY <1>1, <1>2, <1>3, Widths

(* What a handshake is made of. *)
LEMMA HandshakeTyped ==
  ASSUME NEW p \in Handshakes
  PROVE  /\ p = [kind |-> "handshake", version |-> p.version, bots |-> p.bots, maps |-> p.maps]
         /\ p.kind = "handshake" /\ p.version \in [1..3 -> Byte]
         /\ p.version \in Bytes /\ Len(p.version) = 3
         /\ p.bots \in Seq(Hash) /\ Len(p.bots) \in Nat /\ Len(p.bots) <= MaxHashes
         /\ p.maps \in Seq(Hash) /\ Len(p.maps) \in Nat /\ Len(p.maps) <= MaxHashes
<1>1. /\ p = [kind |-> "handshake", version |-> p.version, bots |-> p.bots, maps |-> p.maps]
      /\ p.kind = "handshake" /\ p.version \in [1..3 -> Byte] /\ p.bots \in Lists /\ p.maps \in Lists
  BY DEF Handshakes
<1>2. p.version \in Bytes /\ Len(p.version) = 3
  <2>1. \A n \in Nat : \A f \in [1..n -> Byte] : f \in Bytes /\ Len(f) = n
    BY FunctionSeq DEF Bytes
  <2>2. 3 \in Nat
    OBVIOUS
  <2> QED
    BY <1>1, <2>1, <2>2, Zenon
<1> QED
  BY <1>1, <1>2, ListTyped

(* The counts and the size of a handshake have room in a word. *)
LEMMA SizesFit ==
  ASSUME NEW p \in Handshakes
  PROVE  /\ HandshakeSize(p) \in Nat /\ HandshakeSize(p) < Power(Base, Word)
         /\ HandshakeSize(p) = 3 + (Word + (Size(Len(p.bots)) + (Word + Size(Len(p.maps)))))
         /\ Len(p.bots) < Power(Base, Word) /\ Len(p.maps) < Power(Base, Word)
<1> DEFINE b == Len(p.bots)
           m == Len(p.maps)
           P == Power(Base, Word)
<1>1. /\ b \in Nat /\ b <= MaxHashes /\ m \in Nat /\ m <= MaxHashes
      /\ Word \in Nat \ {0} /\ Base \in Nat \ {0} /\ Digest \in Nat \ {0} /\ MaxHashes \in Nat
  BY HandshakeTyped, Widths
<1>2. P \in Nat
  BY <1>1, PowerGrows
<1>3. HandshakeSize(p) = 3 + 2 * Word + Digest * (b + m)
  BY DEF HandshakeSize
<1>4. 3 + 2 * Word + 2 * Digest * MaxHashes < P
  BY PacketsAssumption
<1> HIDE DEF b, m, P
<1>5. Digest * (b + m) = Size(b) + Size(m)
  BY <1>1, Sizes
<1>6. 2 * Digest * MaxHashes = Size(MaxHashes) + Size(MaxHashes)
  <2>1. \A x, y \in Nat : 2 * x * y = (y * x) + (y * x)
    OBVIOUS
  <2> QED
    BY <1>1, <2>1 DEF Size
<1>7. /\ Size(b) \in Nat /\ Size(m) \in Nat /\ Size(MaxHashes) \in Nat
      /\ Size(b) <= Size(MaxHashes) /\ Size(m) <= Size(MaxHashes)
  BY <1>1, Sizes
<1>8. MaxHashes <= Size(MaxHashes)
  <2>1. \A x \in Nat, d \in Nat \ {0} : x <= x * d
    OBVIOUS
  <2> QED
    BY <1>1, <2>1 DEF Size
<1> DEFINE sb == Size(b)
           sm == Size(m)
           sx == Size(MaxHashes)
<1>9. /\ HandshakeSize(p) = 3 + 2 * Word + (sb + sm) /\ 3 + 2 * Word + (sx + sx) < P
      /\ sb \in Nat /\ sm \in Nat /\ sx \in Nat /\ sb <= sx /\ sm <= sx /\ MaxHashes <= sx
  BY <1>3, <1>4, <1>5, <1>6, <1>7, <1>8
<1> HIDE DEF sb, sm, sx
<1>10. /\ HandshakeSize(p) \in Nat /\ HandshakeSize(p) < P
       /\ HandshakeSize(p) = 3 + (Word + (sb + (Word + sm)))
       /\ b < P /\ m < P
  BY <1>1, <1>2, <1>9
<1> QED
  BY <1>10 DEF sb, sm, b, m, P

(* Concatenating from the left or from the right is the same. *)
LEMMA CatAssociative ==
  ASSUME NEW a \in Bytes, NEW b \in Bytes, NEW c \in Bytes
  PROVE  Cat(Cat(a, b), c) = Cat(a, Cat(b, c))
<1>1. a \in Seq(Byte) /\ b \in Seq(Byte) /\ c \in Seq(Byte)
  BY DEF Bytes
<1> QED
  BY <1>1, ConcatAssociative DEF Cat

(* So are the six parts of a handshake. *)
LEMMA SixParts ==
  ASSUME NEW a \in Bytes, NEW b \in Bytes, NEW c \in Bytes,
         NEW d \in Bytes, NEW e \in Bytes, NEW f \in Bytes
  PROVE  Cat(Cat(Cat(Cat(Cat(a, b), c), d), e), f) = Cat(a, Cat(b, Cat(c, Cat(d, Cat(e, f)))))
<1>1. /\ Cat(e, f) \in Bytes /\ Cat(a, b) \in Bytes
  BY Parts
<1>2. Cat(d, Cat(e, f)) \in Bytes /\ Cat(Cat(a, b), c) \in Bytes
  BY <1>1, Parts
<1>3. Cat(c, Cat(d, Cat(e, f))) \in Bytes /\ Cat(Cat(Cat(a, b), c), d) \in Bytes
  BY <1>2, Parts
<1> QED
  BY <1>1, <1>2, <1>3, CatAssociative

(* toBuffer of a handshake: its size, and then as many bytes as it says,   *)
(* among them the counts in front of the digests.                          *)
LEMMA HandshakeWritten ==
  ASSUME NEW p \in Handshakes
  PROVE  LET word == WriteUint32(HandshakeSize(p))
             b == Size(Len(p.bots))
         IN /\ ToBuffer(p) = Cat(word, Rest(p)) /\ word \in Bytes /\ Len(word) = Word
            /\ Rest(p) \in Bytes /\ Len(Rest(p)) = HandshakeSize(p)
            /\ Stands(p.version, Rest(p), 1)
            /\ Stands(WriteUint32(Len(p.bots)), Rest(p), 4)
            /\ Stands(FlattenSeq(p.bots), Rest(p), 4 + Word)
            /\ Stands(WriteUint32(Len(p.maps)), Rest(p), 4 + Word + b)
            /\ Stands(FlattenSeq(p.maps), Rest(p), 4 + Word + b + Word)
<1> DEFINE word == WriteUint32(HandshakeSize(p))
           b == Size(Len(p.bots))
           m == Size(Len(p.maps))
           v == p.version
           nb == WriteUint32(Len(p.bots))
           fb == FlattenSeq(p.bots)
           nm == WriteUint32(Len(p.maps))
           fm == FlattenSeq(p.maps)
           r3 == Cat(nm, fm)
           r2 == Cat(fb, r3)
           r1 == Cat(nb, r2)
           r0 == Cat(v, r1)
<1>1. /\ word \in Bytes /\ Len(word) = Word /\ nb \in Bytes /\ Len(nb) = Word
      /\ nm \in Bytes /\ Len(nm) = Word
  BY HandshakeTyped, SizesFit, WordWritten
<1>2. v \in Bytes /\ Len(v) = 3 /\ fb \in Bytes /\ Len(fb) = b /\ fm \in Bytes /\ Len(fm) = m
  BY HandshakeTyped, HashesWritten
<1>3. b \in Nat /\ m \in Nat /\ Word \in Nat
  BY HandshakeTyped, Sizes, Widths
<1>4. ToBuffer(p) = Cat(Cat(Cat(Cat(Cat(word, v), nb), fb), nm), fm)
  BY HandshakeTyped DEF ToBuffer, Cat
<1>5. Rest(p) = r0
  BY DEF Rest, Cat
<1>6. HandshakeSize(p) = 3 + (Word + (b + (Word + m)))
  BY SizesFit
<1> HIDE DEF word, b, m, v, nb, fb, nm, fm
<1>7. ToBuffer(p) = Cat(word, r0)
  BY <1>1, <1>2, <1>4, SixParts
<1>8. r3 \in Bytes /\ Len(r3) = Word + m /\ Stands(nm, r3, 1) /\ Stands(fm, r3, Word + 1)
  BY <1>1, <1>2, Parts
<1> HIDE DEF r3
<1>9. /\ r2 \in Bytes /\ Len(r2) = b + (Word + m) /\ Stands(fb, r2, 1)
      /\ Stands(nm, r2, b + 1) /\ Stands(fm, r2, b + (Word + 1))
  <2>1. r2 \in Bytes /\ Len(r2) = b + (Word + m) /\ Stands(fb, r2, 1)
    BY <1>2, <1>8, Parts
  <2>2. Stands(nm, r2, b + 1) /\ Stands(fm, r2, b + (Word + 1))
    BY <1>1, <1>2, <1>8, StandsBehind, Zenon
  <2> QED
    BY <2>1, <2>2
<1> HIDE DEF r2
<1>10. /\ r1 \in Bytes /\ Len(r1) = Word + (b + (Word + m)) /\ Stands(nb, r1, 1)
       /\ Stands(fb, r1, Word + 1) /\ Stands(nm, r1, Word + (b + 1))
       /\ Stands(fm, r1, Word + (b + (Word + 1)))
  <2>1. r1 \in Bytes /\ Len(r1) = Word + (b + (Word + m)) /\ Stands(nb, r1, 1)
    BY <1>1, <1>9, Parts
  <2>2. ASSUME NEW r \in Bytes, NEW i, Stands(r, r2, i) PROVE Stands(r, r1, Word + i)
    <3>1. Stands(r, Cat(nb, r2), Len(nb) + i)
      BY <1>1, <1>9, <2>2, StandsBehind, Zenon
    <3> QED
      BY <1>1, <3>1, Zenon
  <2>3. /\ Stands(fb, r1, Word + 1) /\ Stands(nm, r1, Word + (b + 1))
        /\ Stands(fm, r1, Word + (b + (Word + 1)))
    BY <1>1, <1>2, <1>9, <2>2, Zenon
  <2> QED
    BY <2>1, <2>3
<1> HIDE DEF r1
<1>11. /\ r0 \in Bytes /\ Len(r0) = 3 + (Word + (b + (Word + m))) /\ Stands(v, r0, 1)
       /\ Stands(nb, r0, 3 + 1) /\ Stands(fb, r0, 3 + (Word + 1))
       /\ Stands(nm, r0, 3 + (Word + (b + 1))) /\ Stands(fm, r0, 3 + (Word + (b + (Word + 1))))
  <2>1. r0 \in Bytes /\ Len(r0) = 3 + (Word + (b + (Word + m))) /\ Stands(v, r0, 1)
    BY <1>2, <1>10, Parts
  <2>2. ASSUME NEW r \in Bytes, NEW i, Stands(r, r1, i) PROVE Stands(r, r0, 3 + i)
    <3>1. Stands(r, Cat(v, r1), Len(v) + i)
      BY <1>2, <1>10, <2>2, StandsBehind, Zenon
    <3> QED
      BY <1>2, <3>1, Zenon
  <2>3. /\ Stands(nb, r0, 3 + 1) /\ Stands(fb, r0, 3 + (Word + 1))
        /\ Stands(nm, r0, 3 + (Word + (b + 1))) /\ Stands(fm, r0, 3 + (Word + (b + (Word + 1))))
    BY <1>1, <1>2, <1>10, <2>2, Zenon
  <2> QED
    BY <2>1, <2>3
<1> HIDE DEF r0
<1>12. /\ 3 + 1 = 4 /\ 3 + (Word + 1) = 4 + Word /\ 3 + (Word + (b + 1)) = 4 + Word + b
       /\ 3 + (Word + (b + (Word + 1))) = 4 + Word + b + Word
  BY <1>3
<1> QED
  BY <1>1, <1>5, <1>6, <1>7, <1>11, <1>12, Zenon DEF word, b, v, nb, fb, nm, fm

(* A packet is made of the bytes in front of a position, and what is left  *)
(* are bytes: none behind the last one.                                    *)
LEMMA LeftOver ==
  ASSUME NEW packet, NEW bytes \in Bytes, NEW i \in Nat \ {0}
  PROVE  LET r == Result(packet, bytes, i)
         IN r.packet = packet /\ r.rest \in Bytes /\ (i = Len(bytes) + 1 => r.rest = <<>>)
<1>1. Len(bytes) \in Nat /\ \A k \in 1..Len(bytes) : bytes[k] \in Byte
  BY LenProperties DEF Bytes
<1> DEFINE t == SubSeq(bytes, i, Len(bytes))
<1>2. t \in Bytes /\ (i = Len(bytes) + 1 => Len(t) = 0)
  BY <1>1 DEF Bytes
<1> HIDE DEF t
<1>3. i = Len(bytes) + 1 => t = <<>>
  BY <1>2, EmptySeq DEF Bytes
<1> QED
  BY <1>2, <1>3 DEF Result, t

(* What a misread handshake still is. *)
HandshakeShape ==
  [kind : {"handshake"}, version : [1..3 -> Byte], bots : Seq(Hash), maps : Seq(Hash)]

(* fromBuffer of a handshake: whatever the bytes are, bytes and whole      *)
(* digests; and what was written, nothing left, unless operator>> skips a  *)
(* byte of the version.                                                    *)
LEMMA HandshakeRead ==
  ASSUME NEW bytes \in Bytes
  PROVE  LET r == ReadHandshake(bytes)
         IN /\ r.packet \in HandshakeShape /\ r.rest \in Bytes
            /\ \A p \in Handshakes : Solid(p) /\ bytes = Rest(p) => r.packet = p /\ r.rest = <<>>
<1> DEFINE major == Skip(bytes, 1)
           minor == Skip(bytes, major + 1)
           patch == Skip(bytes, minor + 1)
           nBots == ReadUint32(bytes, patch + 1)
           bots  == patch + 1 + Word
           next  == bots + nBots * Digest
           nMaps == ReadUint32(bytes, next)
           maps  == next + Word
           last  == maps + nMaps * Digest
           version == <<Peek(bytes, major), Peek(bytes, minor), Peek(bytes, patch)>>
           packet == [kind |-> "handshake", version |-> version,
                      bots |-> ReadHashes(bytes, bots, nBots),
                      maps |-> ReadHashes(bytes, maps, nMaps)]
<1>1. ReadHandshake(bytes) = Result(packet, bytes, last)
  BY DEF ReadHandshake
<1>2. Word \in Nat \ {0} /\ \A n \in Nat : n * Digest = Size(n) /\ Size(n) \in Nat
  BY Widths, Sizes DEF Size
<1>3. major \in Nat \ {0} /\ major + 1 \in Nat \ {0}
  <2>1. 1 \in Nat \ {0}
    OBVIOUS
  <2>2. major \in Nat /\ major >= 1
    BY <2>1, Skipped
  <2> QED
    BY <2>2
<1>4. minor \in Nat \ {0} /\ minor + 1 \in Nat \ {0}
  <2> HIDE DEF major
  <2>1. minor \in Nat /\ minor >= major + 1
    BY <1>3, Skipped
  <2> QED
    BY <1>3, <2>1
<1>5. patch \in Nat \ {0} /\ patch + 1 \in Nat \ {0}
  <2> HIDE DEF minor
  <2>1. patch \in Nat /\ patch >= minor + 1
    BY <1>4, Skipped
  <2> QED
    BY <1>4, <2>1
<1>6. nBots \in Nat /\ bots \in Nat \ {0}
  <2> HIDE DEF patch
  <2> QED
    BY <1>2, <1>5, WordRead
<1>7. next = bots + Size(nBots) /\ next \in Nat \ {0}
  <2> HIDE DEF nBots, bots
  <2> QED
    BY <1>2, <1>6
<1>8. nMaps \in Nat /\ maps \in Nat \ {0}
  <2> HIDE DEF next
  <2> QED
    BY <1>2, <1>7, WordRead
<1>9. last = maps + Size(nMaps) /\ last \in Nat \ {0}
  <2> HIDE DEF nMaps, maps
  <2> QED
    BY <1>2, <1>8
<1>10. version \in [1..3 -> Byte] /\ Len(version) = 3
  <2>1. Peek(bytes, major) \in Byte /\ Peek(bytes, minor) \in Byte /\ Peek(bytes, patch) \in Byte
    <3> HIDE DEF major, minor, patch
    <3> QED
      BY <1>3, <1>4, <1>5, Peeked
  <2> HIDE DEF major, minor, patch
  <2> QED
    BY <2>1
<1>11. /\ ReadHashes(bytes, bots, nBots) \in Seq(Hash)
       /\ ReadHashes(bytes, maps, nMaps) \in Seq(Hash)
  <2> HIDE DEF bots, nBots, maps, nMaps
  <2>1. /\ ReadHashes(bytes, bots, nBots) \in [1..nBots -> Hash]
        /\ ReadHashes(bytes, maps, nMaps) \in [1..nMaps -> Hash]
    BY <1>6, <1>8, HashesRead
  <2> QED
    BY <1>6, <1>8, <2>1, FunctionSeq
<1>12. packet \in HandshakeShape
  <2> HIDE DEF version, bots, nBots, maps, nMaps
  <2> QED
    BY <1>10, <1>11 DEF HandshakeShape
<1>13. ASSUME NEW p \in Handshakes, Solid(p), bytes = Rest(p)
       PROVE  packet = p /\ last = Len(bytes) + 1
  <2> DEFINE b == Size(Len(p.bots))
             m == Size(Len(p.maps))
  <2>1. /\ Stands(p.version, bytes, 1) /\ Stands(WriteUint32(Len(p.bots)), bytes, 4)
        /\ Stands(FlattenSeq(p.bots), bytes, 4 + Word)
        /\ Stands(WriteUint32(Len(p.maps)), bytes, 4 + Word + b)
        /\ Stands(FlattenSeq(p.maps), bytes, 4 + Word + b + Word)
        /\ Len(bytes) = HandshakeSize(p)
    BY <1>13, HandshakeWritten
  <2>2. /\ p = [kind |-> "handshake", version |-> p.version, bots |-> p.bots, maps |-> p.maps]
        /\ p.kind = "handshake" /\ p.version \in Bytes /\ Len(p.version) = 3
        /\ p.bots \in Seq(Hash) /\ Len(p.bots) \in Nat
        /\ p.maps \in Seq(Hash) /\ Len(p.maps) \in Nat
    BY HandshakeTyped
  <2>3. /\ Len(p.bots) < Power(Base, Word) /\ Len(p.maps) < Power(Base, Word)
        /\ HandshakeSize(p) = 3 + (Word + (b + (Word + m)))
    BY SizesFit
  <2>4. b \in Nat /\ m \in Nat
    BY <2>2, Sizes
  <2>5. /\ Peek(bytes, 1) = p.version[1] /\ Peek(bytes, 2) = p.version[2]
        /\ Peek(bytes, 3) = p.version[3]
    <3>1. \A j \in 1..3 : Peek(bytes, 1 + j - 1) = p.version[j]
      <4>1. \A j \in 1..Len(p.version) : Peek(bytes, 1 + j - 1) = p.version[j]
        BY <2>1, <2>2, PeekStands, Zenon
      <4> QED
        BY <2>2, <4>1, Zenon
    <3>2. 1 + 1 - 1 = 1 /\ 1 + 2 - 1 = 2 /\ 1 + 3 - 1 = 3 /\ 1 \in 1..3 /\ 2 \in 1..3 /\ 3 \in 1..3
      OBVIOUS
    <3> QED
      BY <3>1, <3>2
  <2>6. \A i \in 1..3 : p.version[i] \notin Blank
    BY <1>13, <2>2 DEF Solid
  <2>7. /\ Peek(bytes, 1) \notin Blank /\ Peek(bytes, 2) \notin Blank
        /\ Peek(bytes, 3) \notin Blank
    BY <2>5, <2>6
  <2>8. major = 1 /\ minor = 2 /\ patch = 3
    <3>1. /\ 1 \in Nat \ {0} /\ 2 \in Nat \ {0} /\ 3 \in Nat \ {0} /\ 1 + 1 = 2 /\ 2 + 1 = 3
      OBVIOUS
    <3> QED
      BY <2>7, <3>1, Skipped
  <2>9. version = p.version
    <3> HIDE DEF major, minor, patch
    <3>1. version = <<p.version[1], p.version[2], p.version[3]>>
      BY <2>5, <2>8
    <3>2. version \in Bytes
      BY <1>10 DEF Bytes
    <3>3. \A i \in 1..3 : version[i] = p.version[i]
      BY <3>1
    <3> QED
      BY <1>10, <2>2, <3>2, <3>3, SeqEqual DEF Bytes
  <2> HIDE DEF b, m, version, major, minor, patch
  <2>10. nBots = Len(p.bots) /\ bots = 4 + Word
    <3>1. 3 + 1 = 4 /\ 4 \in Nat \ {0}
      OBVIOUS
    <3> QED
      BY <2>1, <2>2, <2>3, <2>8, <3>1, WordRead
  <2> HIDE DEF nBots, bots
  <2>11. next = 4 + Word + b
    BY <1>7, <2>10 DEF b
  <2> HIDE DEF next
  <2>12. nMaps = Len(p.maps) /\ maps = 4 + Word + b + Word
    BY <1>7, <2>1, <2>2, <2>3, <2>11, WordRead
  <2> HIDE DEF nMaps, maps
  <2>13. last = 4 + Word + b + Word + m
    BY <1>9, <2>12 DEF m
  <2> HIDE DEF last
  <2>14. last = Len(bytes) + 1
    BY <1>2, <2>1, <2>3, <2>4, <2>13
  <2>15. ReadHashes(bytes, bots, nBots) = p.bots /\ ReadHashes(bytes, maps, nMaps) = p.maps
    BY <1>6, <1>8, <2>1, <2>2, <2>10, <2>12, HashesRead
  <2> QED
    BY <2>2, <2>9, <2>14, <2>15
<1> HIDE DEF packet, last
<1> QED
  BY <1>1, <1>9, <1>12, <1>13, LeftOver

---------------------------------------------------------------------------
(* The other packets. *)

(* What is read of a packet is a packet of bytes. *)
Shape(p) ==
  CASE p.kind = "handshake" ->
         /\ p.version \in [1..3 -> Byte]
         /\ p.bots \in Seq(Hash) /\ p.maps \in Seq(Hash)
    [] p.kind = "game" -> p.data \in [1..3 -> Hash]
    [] OTHER -> p.code \in Byte

Brief == {"command", "status", "reason"}

(* fromBuffer of a packet of one byte. *)
LEMMA CodeRead ==
  ASSUME NEW kind \in Brief, NEW bytes \in Bytes, NEW junk \in Byte
  PROVE  LET r == ReadCode(kind, bytes, junk)
         IN /\ r.packet.kind = kind /\ Shape(r.packet) /\ r.rest \in Bytes
            /\ \A c \in Codes : bytes = <<c>>
                 => r.packet = [kind |-> kind, code |-> c] /\ r.rest = <<>>
<1> DEFINE i == Skip(bytes, 1)
           code == IF i <= Len(bytes) THEN bytes[i] ELSE junk
           packet == [kind |-> kind, code |-> code]
<1>1. ReadCode(kind, bytes, junk) = Result(packet, bytes, i + 1)
  BY DEF ReadCode
<1>2. Len(bytes) \in Nat /\ \A k \in 1..Len(bytes) : bytes[k] \in Byte
  BY LenProperties DEF Bytes
<1>3. i \in Nat /\ i >= 1 /\ (Peek(bytes, 1) \notin Blank => i = 1)
  <2>1. 1 \in Nat \ {0}
    OBVIOUS
  <2> QED
    BY <2>1, Skipped
<1> HIDE DEF i
<1>4. code \in Byte
  <2>1. i <= Len(bytes) => i \in 1..Len(bytes)
    BY <1>2, <1>3
  <2> QED
    BY <1>2, <2>1
<1>5. ASSUME NEW c \in Codes, bytes = <<c>>
      PROVE  code = c /\ i + 1 = Len(bytes) + 1
  <2>1. Len(bytes) = 1 /\ bytes[1] = c
    BY <1>5
  <2>2. Peek(bytes, 1) = c
    BY <2>1 DEF Peek
  <2>3. c \notin Blank
    BY Widths DEF Codes
  <2> QED
    BY <1>3, <2>1, <2>2, <2>3
<1> HIDE DEF code
<1>6. packet.kind = kind /\ Shape(packet)
  BY <1>4 DEF Shape, Brief
<1>7. i + 1 \in Nat \ {0}
  BY <1>3
<1> HIDE DEF packet
<1>8. LET r == Result(packet, bytes, i + 1)
      IN r.packet = packet /\ r.rest \in Bytes /\ (i + 1 = Len(bytes) + 1 => r.rest = <<>>)
  BY <1>7, LeftOver
<1> QED
  BY <1>1, <1>5, <1>6, <1>8 DEF packet

(* A packet of one byte, written. *)
LEMMA CodeWritten ==
  ASSUME NEW kind \in Brief, NEW p \in Coded(kind)
  PROVE  /\ p = [kind |-> kind, code |-> p.code] /\ p.kind = kind /\ p.code \in Codes
         /\ ToBuffer(p) = <<p.code>> /\ ToBuffer(p) \in Bytes /\ Len(ToBuffer(p)) = 1
         /\ Shape(p) /\ Solid(p)
<1>1. p = [kind |-> kind, code |-> p.code] /\ p.kind = kind /\ p.code \in Codes
  BY DEF Coded
<1>2. p.code \in Byte /\ p.kind # "handshake" /\ p.kind # "game"
  BY <1>1, Widths DEF Codes, Brief
<1>3. ToBuffer(p) = <<p.code>>
  BY <1>2 DEF ToBuffer
<1>4. <<p.code>> \in Bytes /\ Len(<<p.code>>) = 1
  BY <1>2 DEF Bytes
<1>5. Shape(p) /\ Solid(p)
  BY <1>2 DEF Shape, Solid
<1> QED
  BY <1>1, <1>3, <1>4, <1>5

(* fromBuffer of a StartGame packet: whatever the bytes are, three digests. *)
LEMMA GameRead ==
  ASSUME NEW bytes \in Bytes
  PROVE  LET r == ReadStartGame(bytes)
         IN /\ r.packet.kind = "game" /\ Shape(r.packet) /\ r.rest \in Bytes
            /\ \A p \in StartGames : bytes = ToBuffer(p) => r.packet = p /\ r.rest = <<>>
<1> DEFINE data == ReadHashes(bytes, 1, 3)
           packet == [kind |-> "game", data |-> data]
           last == 3 * Digest + 1
<1>1. ReadStartGame(bytes) = Result(packet, bytes, last)
  BY DEF ReadStartGame
<1>2. 1 \in Nat \ {0} /\ 3 \in Nat
  OBVIOUS
<1>3. /\ data \in [1..3 -> Hash]
      /\ \A s \in Seq(Hash) : Len(s) = 3 /\ Stands(FlattenSeq(s), bytes, 1) => data = s
  BY <1>2, HashesRead, Zenon
<1> HIDE DEF data
<1>4. packet.kind = "game" /\ Shape(packet)
  BY <1>3 DEF Shape
<1>5. ASSUME NEW p \in StartGames, bytes = ToBuffer(p)
      PROVE  packet = p /\ last = Len(bytes) + 1
  <2>1. p = [kind |-> "game", data |-> p.data] /\ p.data \in [1..3 -> Hash]
    BY Widths DEF StartGames
  <2>2. p.data \in Seq(Hash) /\ Len(p.data) = 3
    <3>1. \A n \in Nat : \A f \in [1..n -> Hash] : f \in Seq(Hash) /\ Len(f) = n
      BY FunctionSeq
    <3> QED
      BY <1>2, <2>1, <3>1, Zenon
  <2>3. bytes = FlattenSeq(p.data)
    BY <1>5, <2>1 DEF ToBuffer
  <2>4. Len(bytes) = Size(3)
    BY <2>2, <2>3, HashesWritten
  <2>5. Stands(bytes, bytes, 1)
    <3>1. Len(bytes) \in Nat
      BY LenProperties DEF Bytes
    <3>2. \A j \in 1..Len(bytes) : 1 + j - 1 = j
      BY <3>1
    <3> QED
      BY <1>2, <3>1, <3>2 DEF Stands
  <2>6. data = p.data
    BY <1>3, <2>2, <2>3, <2>5
  <2> QED
    BY <2>1, <2>4, <2>6, Sizes
<1>6. last \in Nat \ {0}
  BY Widths
<1> HIDE DEF packet, last
<1>7. LET r == Result(packet, bytes, last)
      IN r.packet = packet /\ r.rest \in Bytes /\ (last = Len(bytes) + 1 => r.rest = <<>>)
  BY <1>6, LeftOver
<1> QED
  BY <1>1, <1>4, <1>5, <1>7

(* A StartGame packet, written. *)
LEMMA GameWritten ==
  ASSUME NEW p \in StartGames
  PROVE  /\ p.kind = "game" /\ ToBuffer(p) \in Bytes /\ Len(ToBuffer(p)) = 3 * Digest
         /\ Shape(p) /\ Solid(p)
<1>1. p.kind = "game" /\ p.data \in [1..3 -> Hash]
  BY Widths DEF StartGames
<1>2. p.data \in Seq(Hash) /\ Len(p.data) = 3
  <2>1. \A n \in Nat : \A f \in [1..n -> Hash] : f \in Seq(Hash) /\ Len(f) = n
    BY FunctionSeq
  <2>2. 3 \in Nat
    OBVIOUS
  <2> QED
    BY <1>1, <2>1, <2>2, Zenon
<1>3. ToBuffer(p) = FlattenSeq(p.data)
  BY <1>1 DEF ToBuffer
<1>4. FlattenSeq(p.data) \in Bytes /\ Len(FlattenSeq(p.data)) = Size(3)
  BY <1>2, HashesWritten
<1>5. Shape(p) /\ Solid(p)
  BY <1>1 DEF Shape, Solid
<1> QED
  BY <1>1, <1>3, <1>4, <1>5, Sizes

---------------------------------------------------------------------------
(* The stream. *)

(* The first packet of a stream, and the one that may follow it. *)
Firsts == Handshakes \cup Coded("command")

Replies(p) ==
  CASE p.kind = "handshake" -> Coded("status")
    [] p = [kind |-> "command", code |-> DISCONNECT] -> Coded("reason")
    [] p = [kind |-> "command", code |-> START_GAME] -> StartGames
    [] OTHER -> {}

Written ==
  \/ sent = <<>>
  \/ sent = <<sent[1]>> /\ sent[1] \in Firsts
  \/ sent = <<sent[1], sent[2]>> /\ sent[1] \in Firsts /\ sent[2] \in Replies(sent[1])

(* The bytes of the second packet, or none yet. *)
Second == IF Len(sent) = 2 THEN ToBuffer(sent[2]) ELSE <<>>

(* a is what became of p: of the same kind, and p if no byte was skipped. *)
Kept(a, p) == a.kind = p.kind /\ Shape(a) /\ (Solid(p) => a = p)

(* Where the reader is: it waits for the first byte of a packet, for what  *)
(* is behind the size of a handshake, or for the second packet; or it has  *)
(* both.                                                                   *)
Fresh ==
  /\ sent = <<>> /\ wire = <<>> /\ got = <<>> /\ buffer = <<>>
  /\ await \in {Await("size", Word), Await("command", 1)}

Begun ==
  /\ sent # <<>> /\ got = <<>> /\ buffer = <<>>
  /\ wire = Cat(ToBuffer(sent[1]), Second)
  /\ await = IF sent[1].kind = "handshake" THEN Await("size", Word) ELSE Await("command", 1)

Sized ==
  /\ sent # <<>> /\ got = <<>> /\ buffer = <<>>
  /\ sent[1].kind = "handshake"
  /\ wire = Cat(Rest(sent[1]), Second)
  /\ await = Await("handshake", HandshakeSize(sent[1]))

Half ==
  /\ sent # <<>> /\ got = <<got[1]>> /\ Kept(got[1], sent[1])
  /\ wire = Second
  /\ await = Then(sent[1])
  /\ Solid(sent[1]) => buffer = <<>>

Done ==
  /\ Len(sent) = 2 /\ got = <<got[1], got[2]>> /\ Kept(got[1], sent[1])
  /\ Shape(got[2]) /\ got[2].kind = sent[2].kind
  /\ wire = <<>>
  /\ await = Nothing
  /\ Solid(sent[1]) => got[2] = sent[2] /\ buffer = <<>>

(* The inductive invariant.  Shape is what makes a misread handshake       *)
(* harmless to the stream: its kind alone decides what is awaited next.    *)
IInv == Written /\ buffer \in Bytes /\ (Fresh \/ Begun \/ Sized \/ Half \/ Done)

(* What is awaited after a packet, by its kind and code. *)
LEMMA Awaited ==
  /\ \A p : p.kind = "handshake" => Then(p) = Await("status", 1)
  /\ \A p : p.kind = "command" /\ p.code = 0 => Then(p) = Await("reason", 1)
  /\ \A p : p.kind = "command" /\ p.code = 1 => Then(p) = Await("game", 3 * Digest)
  /\ \A p : p.kind \in {"status", "reason", "game"} => Then(p) = Nothing
  BY DEF Then, DISCONNECT, START_GAME

(* The kinds of first packets and the answers to each. *)
LEMMA FirstKinds ==
  ASSUME NEW p \in Firsts
  PROVE  \/ p \in Handshakes /\ p.kind = "handshake" /\ Replies(p) = Coded("status")
         \/ /\ p \in Coded("command") /\ p.kind = "command" /\ p.code = 0
            /\ Replies(p) = Coded("reason")
         \/ /\ p \in Coded("command") /\ p.kind = "command" /\ p.code = 1
            /\ Replies(p) = StartGames
<1>1. CASE p \in Handshakes
  BY <1>1, HandshakeTyped DEF Replies
<1>2. CASE p \in Coded("command")
  <2>1. p = [kind |-> "command", code |-> p.code] /\ p.kind = "command" /\ p.code \in {0, 1}
    BY <1>2 DEF Coded, Codes
  <2>2. CASE p.code = 0
    <3>1. p = [kind |-> "command", code |-> 0]
      BY <2>1, <2>2
    <3> QED
      BY <1>2, <2>1, <2>2, <3>1 DEF Replies, DISCONNECT, START_GAME
  <2>3. CASE p.code = 1
    <3>1. p = [kind |-> "command", code |-> 1] /\ p # [kind |-> "command", code |-> 0]
      BY <2>1, <2>3
    <3> QED
      BY <1>2, <2>1, <2>3, <3>1 DEF Replies, DISCONNECT, START_GAME
  <2> QED
    BY <2>1, <2>2, <2>3
<1> QED
  BY <1>1, <1>2 DEF Firsts

(* The bytes of a first packet, and what is read of them: of a handshake   *)
(* those behind its size.                                                  *)
LEMMA FirstRead ==
  ASSUME NEW p \in Firsts, NEW junk \in Byte
  PROVE  LET bytes == IF p.kind = "handshake" THEN Rest(p) ELSE ToBuffer(p)
             r == FromBuffer(p.kind, bytes, junk)
         IN /\ ToBuffer(p) \in Bytes /\ bytes \in Bytes
            /\ Kept(r.packet, p) /\ Then(r.packet) = Then(p)
            /\ r.rest \in Bytes /\ (Solid(p) => r.rest = <<>>)
<1>1. CASE p \in Handshakes
  <2>1. p.kind = "handshake"
    BY <1>1, HandshakeTyped
  <2> DEFINE word == WriteUint32(HandshakeSize(p))
  <2>2. Rest(p) \in Bytes /\ ToBuffer(p) = Cat(word, Rest(p)) /\ word \in Bytes
    BY <1>1, HandshakeWritten
  <2>3. ToBuffer(p) \in Bytes
    BY <2>2, Parts
  <2> DEFINE r == ReadHandshake(Rest(p))
  <2>4. /\ r.packet \in HandshakeShape /\ r.rest \in Bytes
        /\ Solid(p) => r.packet = p /\ r.rest = <<>>
    BY <1>1, <2>2, HandshakeRead
  <2>5. FromBuffer("handshake", Rest(p), junk) = r
    BY DEF FromBuffer
  <2> HIDE DEF r
  <2>6. r.packet.kind = "handshake" /\ Shape(r.packet)
    BY <2>4 DEF HandshakeShape, Shape
  <2>7. Then(r.packet) = Then(p)
    BY <2>1, <2>6, Awaited
  <2> QED
    BY <2>1, <2>2, <2>3, <2>4, <2>5, <2>6, <2>7 DEF Kept
<1>2. CASE p \in Coded("command")
  <2>1. "command" \in Brief
    BY DEF Brief
  <2>2. /\ p = [kind |-> "command", code |-> p.code] /\ p.kind = "command" /\ p.code \in Codes
        /\ ToBuffer(p) = <<p.code>> /\ ToBuffer(p) \in Bytes
    BY <1>2, <2>1, CodeWritten
  <2> DEFINE r == ReadCode("command", ToBuffer(p), junk)
  <2>3. /\ Shape(r.packet) /\ r.rest \in Bytes /\ r.packet = p /\ r.rest = <<>>
    BY <2>1, <2>2, CodeRead
  <2>4. FromBuffer("command", ToBuffer(p), junk) = r
    BY DEF FromBuffer
  <2> HIDE DEF r
  <2> QED
    BY <2>2, <2>3, <2>4 DEF Kept
<1> QED
  BY <1>1, <1>2 DEF Firsts

(* An answer, and what is read when it is waited for: a packet of its      *)
(* kind, and the answer itself if no bytes are in front of it.             *)
LEMMA ReplyRead ==
  ASSUME NEW p \in Firsts, NEW q \in Replies(p)
  PROVE  /\ ToBuffer(q) \in Bytes /\ Len(ToBuffer(q)) \in Nat \ {0}
         /\ Then(p) = Await(q.kind, Len(ToBuffer(q)))
         /\ q.kind \in {"status", "reason", "game"} /\ Shape(q) /\ Solid(q)
         /\ \A bytes \in Bytes, junk \in Byte :
              LET r == FromBuffer(q.kind, bytes, junk)
              IN /\ r.packet.kind = q.kind /\ Shape(r.packet) /\ r.rest \in Bytes
                 /\ bytes = ToBuffer(q) => r.packet = q /\ r.rest = <<>>
<1>1. ASSUME NEW kind \in {"status", "reason"}, Replies(p) = Coded(kind), Then(p) = Await(kind, 1)
      PROVE  /\ ToBuffer(q) \in Bytes /\ Len(ToBuffer(q)) \in Nat \ {0}
             /\ Then(p) = Await(q.kind, Len(ToBuffer(q)))
             /\ q.kind \in {"status", "reason", "game"} /\ Shape(q) /\ Solid(q)
             /\ \A bytes \in Bytes, junk \in Byte :
                  LET r == FromBuffer(q.kind, bytes, junk)
                  IN /\ r.packet.kind = q.kind /\ Shape(r.packet) /\ r.rest \in Bytes
                     /\ bytes = ToBuffer(q) => r.packet = q /\ r.rest = <<>>
  <2>1. kind \in Brief /\ q \in Coded(kind)
    BY <1>1 DEF Brief
  <2>2. /\ q = [kind |-> kind, code |-> q.code] /\ q.kind = kind /\ q.code \in Codes
        /\ ToBuffer(q) = <<q.code>> /\ ToBuffer(q) \in Bytes /\ Len(ToBuffer(q)) = 1
        /\ Shape(q) /\ Solid(q)
    BY <2>1, CodeWritten
  <2>3. ASSUME NEW bytes \in Bytes, NEW junk \in Byte
        PROVE  LET r == FromBuffer(q.kind, bytes, junk)
               IN /\ r.packet.kind = q.kind /\ Shape(r.packet) /\ r.rest \in Bytes
                  /\ bytes = ToBuffer(q) => r.packet = q /\ r.rest = <<>>
    <3> DEFINE r == ReadCode(kind, bytes, junk)
    <3>1. /\ r.packet.kind = kind /\ Shape(r.packet) /\ r.rest \in Bytes
          /\ bytes = <<q.code>> => r.packet = [kind |-> kind, code |-> q.code] /\ r.rest = <<>>
      BY <2>1, <2>2, CodeRead
    <3>2. FromBuffer(kind, bytes, junk) = r
      BY <1>1 DEF FromBuffer
    <3> HIDE DEF r
    <3> QED
      BY <2>2, <3>1, <3>2
  <2> QED
    BY <1>1, <2>2, <2>3
<1>2. ASSUME Replies(p) = StartGames, Then(p) = Await("game", 3 * Digest)
      PROVE  /\ ToBuffer(q) \in Bytes /\ Len(ToBuffer(q)) \in Nat \ {0}
             /\ Then(p) = Await(q.kind, Len(ToBuffer(q)))
             /\ q.kind \in {"status", "reason", "game"} /\ Shape(q) /\ Solid(q)
             /\ \A bytes \in Bytes, junk \in Byte :
                  LET r == FromBuffer(q.kind, bytes, junk)
                  IN /\ r.packet.kind = q.kind /\ Shape(r.packet) /\ r.rest \in Bytes
                     /\ bytes = ToBuffer(q) => r.packet = q /\ r.rest = <<>>
  <2>1. /\ q \in StartGames /\ q.kind = "game" /\ ToBuffer(q) \in Bytes
        /\ Len(ToBuffer(q)) = 3 * Digest /\ Shape(q) /\ Solid(q)
    BY <1>2, GameWritten
  <2>2. 3 * Digest \in Nat \ {0}
    BY Widths
  <2>3. ASSUME NEW bytes \in Bytes, NEW junk \in Byte
        PROVE  LET r == FromBuffer(q.kind, bytes, junk)
               IN /\ r.packet.kind = q.kind /\ Shape(r.packet) /\ r.rest \in Bytes
                  /\ bytes = ToBuffer(q) => r.packet = q /\ r.rest = <<>>
    <3> DEFINE r == ReadStartGame(bytes)
    <3>1. /\ r.packet.kind = "game" /\ Shape(r.packet) /\ r.rest \in Bytes
          /\ bytes = ToBuffer(q) => r.packet = q /\ r.rest = <<>>
      BY <2>1, GameRead
    <3>2. FromBuffer("game", bytes, junk) = r
      BY DEF FromBuffer
    <3> HIDE DEF r
    <3> QED
      BY <2>1, <3>1, <3>2
  <2> QED
    BY <1>2, <2>1, <2>2, <2>3
<1>3. CASE p.kind = "handshake" /\ Replies(p) = Coded("status")
  BY <1>1, <1>3, Awaited
<1>4. CASE p.kind = "command" /\ p.code = 0 /\ Replies(p) = Coded("reason")
  BY <1>1, <1>4, Awaited
<1>5. CASE p.kind = "command" /\ p.code = 1 /\ Replies(p) = StartGames
  BY <1>2, <1>5, Awaited
<1> QED
  BY <1>3, <1>4, <1>5, FirstKinds

(* The shape of a stream: of its packets, and of the second one's bytes.   *)
LEMMA StreamTyped ==
  ASSUME Written
  PROVE  /\ Len(sent) \in {0, 1, 2} /\ (sent # <<>> <=> Len(sent) # 0)
         /\ sent = <<>> => Second = <<>>
         /\ sent # <<>> => sent[1] \in Firsts
         /\ Len(sent) = 1 => Second = <<>> /\ sent = <<sent[1]>>
         /\ Len(sent) = 2 => /\ sent[2] \in Replies(sent[1]) /\ Second = ToBuffer(sent[2])
                             /\ sent = <<sent[1], sent[2]>>
         /\ Second \in Bytes /\ Len(Second) \in Nat
<1>0. <<>> \in Bytes /\ Len(<<>>) = 0
  BY DEF Bytes
<1>1. CASE sent = <<>>
  BY <1>0, <1>1 DEF Second
<1>2. CASE sent = <<sent[1]>> /\ sent[1] \in Firsts
  <2>1. Len(sent) = 1 /\ sent # <<>>
    BY <1>2
  <2> QED
    BY <1>0, <1>2, <2>1 DEF Second
<1>3. CASE sent = <<sent[1], sent[2]>> /\ sent[1] \in Firsts /\ sent[2] \in Replies(sent[1])
  <2>1. Len(sent) = 2 /\ sent # <<>>
    BY <1>3
  <2>2. ToBuffer(sent[2]) \in Bytes /\ Len(ToBuffer(sent[2])) \in Nat
    BY <1>3, ReplyRead
  <2> QED
    BY <1>3, <2>1, <2>2 DEF Second
<1> QED
  BY <1>1, <1>2, <1>3 DEF Written

(* Nothing in front or behind changes nothing. *)
LEMMA CatNothing ==
  ASSUME NEW s \in Bytes
  PROVE  Cat(<<>>, s) = s /\ Cat(s, <<>>) = s
  BY ConcatEmptySeq DEF Bytes, Cat

(* A write adds a packet's bytes behind those that are there: the first    *)
(* packet to an empty stream, then its answer.                             *)
LEMMA WriteInv ==
  ASSUME IInv, NEW p \in Writable, Write(p)
  PROVE  IInv'
<1>1. /\ sent' = Append(sent, p) /\ wire' = Cat(wire, ToBuffer(p))
      /\ UNCHANGED <<buffer, await, got>> /\ buffer' \in Bytes
  BY DEF Write, IInv, Cat
<1>2. CASE sent = <<>>
  <2>1. Fresh
    BY <1>2 DEF IInv, Begun, Sized, Half, Done
  <2>2. p \in IF await.kind = "size" THEN Handshakes ELSE Coded("command")
    BY <1>2 DEF Writable
  <2>3. sent' = <<p>>
    BY <1>1, <1>2
  <2>4. \/ p \in Handshakes /\ await = Await("size", Word)
        \/ p \in Coded("command") /\ await = Await("command", 1)
    BY <2>1, <2>2 DEF Fresh, Await
  <2>5. p \in Firsts
    BY <2>4 DEF Firsts
  <2>6. await' = IF p.kind = "handshake" THEN Await("size", Word) ELSE Await("command", 1)
    BY <1>1, <2>4, HandshakeTyped DEF Coded
  <2>7. ToBuffer(p) \in Bytes
    <3>1. 0 \in Byte
      BY Widths
    <3> QED
      BY <2>5, <3>1, FirstRead
  <2>8. Len(sent') # 2 /\ sent'[1] = p /\ sent' # <<>> /\ sent' = <<sent'[1]>>
    BY <2>3
  <2>9. Second' = <<>>
    BY <2>8 DEF Second
  <2>10. wire' = Cat(ToBuffer(p), <<>>)
    BY <1>1, <2>1, <2>7, CatNothing DEF Fresh
  <2>11. Begun'
    BY <1>1, <2>1, <2>6, <2>8, <2>9, <2>10 DEF Begun, Fresh
  <2>12. Written'
    BY <2>5, <2>8 DEF Written
  <2> QED
    BY <1>1, <2>11, <2>12 DEF IInv
<1>3. CASE Len(sent) = 1
  <2>1. sent = <<sent[1]>> /\ sent[1] \in Firsts /\ Second = <<>> /\ sent # <<>>
    BY <1>3, StreamTyped DEF IInv
  <2>2. Last(sent) = sent[1]
    BY <1>3 DEF Last
  <2>3. p \in Replies(sent[1])
    BY <2>1, <2>2 DEF Writable, Replies
  <2>4. sent' = <<sent[1], p>>
    <3>1. Append(<<sent[1]>>, p) = <<sent[1], p>>
      BY AppendToFew
    <3> QED
      BY <1>1, <2>1, <3>1, Zenon
  <2>5. /\ Len(sent') = 2 /\ sent' # <<>> /\ sent'[1] = sent[1] /\ sent'[2] = p
        /\ sent' = <<sent'[1], sent'[2]>>
    BY <2>4
  <2>6. Second' = ToBuffer(p) /\ Written'
    BY <2>1, <2>3, <2>5 DEF Second, Written
  <2>7. ToBuffer(p) \in Bytes
    BY <2>1, <2>3, ReplyRead
  <2>8. ASSUME NEW x \in Bytes, wire = Cat(x, <<>>)
        PROVE  wire' = Cat(x, Second')
    BY <1>1, <2>6, <2>8, CatNothing
  <2>9. CASE Begun
    <3>1. ToBuffer(sent[1]) \in Bytes
      <4>1. 0 \in Byte
        BY Widths
      <4> QED
        BY <2>1, <4>1, FirstRead
    <3>2. wire' = Cat(ToBuffer(sent[1]), Second')
      BY <2>1, <2>8, <2>9, <3>1 DEF Begun
    <3> QED
      BY <1>1, <2>5, <2>6, <2>9, <3>2 DEF Begun, IInv
  <2>10. CASE Sized
    <3>1. Rest(sent[1]) \in Bytes
      <4>1. sent[1] \in Handshakes
        BY <2>1, <2>10, FirstKinds DEF Sized
      <4> QED
        BY <4>1, HandshakeWritten
    <3>2. wire' = Cat(Rest(sent[1]), Second')
      BY <2>1, <2>8, <2>10, <3>1 DEF Sized
    <3> QED
      BY <1>1, <2>5, <2>6, <2>10, <3>2 DEF Sized, IInv
  <2>11. CASE Half
    <3>1. wire' = Second'
      BY <1>1, <2>1, <2>6, <2>7, <2>11, CatNothing DEF Half
    <3>2. got' = got /\ await' = await /\ buffer' = buffer
      BY <1>1
    <3>3. Half'
      BY <2>5, <2>11, <3>1, <3>2 DEF Half
    <3> QED
      BY <1>1, <2>6, <3>3 DEF IInv
  <2> QED
    BY <1>3, <2>1, <2>9, <2>10, <2>11 DEF IInv, Fresh, Done
<1>4. CASE Len(sent) = 2
  <2>1. sent[1] \in Firsts /\ sent[2] \in Replies(sent[1]) /\ sent # <<>>
    BY <1>4, StreamTyped DEF IInv
  <2>2. Last(sent) = sent[2] /\ sent[2].kind \in {"status", "reason", "game"}
    BY <1>4, <2>1, ReplyRead DEF Last
  <2>3. Writable = {}
    BY <2>1, <2>2 DEF Writable
  <2> QED
    BY <2>3
<1> QED
  BY <1>2, <1>3, <1>4, StreamTyped DEF IInv

(* What is awaited between the two packets. *)
LEMMA AwaitedBetween ==
  ASSUME NEW p \in Firsts
  PROVE  \E kind \in {"status", "reason", "game"}, n \in Nat \ {0} : Then(p) = Await(kind, n)
<1>1. 3 * Digest \in Nat \ {0} /\ 1 \in Nat \ {0}
  BY Widths
<1>2. \/ Then(p) = Await("status", 1) \/ Then(p) = Await("reason", 1)
      \/ Then(p) = Await("game", 3 * Digest)
  BY FirstKinds, Awaited
<1> QED
  BY <1>1, <1>2, Zenon

(* A reader goes on when all the bytes it waits for are there: they are    *)
(* cut off the wire and put behind what is in its buffer.                  *)
LEMMA AllReceived ==
  ASSUME NEW x \in Bytes, NEW y \in Bytes, wire = Cat(x, y), await.bytes = Len(x),
         buffer \in Bytes, Receives
  PROVE  /\ Received = Cat(buffer, x) /\ Received \in Bytes
         /\ wire' = y /\ sent' = sent
<1>1. SubSeq(wire, 1, Len(x)) = x /\ SubSeq(wire, Len(x) + 1, Len(wire)) = y
  BY Parts
<1>2. Received = Cat(buffer, x)
  BY <1>1 DEF Received, Cat
<1>3. wire' = y /\ sent' = sent
  BY <1>1 DEF Receives
<1> QED
  BY <1>2, <1>3, Parts

(* While nothing is written nothing is read. *)
LEMMA NothingReceived ==
  ASSUME await.bytes \in Nat \ {0}, wire = <<>>
  PROVE  ~ Receives
<1>1. Len(wire) = 0
  OBVIOUS
<1> QED
  BY <1>1 DEF Receives

(* The server reads the size of the handshake. *)
LEMMA ReadSizeInv ==
  ASSUME IInv, ReadSize
  PROVE  IInv'
<1>1. /\ Receives /\ await.kind = "size" /\ got' = got
      /\ await' = Await("handshake", ReadUint32(Received, 1))
      /\ buffer' = SubSeq(Received, Word + 1, Len(Received))
  BY DEF ReadSize
<1>2. Begun /\ sent[1] \in Handshakes
  <2>1. ~ Fresh
    <3>1. Word \in Nat \ {0}
      BY Widths
    <3> QED
      BY <1>1, <3>1, NothingReceived DEF Fresh, Await
  <2>2. ~ Sized /\ ~ Done
    BY <1>1 DEF Sized, Done, Await, Nothing
  <2>3. ~ Half
    <3> SUFFICES ASSUME Half PROVE FALSE
      OBVIOUS
    <3>1. sent[1] \in Firsts
      BY StreamTyped DEF IInv, Half
    <3> QED
      BY <1>1, <3>1, AwaitedBetween DEF Half, Await
  <2>4. Begun /\ sent[1] \in Firsts
    BY <2>1, <2>2, <2>3, StreamTyped DEF IInv, Begun
  <2>5. sent[1].kind = "handshake"
    BY <1>1, <2>4 DEF Begun, Await
  <2> QED
    BY <2>4, <2>5, FirstKinds
<1> DEFINE p == sent[1]
           word == WriteUint32(HandshakeSize(p))
<1>3. /\ ToBuffer(p) = Cat(word, Rest(p)) /\ word \in Bytes /\ Len(word) = Word
      /\ Rest(p) \in Bytes /\ p.kind = "handshake"
      /\ HandshakeSize(p) \in Nat /\ HandshakeSize(p) < Power(Base, Word)
  BY <1>2, HandshakeWritten, HandshakeTyped, SizesFit
<1> HIDE DEF word
<1>4. Second \in Bytes /\ buffer \in Bytes
  BY StreamTyped DEF IInv
<1>5. wire = Cat(word, Cat(Rest(p), Second)) /\ Cat(Rest(p), Second) \in Bytes
  BY <1>2, <1>3, <1>4, CatAssociative, Parts DEF Begun
<1>6. await.bytes = Len(word) /\ buffer = <<>> /\ got = <<>> /\ sent # <<>>
  BY <1>2, <1>3 DEF Begun, Await
<1>7. Received = Cat(buffer, word) /\ wire' = Cat(Rest(p), Second) /\ sent' = sent
  BY <1>1, <1>3, <1>4, <1>5, <1>6, AllReceived
<1>8. Received = word
  BY <1>3, <1>6, <1>7, CatNothing
<1>9. ReadUint32(Received, 1) = HandshakeSize(p)
  <2>1. Stands(word, Cat(word, <<>>), 1)
    <3>1. <<>> \in Bytes
      BY DEF Bytes
    <3> QED
      BY <1>3, <3>1, Parts
  <2>2. Stands(word, word, 1)
    BY <1>3, <2>1, CatNothing
  <2>3. 1 \in Nat \ {0}
    OBVIOUS
  <2> QED
    BY <1>3, <1>8, <2>2, <2>3, WordRead DEF word
<1>10. buffer' = <<>> /\ buffer' \in Bytes
  <2>1. buffer' = SubSeq(Cat(word, <<>>), Len(word) + 1, Len(Cat(word, <<>>)))
    BY <1>1, <1>3, <1>8, CatNothing
  <2>2. <<>> \in Bytes
    BY DEF Bytes
  <2> QED
    BY <1>3, <2>1, <2>2, Parts
<1>11. Second' = Second /\ Written'
  BY <1>7 DEF Second, Written, IInv
<1>12. Sized'
  BY <1>1, <1>3, <1>6, <1>7, <1>9, <1>10, <1>11 DEF Sized
<1> QED
  BY <1>10, <1>11, <1>12 DEF IInv

(* A packet is read: the first, as it is if no byte of it was skipped, or  *)
(* the second.                                                             *)
LEMMA ReadPacketInv ==
  ASSUME IInv, ReadPacket
  PROVE  IInv'
<1>1. PICK junk \in Byte :
        LET r == FromBuffer(await.kind, Received, junk)
        IN buffer' = r.rest /\ got' = Append(got, r.packet) /\ await' = Then(r.packet)
  BY DEF ReadPacket
<1>2. Receives /\ await # Nothing /\ await.kind # "size" /\ sent' = sent
  BY DEF ReadPacket, Receives
<1>3. Second \in Bytes /\ buffer \in Bytes
  BY StreamTyped DEF IInv
<1>4. Second' = Second /\ Written'
  BY <1>2 DEF Second, Written, IInv
<1> DEFINE r == FromBuffer(await.kind, Received, junk)
           p == sent[1]
<1>5. buffer' = r.rest /\ got' = Append(got, r.packet) /\ await' = Then(r.packet)
  BY <1>1
<1> HIDE DEF r
<1>6. ASSUME NEW x, x = IF p.kind = "handshake" THEN Rest(p) ELSE ToBuffer(p),
             sent # <<>>, got = <<>>, buffer = <<>>, wire = Cat(x, Second),
             await = Await(p.kind, Len(x))
      PROVE  Half' /\ buffer' \in Bytes
  <2>1. p \in Firsts
    BY <1>6, StreamTyped DEF IInv
  <2>2. x \in Bytes
    BY <1>6, <2>1, FirstRead
  <2>3. await.kind = p.kind /\ await.bytes = Len(x)
    BY <1>6 DEF Await
  <2>4. Received = Cat(buffer, x) /\ wire' = Second
    BY <1>2, <1>3, <1>6, <2>2, <2>3, AllReceived
  <2>5. Received = x
    BY <1>6, <2>2, <2>4, CatNothing
  <2>6. r = FromBuffer(p.kind, x, junk)
    BY <2>3, <2>5 DEF r
  <2>7. /\ Kept(r.packet, p) /\ Then(r.packet) = Then(p)
        /\ r.rest \in Bytes /\ (Solid(p) => r.rest = <<>>)
    BY <1>6, <2>1, <2>6, FirstRead
  <2>8. got' = <<r.packet>>
    BY <1>5, <1>6
  <2>9. got'[1] = r.packet /\ got' = <<got'[1]>>
    BY <2>8
  <2> QED
    BY <1>2, <1>4, <1>5, <1>6, <2>4, <2>7, <2>9 DEF Half
<1>7. CASE Fresh
  <2>1. await.bytes \in Nat \ {0}
    BY <1>7, Widths DEF Fresh, Await
  <2> QED
    BY <1>2, <1>7, <2>1, NothingReceived DEF Fresh
<1>8. CASE Begun
  <2>1. p \in Firsts /\ p.kind # "handshake"
    BY <1>2, <1>8, StreamTyped DEF IInv, Begun, Await
  <2>2. p \in Coded("command") /\ p.kind = "command"
    BY <2>1, FirstKinds
  <2>3. "command" \in Brief
    BY DEF Brief
  <2>4. Len(ToBuffer(p)) = 1
    BY <2>2, <2>3, CodeWritten
  <2>5. Half' /\ buffer' \in Bytes
    BY <1>6, <1>8, <2>1, <2>2, <2>4 DEF Begun
  <2> QED
    BY <1>4, <2>5 DEF IInv
<1>9. CASE Sized
  <2>1. p \in Handshakes /\ p.kind = "handshake"
    BY <1>9, StreamTyped, FirstKinds DEF IInv, Sized
  <2>2. Len(Rest(p)) = HandshakeSize(p)
    BY <2>1, HandshakeWritten
  <2>3. Half' /\ buffer' \in Bytes
    BY <1>6, <1>9, <2>1, <2>2 DEF Sized
  <2> QED
    BY <1>4, <2>3 DEF IInv
<1>10. CASE Half
  <2> DEFINE q == sent[2]
             a == got[1]
  <2>1. p \in Firsts /\ await = Then(p) /\ wire = Second /\ got = <<a>> /\ Kept(a, p)
    BY <1>10, StreamTyped DEF IInv, Half
  <2>2. Len(sent) = 2 /\ q \in Replies(p) /\ Second = ToBuffer(q)
    <3>1. await.bytes \in Nat \ {0}
      BY <2>1, AwaitedBetween DEF Await
    <3>2. Second # <<>>
      BY <1>2, <2>1, <3>1, NothingReceived
    <3> QED
      BY <1>10, <3>2, StreamTyped DEF IInv, Half
  <2>3. /\ ToBuffer(q) \in Bytes /\ Then(p) = Await(q.kind, Len(ToBuffer(q)))
        /\ q.kind \in {"status", "reason", "game"}
        /\ \A bytes \in Bytes :
             LET s == FromBuffer(q.kind, bytes, junk)
             IN /\ s.packet.kind = q.kind /\ Shape(s.packet) /\ s.rest \in Bytes
                /\ bytes = ToBuffer(q) => s.packet = q /\ s.rest = <<>>
    BY <2>1, <2>2, ReplyRead
  <2>4. await.kind = q.kind /\ await.bytes = Len(ToBuffer(q))
    BY <2>1, <2>3 DEF Await
  <2>5. wire = Cat(ToBuffer(q), <<>>) /\ <<>> \in Bytes
    BY <2>1, <2>2, <2>3, CatNothing DEF Bytes
  <2>6. Received = Cat(buffer, ToBuffer(q)) /\ Received \in Bytes /\ wire' = <<>>
    BY <1>2, <1>3, <2>3, <2>4, <2>5, AllReceived
  <2>7. /\ r.packet.kind = q.kind /\ Shape(r.packet) /\ r.rest \in Bytes
        /\ Received = ToBuffer(q) => r.packet = q /\ r.rest = <<>>
    BY <2>3, <2>4, <2>6 DEF r
  <2>8. Solid(p) => Received = ToBuffer(q)
    BY <1>10, <2>3, <2>6, CatNothing DEF Half
  <2>9. await' = Nothing
    BY <1>5, <2>3, <2>7, Awaited
  <2>10. got' = <<a, r.packet>>
    <3>1. Append(<<a>>, r.packet) = <<a, r.packet>>
      BY AppendToFew
    <3> QED
      BY <1>5, <2>1, <3>1, Zenon
  <2>11. got'[1] = a /\ got'[2] = r.packet /\ got' = <<got'[1], got'[2]>>
    BY <2>10
  <2>12. Done'
    BY <1>2, <1>5, <2>1, <2>2, <2>6, <2>7, <2>8, <2>9, <2>11 DEF Done
  <2> QED
    BY <1>4, <1>5, <2>7, <2>12 DEF IInv
<1> QED
  BY <1>2, <1>7, <1>8, <1>9, <1>10 DEF IInv, Done

(* The beginning. *)
LEMMA InitInv == Init => IInv
<1> SUFFICES ASSUME Init PROVE IInv
  OBVIOUS
<1>1. Fresh
  BY DEF Init, Fresh
<1>2. buffer \in Bytes
  BY DEF Init, Bytes
<1> QED
  BY <1>1, <1>2 DEF IInv, Written, Fresh

(* Every step keeps the invariant. *)
LEMMA NextInv == IInv /\ [Next]_vars => IInv'
<1> SUFFICES ASSUME IInv, [Next]_vars PROVE IInv'
  OBVIOUS
<1>1. CASE UNCHANGED vars
  BY <1>1 DEF vars, IInv, Written, Second, Fresh, Begun, Sized, Half, Done
<1>2. CASE Next
  BY <1>2, WriteInv, ReadSizeInv, ReadPacketInv DEF Next
<1> QED
  BY <1>1, <1>2

(* IInv holds in every state: for all widths of bytes, words and digests,  *)
(* all lists of digests and all versions, misread ones included.           *)
THEOREM Inductive == Spec => []IInv
  BY InitInv, NextInv, PTL DEF Spec

---------------------------------------------------------------------------
(* What follows from the invariant. *)

(* Sequences of one element or two. *)
LEMMA Few ==
  ASSUME NEW a, NEW b
  PROVE  /\ Len(<<a>>) = 1 /\ DOMAIN <<a>> = {1} /\ Len(<<a, b>>) = 2 /\ DOMAIN <<a, b>> = {1, 2}
         /\ IsPrefix(<<>>, <<>>) /\ IsPrefix(<<>>, <<a>>) /\ IsPrefix(<<>>, <<a, b>>)
         /\ IsPrefix(<<a>>, <<a>>) /\ IsPrefix(<<a>>, <<a, b>>) /\ IsPrefix(<<a, b>>, <<a, b>>)
<1> DEFINE S == {a, b}
           s == <<a>>
           t == <<a, b>>
<1>1. s \in Seq(S) /\ Len(s) = 1 /\ s[1] = a
  OBVIOUS
<1>2. t \in Seq(S) /\ Len(t) = 2 /\ t[1] = a /\ t[2] = b
  OBVIOUS
<1>3. <<>> \in Seq(S) /\ Len(<<>>) = 0
  OBVIOUS
<1>4. DOMAIN s = {1} /\ DOMAIN t = {1, 2}
  OBVIOUS
<1> HIDE DEF S, s, t
<1>5. ASSUME NEW u \in Seq(S) PROVE IsPrefix(<<>>, u)
  <2>1. Len(u) \in Nat
    BY LenProperties
  <2>2. SubSeq(<<>>, 1, 0) = <<>> /\ SubSeq(u, 1, 0) = <<>>
    BY <2>1
  <2> QED
    BY <1>3, <2>1, <2>2 DEF IsPrefix
<1>6. ASSUME NEW u \in Seq(S) PROVE IsPrefix(u, u)
  <2>1. Len(u) \in Nat
    BY LenProperties
  <2> QED
    BY <2>1 DEF IsPrefix
<1>7. IsPrefix(s, t)
  <2>1. SubSeq(s, 1, 1) \in Seq(S) /\ Len(SubSeq(s, 1, 1)) = 1 /\ SubSeq(s, 1, 1)[1] = a
    BY <1>1
  <2>2. SubSeq(t, 1, 1) \in Seq(S) /\ Len(SubSeq(t, 1, 1)) = 1 /\ SubSeq(t, 1, 1)[1] = a
    BY <1>2
  <2>3. SubSeq(s, 1, 1) = SubSeq(t, 1, 1)
    <3> DEFINE x == SubSeq(s, 1, 1)
               y == SubSeq(t, 1, 1)
    <3>1. x \in Seq(S) /\ y \in Seq(S) /\ Len(x) = 1 /\ Len(y) = 1 /\ x[1] = y[1]
      BY <2>1, <2>2
    <3> HIDE DEF x, y
    <3>2. x = y
      BY <3>1, SeqEqual
    <3> QED
      BY <3>2 DEF x, y
  <2> QED
    BY <1>1, <1>2, <2>3 DEF IsPrefix
<1> QED
  BY <1>1, <1>2, <1>3, <1>4, <1>5, <1>6, <1>7, Zenon DEF s, t

(* What was written, what was read of it, and whether bytes are skipped.   *)
LEMMA Streams ==
  ASSUME IInv
  PROVE  /\ \/ sent = <<>> /\ got = <<>> /\ Fresh
            \/ sent # <<>> /\ got = <<>> /\ (Begun \/ Sized)
            \/ sent # <<>> /\ got = <<got[1]>> /\ Half /\ Kept(got[1], sent[1])
            \/ /\ sent = <<sent[1], sent[2]>> /\ got = <<got[1], got[2]>> /\ Done
               /\ Kept(got[1], sent[1]) /\ Shape(got[2])
         /\ AllSolid /\ sent # <<>> => Solid(sent[1])
<1>1. AllSolid /\ sent # <<>> => Solid(sent[1])
  <2> SUFFICES ASSUME AllSolid, sent # <<>> PROVE Solid(sent[1])
    OBVIOUS
  <2>1. sent = <<sent[1]>> \/ sent = <<sent[1], sent[2]>>
    BY DEF IInv, Written
  <2>2. 1 \in DOMAIN <<sent[1]>> /\ 1 \in DOMAIN <<sent[1], sent[2]>>
    BY Few
  <2>3. 1 \in DOMAIN sent
    BY <2>1, <2>2, Zenon
  <2> QED
    BY <2>3 DEF AllSolid
<1>2. Fresh => sent = <<>> /\ got = <<>>
  BY DEF Fresh
<1>3. Begun => sent # <<>> /\ got = <<>>
  BY DEF Begun
<1>4. Sized => sent # <<>> /\ got = <<>>
  BY DEF Sized
<1>5. Half => sent # <<>> /\ got = <<got[1]>> /\ Kept(got[1], sent[1])
  BY DEF Half
<1>6. Done => /\ sent = <<sent[1], sent[2]>> /\ got = <<got[1], got[2]>>
              /\ Kept(got[1], sent[1]) /\ Shape(got[2])
  BY StreamTyped DEF IInv, Done
<1> QED
  BY <1>1, <1>2, <1>3, <1>4, <1>5, <1>6, Zenon DEF IInv

(* TypeOK holds in every state: only bytes are on the wire and left in the *)
(* buffer, and a misread handshake too is one of bytes and whole digests.  *)
THEOREM PacketsTyped == Spec => []TypeOK
<1>1. IInv => TypeOK
  <2> SUFFICES ASSUME IInv PROVE TypeOK
    OBVIOUS
  <2>1. buffer \in Seq(Byte)
    BY DEF IInv, Bytes
  <2>2. wire \in Seq(Byte) /\ await.bytes \in Nat
    <3>1. Second \in Bytes /\ <<>> \in Bytes
      BY StreamTyped DEF IInv, Bytes
    <3>2. Word \in Nat /\ 0 \in Byte
      BY Widths
    <3>3. CASE Fresh
      BY <3>1, <3>2, <3>3 DEF Fresh, Await, Bytes
    <3>4. CASE Begun
      <4>1. sent[1] \in Firsts
        BY <3>4, StreamTyped DEF IInv, Begun
      <4>2. ToBuffer(sent[1]) \in Bytes
        BY <3>2, <4>1, FirstRead
      <4>3. wire \in Bytes
        BY <3>1, <3>4, <4>2, Parts DEF Begun
      <4> QED
        BY <3>2, <3>4, <4>3 DEF Begun, Await, Bytes
    <3>5. CASE Sized
      <4>1. sent[1] \in Handshakes
        BY <3>5, StreamTyped, FirstKinds DEF IInv, Sized
      <4>2. Rest(sent[1]) \in Bytes /\ HandshakeSize(sent[1]) \in Nat
        BY <4>1, HandshakeWritten, SizesFit
      <4>3. wire \in Bytes
        BY <3>1, <3>5, <4>2, Parts DEF Sized
      <4> QED
        BY <3>5, <4>2, <4>3 DEF Sized, Await, Bytes
    <3>6. CASE Half
      <4>1. sent[1] \in Firsts
        BY <3>6, StreamTyped DEF IInv, Half
      <4>2. Then(sent[1]).bytes \in Nat
        BY <4>1, AwaitedBetween DEF Await
      <4> QED
        BY <3>1, <3>6, <4>2 DEF Half, Bytes
    <3>7. CASE Done
      BY <3>1, <3>7 DEF Done, Nothing, Await, Bytes
    <3> QED
      BY <3>3, <3>4, <3>5, <3>6, <3>7 DEF IInv
  <2>3. ASSUME NEW i \in DOMAIN got PROVE Shape(got[i])
    <3>1. /\ got = <<>> \/ got = <<got[1]>> \/ got = <<got[1], got[2]>>
          /\ got = <<got[1]>> => Shape(got[1])
          /\ got = <<got[1], got[2]>> => Shape(got[1]) /\ Shape(got[2])
      <4>1. /\ <<got[1]>> # <<>> /\ <<got[1], got[2]>> # <<>>
            /\ <<got[1]>> # <<got[1], got[2]>>
        <5>1. Len(<<>>) = 0 /\ Len(<<got[1]>>) = 1 /\ Len(<<got[1], got[2]>>) = 2
          OBVIOUS
        <5> QED
          BY <5>1
      <4> QED
        BY <4>1, Streams, Zenon DEF Kept
    <3>2. /\ DOMAIN <<>> = {} /\ DOMAIN <<got[1]>> = {1} /\ DOMAIN <<got[1], got[2]>> = {1, 2}
      BY Few
    <3>3. \/ i = 1 /\ Shape(got[1])
          \/ i = 2 /\ Shape(got[2])
      <4>1. CASE got = <<>>
        <5>1. DOMAIN got = {}
          BY <3>2, <4>1, Zenon
        <5> QED
          BY <2>3, <5>1
      <4>2. CASE got = <<got[1]>>
        <5>1. DOMAIN got = {1}
          BY <3>2, <4>2, Zenon
        <5> QED
          BY <2>3, <3>1, <4>2, <5>1, Zenon
      <4>3. CASE got = <<got[1], got[2]>>
        <5>1. DOMAIN got = {1, 2}
          BY <3>2, <4>3, Zenon
        <5> QED
          BY <2>3, <3>1, <4>3, <5>1, Zenon
      <4> QED
        BY <3>1, <4>1, <4>2, <4>3
    <3> QED
      BY <3>3
  <2> QED
    BY <2>1, <2>2, <2>3 DEF TypeOK, Shape, Hash
<1> QED
  BY <1>1, Inductive, PTL

(* ReadAsWritten holds in every state: what a reader makes of the bytes is *)
(* what the writer meant, up to the skipping of white space in a version.  *)
THEOREM AllReadAsWritten == Spec => []ReadAsWritten
<1>1. IInv => ReadAsWritten
  <2> SUFFICES ASSUME IInv, AllSolid PROVE IsPrefix(got, sent)
    BY DEF ReadAsWritten
  <2> DEFINE p == sent[1]
             q == sent[2]
  <2>1. /\ IsPrefix(<<>>, <<>>) /\ IsPrefix(<<>>, <<p>>) /\ IsPrefix(<<>>, <<p, q>>)
        /\ IsPrefix(<<p>>, <<p>>) /\ IsPrefix(<<p>>, <<p, q>>) /\ IsPrefix(<<p, q>>, <<p, q>>)
    BY Few
  <2>2. sent = <<>> \/ sent = <<p>> \/ sent = <<p, q>>
    BY DEF IInv, Written
  <2>3. sent # <<>> => Solid(p)
    BY Streams
  <2>4. CASE got = <<>>
    BY <2>1, <2>2, <2>4, Zenon
  <2>5. CASE sent # <<>> /\ got = <<got[1]>> /\ Kept(got[1], p)
    <3>1. got[1] = p
      BY <2>3, <2>5 DEF Kept
    <3>2. got = <<p>>
      BY <2>5, <3>1, Zenon
    <3> QED
      BY <2>1, <2>2, <2>5, <3>2, Zenon
  <2>6. CASE /\ sent = <<p, q>> /\ got = <<got[1], got[2]>> /\ Done /\ Kept(got[1], p)
    <3>1. sent # <<>>
      BY <2>6
    <3>2. got[1] = p /\ got[2] = q
      BY <2>3, <2>6, <3>1 DEF Kept, Done
    <3>3. got = <<p, q>>
      BY <2>6, <3>2, Zenon
    <3> QED
      BY <2>1, <2>6, <3>3, Zenon
  <2> QED
    BY <2>4, <2>5, <2>6, Streams, Zenon
<1> QED
  BY <1>1, Inductive, PTL

(* BufferLeftEmpty holds in every state: a reader takes all the bytes of a *)
(* packet, so that an answer starts with its own first byte.               *)
THEOREM BuffersLeftEmpty == Spec => []BufferLeftEmpty
<1>1. IInv => BufferLeftEmpty
  <2> SUFFICES ASSUME IInv, AllSolid PROVE buffer = <<>>
    BY DEF BufferLeftEmpty
  <2>1. sent # <<>> => Solid(sent[1])
    BY Streams
  <2>2. CASE Fresh \/ Begun \/ Sized
    BY <2>2 DEF Fresh, Begun, Sized
  <2>3. CASE Half
    BY <2>1, <2>3 DEF Half
  <2>4. CASE Done
    <3>1. sent # <<>>
      BY <2>4, StreamTyped DEF IInv, Done
    <3> QED
      BY <2>1, <2>4, <3>1 DEF Done
  <2> QED
    BY <2>2, <2>3, <2>4 DEF IInv
<1> QED
  BY <1>1, Inductive, PTL

(* FlattenSeq of none, one or two. *)
LEMMA FlattenFew ==
  ASSUME NEW s \in Seq(Bytes)
  PROVE  /\ Len(s) = 0 => FlattenSeq(s) = <<>>
         /\ Len(s) = 1 => FlattenSeq(s) = s[1]
         /\ Len(s) = 2 => FlattenSeq(s) = Cat(s[1], s[2])
<1>1. ASSUME Len(s) = 0 PROVE FlattenSeq(s) = <<>>
  BY <1>1, EmptySeq DEF FlattenSeq
<1>2. ASSUME Len(s) > 0
      PROVE  \E f : /\ f[1] = s[1] /\ FlattenSeq(s) = f[Len(s)]
                    /\ \A i \in 1..Len(s) - 1 : f[i + 1] = Cat(f[i], s[i + 1])
  <2>1. s \in Seq(Seq(Byte))
    BY DEF Bytes
  <2>2. \E f \in [1..Len(s) -> Seq(Byte)] :
          /\ f[1] = s[1] /\ FlattenSeq(s) = f[Len(s)]
          /\ \A i \in 1..Len(s) - 1 : f[i + 1] = f[i] \o s[i + 1]
    BY <1>2, <2>1, FlattenUnfolds, ZenonT(30)
  <2> QED
    BY <2>2, Zenon DEF Cat
<1>3. ASSUME Len(s) = 1 PROVE FlattenSeq(s) = s[1]
  BY <1>2, <1>3
<1>4. ASSUME Len(s) = 2 PROVE FlattenSeq(s) = Cat(s[1], s[2])
  <2>1. PICK f : /\ f[1] = s[1] /\ FlattenSeq(s) = f[2]
                 /\ \A i \in 1..1 : f[i + 1] = Cat(f[i], s[i + 1])
    BY <1>2, <1>4
  <2>2. f[1 + 1] = Cat(f[1], s[1 + 1])
    BY <2>1
  <2> QED
    BY <2>1, <2>2
<1> QED
  BY <1>1, <1>3, <1>4

(* The bytes of the packets that are not read yet.                         *)
Unread == [i \in 1..Len(sent) - Len(got) |-> ToBuffer(sent[Len(got) + i])]

(* They are those of both packets, of the second, or none.                 *)
LEMMA UnreadBytes ==
  ASSUME IInv
  PROVE  /\ sent # <<>> /\ got = <<>> => /\ FlattenSeq(Unread) = Cat(ToBuffer(sent[1]), Second)
                                         /\ Unread # <<>> /\ Head(Unread) = ToBuffer(sent[1])
         /\ Half => /\ FlattenSeq(Unread) = Second
                    /\ Unread # <<>> => /\ Head(Unread) = ToBuffer(sent[2])
                                        /\ sent[2] \in Replies(sent[1])
         /\ Fresh \/ Done => FlattenSeq(Unread) = <<>> /\ Unread = <<>>
<1> DEFINE n == Len(sent)
           g == Len(got)
           p == sent[1]
           q == sent[2]
<1>1. /\ n \in {0, 1, 2} /\ (sent # <<>> <=> n # 0) /\ (sent # <<>> => p \in Firsts)
      /\ (n = 1 => Second = <<>>) /\ (n = 2 => q \in Replies(p) /\ Second = ToBuffer(q))
      /\ (sent = <<>> => n = 0)
  <2>1. sent = <<>> => n = 0
    OBVIOUS
  <2> QED
    BY <2>1, StreamTyped DEF IInv
<1>2. /\ n # 0 => ToBuffer(p) \in Bytes
      /\ n = 2 => ToBuffer(q) \in Bytes
  <2>1. 0 \in Byte
    BY Widths
  <2> QED
    BY <1>1, <2>1, FirstRead, ReplyRead
<1>3. /\ got = <<>> => g = 0
      /\ Half => g = 1
      /\ Done => g = 2 /\ n = 2
  <2>1. \A x : Len(<<x>>) = 1
    BY Few
  <2>2. \A x, y : Len(<<x, y>>) = 2
    BY Few
  <2>3. got = <<>> => g = 0
    OBVIOUS
  <2>4. Half => g = 1
    BY <2>1, Zenon DEF Half
  <2>5. Done => g = 2 /\ n = 2
    BY <2>2, Zenon DEF Done
  <2> QED
    BY <2>3, <2>4, <2>5
<1>4. ASSUME NEW k \in {0, 1, 2}, n - g = k,
             \A i \in 1..k : ToBuffer(sent[g + i]) \in Bytes
      PROVE  /\ Unread \in Seq(Bytes) /\ Len(Unread) = k
             /\ \A i \in 1..k : Unread[i] = ToBuffer(sent[g + i])
             /\ k = 0 => Unread = <<>>
             /\ k # 0 => Unread # <<>> /\ Head(Unread) = ToBuffer(sent[g + 1])
  <2> HIDE DEF n, g
  <2>1. Unread = [i \in 1..k |-> ToBuffer(sent[g + i])]
    BY <1>4 DEF Unread, n, g
  <2>2. Unread \in [1..k -> Bytes] /\ k \in Nat
    BY <1>4, <2>1
  <2> DEFINE u == Unread
  <2>3. u \in Seq(Bytes) /\ Len(u) = k
    BY <2>2, FunctionSeq
  <2>4. \A i \in 1..k : u[i] = ToBuffer(sent[g + i])
    BY <2>1
  <2> HIDE DEF u
  <2>5. k = 0 => u = <<>>
    BY <2>3, EmptySeq
  <2>6. k # 0 => u # <<>> /\ Head(u) = ToBuffer(sent[g + 1])
    <3> SUFFICES ASSUME k # 0 PROVE u # <<>> /\ Head(u) = ToBuffer(sent[g + 1])
      OBVIOUS
    <3>1. 1 \in 1..k /\ u # <<>>
      BY <2>3
    <3>2. Head(u) = u[1]
      BY <2>3, <3>1
    <3> QED
      BY <2>4, <3>1, <3>2
  <2> QED
    BY <2>3, <2>4, <2>5, <2>6 DEF u
<1> HIDE DEF n, g
<1>5. ASSUME sent # <<>>, got = <<>>
      PROVE  /\ FlattenSeq(Unread) = Cat(ToBuffer(p), Second)
             /\ Unread # <<>> /\ Head(Unread) = ToBuffer(p)
  <2>1. g = 0 /\ n \in {1, 2}
    BY <1>1, <1>3, <1>5
  <2>2. n - g = n /\ \A i \in 1..n : (i = 1 \/ (i = 2 /\ n = 2)) /\ g + i = i
    BY <2>1
  <2>3. \A i \in 1..n : ToBuffer(sent[g + i]) \in Bytes
    BY <1>2, <2>1, <2>2
  <2>4. /\ Unread \in Seq(Bytes) /\ Len(Unread) = n /\ Unread # <<>>
        /\ Head(Unread) = ToBuffer(sent[g + 1])
        /\ \A i \in 1..n : Unread[i] = ToBuffer(sent[g + i])
    BY <1>1, <1>4, <2>1, <2>2, <2>3
  <2>5. Unread[1] = ToBuffer(p) /\ Head(Unread) = ToBuffer(p)
    BY <2>1, <2>4
  <2>6. CASE n = 1
    BY <1>1, <1>2, <2>4, <2>5, <2>6, FlattenFew, CatNothing
  <2>7. CASE n = 2
    <3>1. Unread[2] = ToBuffer(q)
      BY <2>1, <2>4, <2>7
    <3> QED
      BY <1>1, <2>4, <2>5, <2>7, <3>1, FlattenFew
  <2> QED
    BY <2>1, <2>4, <2>5, <2>6, <2>7
<1>6. ASSUME Half
      PROVE  /\ FlattenSeq(Unread) = Second
             /\ Unread # <<>> => Head(Unread) = ToBuffer(q) /\ q \in Replies(p)
  <2>1. g = 1 /\ n \in {1, 2}
    BY <1>1, <1>3, <1>6 DEF Half
  <2>2. CASE n = 1
    <3>1. n - g = 0 /\ 1..0 = {}
      BY <2>1, <2>2
    <3>2. Unread \in Seq(Bytes) /\ Len(Unread) = 0 /\ Unread = <<>>
      BY <1>4, <3>1
    <3> QED
      BY <1>1, <2>2, <3>2, FlattenFew
  <2>3. CASE n = 2
    <3>1. n - g = 1 /\ g + 1 = 2 /\ 1..1 = {1}
      BY <2>1, <2>3
    <3>2. /\ Unread \in Seq(Bytes) /\ Len(Unread) = 1 /\ Head(Unread) = ToBuffer(q)
          /\ Unread[1] = ToBuffer(q)
      BY <1>2, <1>4, <2>3, <3>1
    <3> QED
      BY <1>1, <2>3, <3>2, FlattenFew
  <2> QED
    BY <2>1, <2>2, <2>3
<1>7. ASSUME Fresh \/ Done
      PROVE  FlattenSeq(Unread) = <<>> /\ Unread = <<>>
  <2>1. n - g = 0 /\ 1..0 = {}
    BY <1>1, <1>3, <1>7 DEF Fresh
  <2>2. Unread \in Seq(Bytes) /\ Len(Unread) = 0 /\ Unread = <<>>
    BY <1>4, <2>1
  <2> QED
    BY <2>2, FlattenFew
<1> QED
  BY <1>5, <1>6, <1>7

(* CutAtPackets holds in every state: the sizes that are waited for are    *)
(* those of the packets, so that the stream stays cut where they begin.    *)
THEOREM StreamCutAtPackets == Spec => []CutAtPackets
<1>1. IInv => CutAtPackets
  <2> SUFFICES ASSUME IInv PROVE CutAtPackets
    OBVIOUS
  <2> DEFINE bytes == FlattenSeq(Unread)
             begun == IF await.kind = "handshake" THEN Word ELSE 0
  <2>1. ASSUME /\ wire = SubSeq(bytes, begun + 1, Len(bytes))
               /\ Unread # <<>> /\ await.kind # "size" => await.bytes = Len(Head(Unread)) - begun
        PROVE  CutAtPackets
    BY <2>1 DEF CutAtPackets, Unread
  <2> HIDE DEF bytes
  <2>2. ASSUME await.kind # "handshake", bytes \in Bytes, wire = bytes,
               Unread # <<>> /\ await.kind # "size" =>
                 await.bytes = Len(Head(Unread)) /\ Len(Head(Unread)) \in Nat
        PROVE  CutAtPackets
    <3>1. begun = 0
      BY <2>2
    <3>2. SubSeq(bytes, 1, Len(bytes)) = bytes
      <4>1. Len(bytes) \in Nat /\ <<>> \in Bytes /\ Cat(bytes, <<>>) = bytes
        BY <2>2, LenProperties, CatNothing DEF Bytes
      <4> QED
        BY <2>2, <4>1, Parts
    <3>3. begun + 1 = 1 /\ \A n \in Nat : n - begun = n
      BY <3>1
    <3> HIDE DEF begun
    <3> QED
      BY <2>1, <2>2, <3>2, <3>3
  <2>3. Second \in Bytes /\ <<>> \in Bytes /\ 0 \in Byte
    BY StreamTyped, Widths DEF IInv, Bytes
  <2>4. CASE Fresh
    <3>1. bytes = <<>> /\ Unread = <<>>
      BY <2>4, UnreadBytes DEF bytes
    <3> QED
      BY <2>2, <2>3, <2>4, <3>1 DEF Fresh, Await
  <2>5. CASE Begun
    <3>1. sent # <<>> /\ got = <<>> /\ sent[1] \in Firsts
      BY <2>5, StreamTyped DEF IInv, Begun
    <3>2. /\ bytes = Cat(ToBuffer(sent[1]), Second) /\ Head(Unread) = ToBuffer(sent[1])
          /\ ToBuffer(sent[1]) \in Bytes
      BY <2>3, <3>1, UnreadBytes, FirstRead DEF bytes
    <3>3. bytes \in Bytes /\ wire = bytes /\ await.kind # "handshake"
      BY <2>3, <2>5, <3>2, Parts DEF Begun, Await
    <3>4. ASSUME await.kind # "size"
          PROVE  await.bytes = Len(Head(Unread)) /\ Len(Head(Unread)) \in Nat
      <4>1. sent[1].kind # "handshake" /\ await = Await("command", 1)
        BY <2>5, <3>4 DEF Begun, Await
      <4>2. sent[1] \in Coded("command")
        BY <3>1, <4>1, FirstKinds
      <4>3. "command" \in Brief
        BY DEF Brief
      <4>4. Len(ToBuffer(sent[1])) = 1
        BY <4>2, <4>3, CodeWritten
      <4> QED
        BY <3>2, <4>1, <4>4 DEF Await
    <3> QED
      BY <2>2, <3>3, <3>4
  <2>6. CASE Sized
    <3>1. sent # <<>> /\ got = <<>> /\ sent[1] \in Handshakes
      BY <2>6, StreamTyped, FirstKinds DEF IInv, Sized
    <3> DEFINE p == sent[1]
               word == WriteUint32(HandshakeSize(p))
               behind == Cat(Rest(p), Second)
    <3>2. /\ ToBuffer(p) = Cat(word, Rest(p)) /\ word \in Bytes /\ Len(word) = Word
          /\ Rest(p) \in Bytes /\ Len(Rest(p)) = HandshakeSize(p) /\ HandshakeSize(p) \in Nat
      BY <3>1, HandshakeWritten, SizesFit
    <3>3. Head(Unread) = ToBuffer(p) /\ bytes = Cat(ToBuffer(p), Second)
      BY <3>1, UnreadBytes DEF bytes
    <3> HIDE DEF word
    <3>4. bytes = Cat(word, behind) /\ behind \in Bytes
      BY <2>3, <3>2, <3>3, CatAssociative, Parts
    <3>5. begun = Word /\ wire = behind /\ await.bytes = HandshakeSize(p)
      BY <2>6 DEF Sized, Await
    <3> HIDE DEF behind, begun
    <3>6. wire = SubSeq(bytes, begun + 1, Len(bytes))
      BY <3>2, <3>4, <3>5, Parts
    <3>7. Len(Head(Unread)) = Word + HandshakeSize(p)
      <4>1. Len(Cat(word, Rest(p))) = Len(word) + Len(Rest(p))
        BY <3>2, Parts
      <4> QED
        BY <3>2, <3>3, <4>1, Zenon
    <3>8. await.bytes = Len(Head(Unread)) - begun
      BY <3>2, <3>5, <3>7, Widths
    <3> QED
      BY <2>1, <3>6, <3>8
  <2>7. CASE Half
    <3>1. sent[1] \in Firsts /\ await = Then(sent[1]) /\ wire = Second
      BY <2>7, StreamTyped DEF IInv, Half
    <3>2. bytes = Second /\ bytes \in Bytes
      BY <2>3, <2>7, UnreadBytes DEF bytes
    <3>3. await.kind # "handshake"
      BY <3>1, AwaitedBetween DEF Await
    <3>4. ASSUME Unread # <<>>
          PROVE  await.bytes = Len(Head(Unread)) /\ Len(Head(Unread)) \in Nat
      <4>1. Head(Unread) = ToBuffer(sent[2]) /\ sent[2] \in Replies(sent[1])
        BY <2>7, <3>4, UnreadBytes
      <4>2. /\ Then(sent[1]) = Await(sent[2].kind, Len(ToBuffer(sent[2])))
            /\ Len(ToBuffer(sent[2])) \in Nat
        BY <3>1, <4>1, ReplyRead
      <4> QED
        BY <3>1, <4>1, <4>2 DEF Await
    <3> QED
      BY <2>2, <3>1, <3>2, <3>3, <3>4
  <2>8. CASE Done
    <3>1. bytes = <<>> /\ Unread = <<>> /\ wire = <<>>
      BY <2>8, UnreadBytes DEF bytes, Done
    <3> QED
      BY <2>2, <2>3, <2>8, <3>1 DEF Done, Nothing, Await
  <2> QED
    BY <2>4, <2>5, <2>6, <2>7, <2>8 DEF IInv
<1> QED
  BY <1>1, Inductive, PTL

============================================================================
