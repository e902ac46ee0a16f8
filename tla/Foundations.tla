----------------------------- MODULE Foundations -----------------------------
(***************************************************************************)
(* What the proofs of several modules rest on.                             *)
(*                                                                         *)
(* Induction over the naturals has a set in the place of a predicate, and  *)
(* definition by recursion a function in the place of an operator: stated  *)
(* so, both can be applied where a theorem about every operator cannot,    *)
(* for the set or the function is given by a definition.                   *)
(***************************************************************************)
EXTENDS Containers, Powers, SequenceTheorems, WellFoundedInduction, TLAPS

---------------------------------------------------------------------------
(* Induction and recursion. *)

(* A set of naturals that has elements has a least one.                    *)
LEMMA LeastElement ==
  ASSUME NEW T, T \subseteq Nat, T # {}
  PROVE  \E x \in T : \A y \in T : x <= y
<1>1. PICK x \in T : \A y \in T : ~ (<<y, x>> \in OpToRel(<, Nat))
  BY NatLessThanWellFounded, WFMin
<1>2. \A y \in T : ~ (y < x)
  BY <1>1 DEF OpToRel
<1> QED
  BY <1>2

(* A set that contains 0 and with a number the next contains them all. *)
THEOREM SetInduction ==
  ASSUME NEW S, 0 \in S, \A n \in Nat : n \in S => n + 1 \in S
  PROVE  \A n \in Nat : n \in S
<1> SUFFICES ASSUME Nat \ S # {} PROVE FALSE
  OBVIOUS
<1>1. PICK x \in Nat \ S : \A y \in Nat \ S : x <= y
  BY LeastElement
<1>2. x # 0 /\ x - 1 \in Nat /\ x - 1 \in S
  BY <1>1
<1> QED
  BY <1>1, <1>2

(* A first value and a function from each value to the next determine a    *)
(* sequence of values.                                                     *)
Iterates(g, V, first, step) ==
  /\ g \in [Nat -> V]
  /\ g[0] = first /\ \A n \in Nat : g[n + 1] = step[<<n, g[n]>>]

(* There is such a sequence, whatever the first value and the function     *)
(* are.                                                                    *)
THEOREM Recursion ==
  ASSUME NEW V, NEW first \in V, NEW step \in [Nat \X V -> V]
  PROVE  \E g : Iterates(g, V, first, step)
<1> DEFINE Begins(n) ==
      {h \in [0..n -> V] : h[0] = first /\ \A i \in 0..n - 1 : h[i + 1] = step[<<i, h[i]>>]}
<1>0. \A n \in Nat : \A h \in Begins(n) :
        /\ h \in [0..n -> V] /\ h[0] = first
        /\ \A i \in 0..n - 1 : h[i + 1] = step[<<i, h[i]>>]
  OBVIOUS
<1>1. \A n \in Nat : Begins(n) # {}
  <2> DEFINE S == {n \in Nat : Begins(n) # {}}
  <2>1. 0 \in S
    <3>1. [i \in 0..0 |-> first] \in Begins(0)
      OBVIOUS
    <3> QED
      BY <3>1
  <2>2. ASSUME NEW n \in Nat, n \in S
        PROVE  n + 1 \in S
    <3>1. PICK h \in [0..n -> V] : h[0] = first /\ \A i \in 0..n - 1 : h[i + 1] = step[<<i, h[i]>>]
      BY <2>2
    <3> DEFINE k == [i \in 0..n + 1 |-> IF i = n + 1 THEN step[<<n, h[n]>>] ELSE h[i]]
    <3>2. step[<<n, h[n]>>] \in V
      OBVIOUS
    <3>3. k \in [0..n + 1 -> V]
      BY <3>2
    <3>4. k[0] = first
      BY <3>1
    <3>5. \A i \in 0..n : k[i] = h[i]
      OBVIOUS
    <3>6. k[n + 1] = step[<<n, h[n]>>]
      OBVIOUS
    <3> HIDE DEF k
    <3>7. ASSUME NEW i \in 0..(n + 1) - 1
          PROVE  k[i + 1] = step[<<i, k[i]>>]
      <4>1. CASE i = n
        BY <4>1, <3>5, <3>6
      <4>2. CASE i # n
        <5>1. i \in 0..n - 1 /\ i \in 0..n /\ i + 1 \in 0..n
          BY <4>2
        <5> QED
          BY <5>1, <3>1, <3>5
      <4> QED
        BY <4>1, <4>2
    <3>8. k \in Begins(n + 1)
      BY <3>3, <3>4, <3>7
    <3> HIDE DEF Begins
    <3> QED
      BY <3>8
  <2> HIDE DEF S
  <2>3. \A n \in Nat : n \in S
    BY <2>1, <2>2, SetInduction
  <2> QED
    BY <2>3 DEF S
<1> HIDE DEF Begins
<1>2. \A i \in Nat : \A n, m \in Nat : \A h \in Begins(n), k \in Begins(m) :
        i <= n /\ i <= m => h[i] = k[i]
  <2> DEFINE Agree(i) == \A n, m \in Nat : \A h \in Begins(n), k \in Begins(m) :
                           i <= n /\ i <= m => h[i] = k[i]
             S == {i \in Nat : Agree(i)}
  <2>1. Agree(0)
    BY <1>0
  <2>2. ASSUME NEW i \in Nat, Agree(i)
        PROVE  Agree(i + 1)
    <3> SUFFICES ASSUME NEW n \in Nat, NEW m \in Nat, NEW h \in Begins(n), NEW k \in Begins(m),
                        i + 1 <= n, i + 1 <= m
                 PROVE  h[i + 1] = k[i + 1]
      OBVIOUS
    <3>1. i <= n /\ i <= m /\ i \in 0..n - 1 /\ i \in 0..m - 1
      OBVIOUS
    <3>2. h[i] = k[i]
      BY <2>2, <3>1
    <3>3. h[i + 1] = step[<<i, h[i]>>] /\ k[i + 1] = step[<<i, k[i]>>]
      BY <1>0, <3>1
    <3> QED
      BY <3>2, <3>3
  <2> HIDE DEF Agree
  <2>3. 0 \in S /\ \A i \in Nat : i \in S => i + 1 \in S
    BY <2>1, <2>2
  <2> HIDE DEF S
  <2>4. \A i \in Nat : i \in S
    BY <2>3, SetInduction
  <2> USE DEF S
  <2> QED
    BY <2>4 DEF Agree
<1> DEFINE pick == [n \in Nat |-> CHOOSE h : h \in Begins(n)]
           g == [n \in Nat |-> pick[n][n]]
<1>3. \A n \in Nat : pick[n] \in Begins(n)
  BY <1>1
<1> HIDE DEF pick
<1>4. g \in [Nat -> V] /\ g[0] = first
  <2>1. \A n \in Nat : pick[n] \in [0..n -> V] /\ pick[n][0] = first /\ n \in 0..n
    BY <1>0, <1>3
  <2> QED
    BY <2>1
<1>5. ASSUME NEW n \in Nat
      PROVE  g[n + 1] = step[<<n, g[n]>>]
  <2>1. g[n + 1] = pick[n + 1][n + 1] /\ g[n] = pick[n][n]
    OBVIOUS
  <2>2. pick[n] \in Begins(n) /\ pick[n + 1] \in Begins(n + 1) /\ n \in 0..(n + 1) - 1
    BY <1>3
  <2>3. pick[n + 1][n + 1] = step[<<n, pick[n + 1][n]>>]
    BY <1>0, <2>2
  <2>4. n <= n + 1 /\ n <= n /\ n + 1 \in Nat
    OBVIOUS
  <2>5. pick[n + 1][n] = pick[n][n]
    BY <1>2, <2>2, <2>4
  <2> QED
    BY <2>1, <2>3, <2>5
<1> HIDE DEF g
<1>6. Iterates(g, V, first, step)
  BY <1>4, <1>5 DEF Iterates
<1> QED
  BY <1>6

(* The same from the end of a range to its beginning. *)
THEOREM InductionDown ==
  ASSUME NEW N \in Nat, NEW S, N + 1 \in S, \A i \in 1..N : i + 1 \in S => i \in S
  PROVE  \A i \in 1..N + 1 : i \in S
<1> DEFINE T == {n \in Nat : n <= N => N + 1 - n \in S}
<1>1. 0 \in T
  OBVIOUS
<1>2. ASSUME NEW n \in Nat, n \in T
      PROVE  n + 1 \in T
  <2> SUFFICES ASSUME n + 1 <= N PROVE N + 1 - (n + 1) \in S
    OBVIOUS
  <2>1. N - n \in 1..N /\ (N - n) + 1 = N + 1 - n /\ N + 1 - (n + 1) = N - n
    OBVIOUS
  <2> QED
    BY <1>2, <2>1
<1> HIDE DEF T
<1>3. \A n \in Nat : n \in T
  BY <1>1, <1>2, SetInduction
<1>4. ASSUME NEW i \in 1..N + 1
      PROVE  i \in S
  <2>1. N + 1 - i \in Nat /\ N + 1 - (N + 1 - i) = i /\ N + 1 - i <= N
    OBVIOUS
  <2> QED
    BY <1>3, <2>1 DEF T
<1> QED
  BY <1>4

(* The same for recursion from the end of a range to its beginning, which  *)
(* is how the set operations of Containers go through a set.               *)
IteratesDown(g, N, V, last, step) ==
  /\ g \in [1..N + 1 -> V]
  /\ g[N + 1] = last /\ \A i \in 1..N : g[i] = step[<<i, g[i + 1]>>]

(* There is such a sequence too.                                           *)
THEOREM RecursionDown ==
  ASSUME NEW N \in Nat, NEW V, NEW last \in V, NEW step \in [(1..N) \X V -> V]
  PROVE  \E g : IteratesDown(g, N, V, last, step)
<1> DEFINE next == [p \in Nat \X V |-> IF p[1] < N THEN step[<<N - p[1], p[2]>>] ELSE last]
<1>1. next \in [Nat \X V -> V]
  <2> SUFFICES ASSUME NEW p \in Nat \X V, p[1] < N
               PROVE  step[<<N - p[1], p[2]>>] \in V
    OBVIOUS
  <2>1. N - p[1] \in 1..N /\ p[2] \in V
    OBVIOUS
  <2> QED
    BY <2>1
<1>2. \A n \in Nat, v \in V : n < N => next[<<n, v>>] = step[<<N - n, v>>]
  OBVIOUS
<1> HIDE DEF next
<1>3. PICK h : Iterates(h, V, last, next)
  BY <1>1, Recursion
<1> USE <1>3 DEF Iterates
<1> DEFINE g == [i \in 1..N + 1 |-> h[N + 1 - i]]
<1>4. g \in [1..N + 1 -> V]
  OBVIOUS
<1>5. g[N + 1] = last
  BY <1>3
<1>6. ASSUME NEW i \in 1..N
      PROVE  g[i] = step[<<i, g[i + 1]>>]
  <2>1. /\ N - i \in Nat /\ (N - i) + 1 = N + 1 - i /\ N - i < N /\ N - (N - i) = i
        /\ i \in 1..N + 1 /\ i + 1 \in 1..N + 1 /\ N + 1 - (i + 1) = N - i
    OBVIOUS
  <2>2. g[i] = h[N + 1 - i] /\ g[i + 1] = h[N - i]
    BY <2>1
  <2>3. h[N + 1 - i] = next[<<N - i, h[N - i]>>]
    BY <1>3, <2>1
  <2> QED
    BY <1>2, <2>1, <2>2, <2>3
<1> HIDE DEF g
<1>7. IteratesDown(g, N, V, last, step)
  BY <1>4, <1>5, <1>6 DEF IteratesDown
<1> QED
  BY <1>7

---------------------------------------------------------------------------
(* Division and powers. *)

(* Quotient and remainder are what they are. *)
LEMMA Divide ==
  ASSUME NEW n \in Nat, NEW d \in Nat \ {0}
  PROVE  n \div d \in Nat /\ n % d \in 0..d - 1 /\ n = ((n \div d) * d) + (n % d)
  OBVIOUS

(* And nothing else is: n is q times d and r in one way only.              *)
LEMMA DivideUnique ==
  ASSUME NEW d \in Nat \ {0}, NEW q \in Nat, NEW r \in 0..d - 1
  PROVE  ((q * d) + r) \div d = q /\ ((q * d) + r) % d = r
<1>1. \A a, b \in Nat : a < b => (a * d) + d <= b * d
  OBVIOUS
<1>2. \A p \in Nat, s \in 0..d - 1 : (q * d) + r = (p * d) + s => q = p
  BY <1>1
<1> DEFINE n == (q * d) + r
<1>3. n \in Nat
  <2>1. q * d \in Nat
    OBVIOUS
  <2> QED
    BY <2>1
<1> HIDE DEF n
<1>4. n \div d \in Nat /\ n % d \in 0..d - 1 /\ n = ((n \div d) * d) + (n % d)
  BY <1>3, Divide
<1>5. q = n \div d
  BY <1>2, <1>4 DEF n
<1> QED
  BY <1>4, <1>5 DEF n

(* Power is what its recursion says: the widths of the integers that       *)
(* Sha256 and Packets compute with are naturals, for every base and        *)
(* exponent.                                                               *)
THEOREM PowerUnfolds ==
  ASSUME NEW base \in Nat
  PROVE  /\ Power(base, 0) = 1
         /\ \A n \in Nat : Power(base, n) \in Nat /\ Power(base, n + 1) = base * Power(base, n)
<1> DEFINE Is(f) == f = [n \in Nat |-> IF n = 0 THEN 1 ELSE base * f[n - 1]]
           step == [p \in Nat \X Nat |-> base * p[2]]
           power == CHOOSE f : Is(f)
<1>1. \E f : Is(f)
  <2>1. step \in [Nat \X Nat -> Nat]
    OBVIOUS
  <2>2. \A n, v \in Nat : step[<<n, v>>] = base * v
    OBVIOUS
  <2> HIDE DEF step
  <2>3. PICK g : Iterates(g, Nat, 1, step)
    BY <2>1, Recursion
  <2>4. g \in [Nat -> Nat] /\ g[0] = 1 /\ \A n \in Nat : g[n + 1] = base * g[n]
    BY <2>2, <2>3 DEF Iterates
  <2>5. \A n \in Nat : n # 0 => g[n] = base * g[n - 1]
    <3> SUFFICES ASSUME NEW n \in Nat, n # 0 PROVE g[n] = base * g[n - 1]
      OBVIOUS
    <3>1. n - 1 \in Nat /\ (n - 1) + 1 = n
      OBVIOUS
    <3> QED
      BY <2>4, <3>1
  <2>6. Is(g)
    BY <2>4, <2>5
  <2> QED
    BY <2>6
<1>2. Is(power)
  <2> HIDE DEF Is
  <2> QED
    BY <1>1
<1>3. \A n : Power(base, n) = power[n]
  BY DEF Power
<1> HIDE DEF power
<1>4. power[0] = 1 /\ \A n \in Nat : n # 0 => power[n] = base * power[n - 1]
  BY <1>2
<1> HIDE DEF Is
<1>5. \A n \in Nat : power[n + 1] = base * power[n]
  <2> SUFFICES ASSUME NEW n \in Nat PROVE power[n + 1] = base * power[n]
    OBVIOUS
  <2>1. n + 1 \in Nat /\ n + 1 # 0 /\ (n + 1) - 1 = n
    OBVIOUS
  <2> QED
    BY <1>4, <2>1
<1>6. \A n \in Nat : power[n] \in Nat
  <2> DEFINE S == {n \in Nat : power[n] \in Nat}
  <2>1. 0 \in S /\ \A n \in Nat : n \in S => n + 1 \in S
    BY <1>4, <1>5
  <2> HIDE DEF S
  <2>2. \A n \in Nat : n \in S
    BY <2>1, SetInduction
  <2> QED
    BY <2>2 DEF S
<1> QED
  BY <1>3, <1>4, <1>5, <1>6

(* Powers grow with the exponent. *)
LEMMA PowerGrows ==
  ASSUME NEW base \in Nat \ {0}, NEW n \in Nat, NEW m \in Nat, n <= m
  PROVE  /\ Power(base, n) \in Nat \ {0} /\ Power(base, m) \in Nat \ {0}
         /\ Power(base, n) <= Power(base, m)
<1>1. /\ Power(base, 0) = 1
      /\ \A k \in Nat : Power(base, k) \in Nat /\ Power(base, k + 1) = base * Power(base, k)
  BY PowerUnfolds
<1> DEFINE S == {k \in Nat : Power(base, k) # 0}
           T == {k \in Nat : Power(base, n) <= Power(base, n + k)}
<1>2. \A v \in Nat : v # 0 => base * v # 0
  OBVIOUS
<1>3. \A v \in Nat : v <= base * v
  OBVIOUS
<1>4. 0 \in S /\ \A k \in Nat : k \in S => k + 1 \in S
  BY <1>1, <1>2
<1>5. 0 \in T /\ \A k \in Nat : k \in T => k + 1 \in T
  <2>1. 0 \in T
    BY <1>1
  <2>2. ASSUME NEW k \in Nat, k \in T
        PROVE  k + 1 \in T
    <3>1. n + k \in Nat /\ n + (k + 1) = (n + k) + 1
      OBVIOUS
    <3>2. Power(base, n + k) <= Power(base, (n + k) + 1) /\ Power(base, n + k) \in Nat
          /\ Power(base, (n + k) + 1) \in Nat /\ Power(base, n) \in Nat
      BY <1>1, <1>3, <3>1
    <3> QED
      BY <2>2, <3>1, <3>2
  <2> QED
    BY <2>1, <2>2
<1> HIDE DEF S, T
<1>6. n \in S /\ m \in S
  BY <1>4, SetInduction
<1>7. m - n \in T
  <2>1. m - n \in Nat
    OBVIOUS
  <2> QED
    BY <1>5, <2>1, SetInduction
<1>8. n + (m - n) = m
  OBVIOUS
<1> QED
  BY <1>1, <1>6, <1>7, <1>8 DEF S, T

---------------------------------------------------------------------------
(* Sequences. *)

(* A function on 1..n is a sequence. *)
LEMMA FunctionSeq ==
  ASSUME NEW S, NEW n \in Nat, NEW f \in [1..n -> S]
  PROVE  f \in Seq(S) /\ Len(f) = n
<1>1. f \in Seq(S)
  BY SeqDef
<1>2. Len(f) \in Nat /\ DOMAIN f = 1..Len(f)
  BY <1>1, LenProperties
<1> QED
  BY <1>1, <1>2

(* A sequence with an element behind it, in front of it, or without one. *)
LEMMA Appended ==
  ASSUME NEW H, NEW s \in Seq(H), NEW x \in H
  PROVE  /\ Append(s, x) \in Seq(H)
         /\ Len(Append(s, x)) = Len(s) + 1
         /\ \A k \in 1..Len(s) : Append(s, x)[k] = s[k]
         /\ Append(s, x)[Len(s) + 1] = x
  OBVIOUS

(* In front of it, which is where the leftmost node of a tree goes.        *)
LEMMA Prepended ==
  ASSUME NEW V, NEW s \in Seq(V), NEW x \in V
  PROVE  /\ <<x>> \o s \in Seq(V) /\ Len(<<x>> \o s) = Len(s) + 1
         /\ DOMAIN (<<x>> \o s) = 1..Len(s) + 1
         /\ (<<x>> \o s)[1] = x
         /\ \A k \in 1..Len(s) : (<<x>> \o s)[k + 1] = s[k]
         /\ \A k \in 2..Len(s) + 1 : (<<x>> \o s)[k] = s[k - 1]
<1>1. /\ <<x>> \o s \in Seq(V) /\ Len(<<x>> \o s) = Len(s) + 1
      /\ (<<x>> \o s)[1] = x
      /\ \A k \in 1..Len(s) : (<<x>> \o s)[k + 1] = s[k]
  OBVIOUS
<1> DEFINE t == <<x>> \o s
<1>2. DOMAIN t = 1..Len(t)
  BY <1>1, LenProperties
<1> HIDE DEF t
<1>3. \A k \in 2..Len(s) + 1 : k - 1 \in 1..Len(s) /\ (k - 1) + 1 = k
  BY LenProperties
<1>4. \A k \in 2..Len(s) + 1 : t[k] = s[k - 1]
  <2> SUFFICES ASSUME NEW k \in 2..Len(s) + 1 PROVE t[k] = s[k - 1]
    OBVIOUS
  <2>1. \A l \in 1..Len(s) : t[l + 1] = s[l]
    BY <1>1 DEF t
  <2>2. t[(k - 1) + 1] = s[k - 1]
    BY <1>3, <2>1
  <2> QED
    BY <1>3, <2>2
<1> QED
  BY <1>1, <1>2, <1>4 DEF t

(* Without one: what was behind it moves up.                               *)
LEMMA Removed ==
  ASSUME NEW V, NEW s \in Seq(V), NEW i \in 1..Len(s)
  PROVE  /\ RemoveAt(s, i) \in Seq(V)
         /\ Len(RemoveAt(s, i)) = Len(s) - 1
         /\ \A j \in 1..i - 1 : RemoveAt(s, i)[j] = s[j]
         /\ \A j \in i..Len(s) - 1 : RemoveAt(s, i)[j] = s[j + 1]
<1> DEFINE a == SubSeq(s, 1, i - 1)
           b == SubSeq(s, i + 1, Len(s))
<1>1. a \in Seq(V) /\ Len(a) = i - 1 /\ \A j \in 1..i - 1 : a[j] = s[j]
  OBVIOUS
<1>2. b \in Seq(V) /\ Len(b) = Len(s) - i /\ \A j \in 1..Len(s) - i : b[j] = s[i + j]
  OBVIOUS
<1>3. RemoveAt(s, i) = a \o b
  BY DEF RemoveAt
<1> HIDE DEF a, b
<1>4. Len(s) \in Nat /\ (i - 1) + (Len(s) - i) = Len(s) - 1
  OBVIOUS
<1>5. /\ a \o b \in Seq(V) /\ Len(a \o b) = Len(a) + Len(b)
      /\ \A j \in 1..Len(a) + Len(b) : (a \o b)[j] = IF j <= Len(a) THEN a[j] ELSE b[j - Len(a)]
  BY <1>1, <1>2, ConcatProperties
<1>6. ASSUME NEW j \in 1..i - 1
      PROVE  (a \o b)[j] = s[j]
  <2>1. j \in 1..Len(a) + Len(b) /\ j <= Len(a)
    BY <1>1, <1>2, <1>4
  <2> QED
    BY <1>1, <1>5, <2>1
<1>7. ASSUME NEW j \in i..Len(s) - 1
      PROVE  (a \o b)[j] = s[j + 1]
  <2>1. j \in 1..Len(a) + Len(b) /\ ~ (j <= Len(a)) /\ j - Len(a) \in 1..Len(s) - i
        /\ i + (j - Len(a)) = j + 1
    BY <1>1, <1>2, <1>4
  <2> QED
    BY <1>2, <1>5, <2>1
<1>8. Len(a \o b) = Len(s) - 1
  BY <1>1, <1>2, <1>4, <1>5
<1> QED
  BY <1>3, <1>5, <1>6, <1>7, <1>8

---------------------------------------------------------------------------
(* The set operations of Containers. *)

(* Intersection in terms of the intersections of what is left of the two   *)
(* sets, which are typed.                                                  *)
IntersectionTable(rest, H, a, b) ==
  /\ rest \in [1..Len(a) + 1 -> [1..Len(b) + 1 -> Seq(H)]]
  /\ Intersection(a, b) = rest[1][1]
  /\ \A i \in 1..Len(a) + 1, j \in 1..Len(b) + 1 :
       i > Len(a) \/ j > Len(b) => rest[i][j] = <<>>
  /\ \A i \in 1..Len(a), j \in 1..Len(b) :
       /\ a[i] # b[j] => rest[i][j] = rest[i + 1][j]
       /\ a[i] = b[j] => rest[i][j] = Append(rest[i + 1][j + 1], a[i])

(* There is such a table, so a proof may follow the recursion of           *)
(* Intersection.                                                           *)
LEMMA IntersectionUnfolds ==
  ASSUME NEW H, NEW a \in Seq(H), NEW b \in Seq(H)
  PROVE  \E rest : IntersectionTable(rest, H, a, b)
<1> DEFINE Is == 1..Len(a) + 1
           Js == 1..Len(b) + 1
           Row == [Js -> Seq(H)]
           Entry(r, i, j) == IF i > Len(a) \/ j > Len(b) THEN <<>>
                             ELSE IF Less(a[i], b[j]) THEN r[i + 1][j]
                             ELSE Append(r[i + 1][j + 1], a[i])
           R(r) == r = [i \in Is |-> [j \in Js |-> Entry(r, i, j)]]
           none == [j \in Js |-> <<>>]
           up(i, row) == [j \in Js |-> IF j > Len(b) THEN <<>>
                                       ELSE IF Less(a[i], b[j]) THEN row[j]
                                       ELSE Append(row[j + 1], a[i])]
           step == [p \in (1..Len(a)) \X Row |-> up(p[1], p[2])]
<1>1. Len(a) \in Nat /\ Len(b) \in Nat /\ \A i \in 1..Len(a) : a[i] \in H
  OBVIOUS
<1>2. Intersection(a, b) = (CHOOSE r : R(r))[1][1]
  BY DEF Intersection
<1>3. none \in Row
  OBVIOUS
<1>4. ASSUME NEW i \in 1..Len(a), NEW row \in Row
      PROVE  up(i, row) \in Row
  <2>1. a[i] \in H /\ \A j \in 1..Len(b) : j + 1 \in Js
    BY <1>1
  <2>2. \A j \in 1..Len(b) : row[j] \in Seq(H) /\ row[j + 1] \in Seq(H)
    <3>1. \A j \in 1..Len(b) : j \in Js
      BY <1>1
    <3>2. \A j \in Js : row[j] \in Seq(H)
      OBVIOUS
    <3> QED
      BY <2>1, <3>1, <3>2
  <2>3. \A s \in Seq(H) : Append(s, a[i]) \in Seq(H)
    BY <2>1
  <2>4. \A j \in Js : j > Len(b) \/ j \in 1..Len(b)
    BY <1>1
  <2> QED
    BY <2>2, <2>3, <2>4, EmptySeq
<1> HIDE DEF up
<1>5. step \in [(1..Len(a)) \X Row -> Row]
  BY <1>4
<1>6. PICK g : IteratesDown(g, Len(a), Row, none, step)
  <2> HIDE DEF Row, step, none
  <2> QED
    BY <1>1, <1>3, <1>5, RecursionDown
<1>7. /\ g \in [Is -> Row] /\ g[Len(a) + 1] = none
      /\ \A i \in 1..Len(a) : g[i] = up(i, g[i + 1])
  <2>1. g \in [Is -> Row] /\ g[Len(a) + 1] = none /\ \A i \in 1..Len(a) : g[i] = step[<<i, g[i + 1]>>]
    BY <1>6 DEF IteratesDown
  <2>2. \A i \in 1..Len(a) : g[i + 1] \in Row
    <3> HIDE DEF Row
    <3> QED
      BY <1>1, <2>1
  <2>3. \A i \in 1..Len(a), row \in Row : step[<<i, row>>] = up(i, row)
    OBVIOUS
  <2> HIDE DEF step, Row
  <2> QED
    BY <2>1, <2>2, <2>3
<1>8. R(g)
  <2>1. ASSUME NEW i \in Is
        PROVE  g[i] = [j \in Js |-> Entry(g, i, j)]
    <3>1. CASE i = Len(a) + 1
      BY <1>1, <1>7, <3>1
    <3>2. CASE i \in 1..Len(a)
      <4>1. g[i] = up(i, g[i + 1])
        BY <1>7, <3>2
      <4>2. up(i, g[i + 1]) = [j \in Js |-> Entry(g, i, j)]
        BY <1>1, <3>2 DEF up
      <4> QED
        BY <4>1, <4>2
    <3> QED
      BY <1>1, <3>1, <3>2
  <2> HIDE DEF Entry, Row
  <2> QED
    BY <1>7, <2>1
<1> DEFINE rest == CHOOSE r : R(r)
<1>9. R(rest)
  <2> HIDE DEF R
  <2> QED
    BY <1>8
<1> HIDE DEF rest
<1>10. \A i \in Is : rest[i] = [j \in Js |-> Entry(rest, i, j)]
  <2> HIDE DEF Entry, Is
  <2> QED
    BY <1>9
<1>11. \A i \in Is : rest[i] \in Row
  <2> DEFINE S == {i \in Is : rest[i] \in Row}
  <2> HIDE DEF rest
  <2>1. Len(a) + 1 \in S
    <3>2. Len(a) + 1 \in Is
      BY <1>1
    <3>1. rest[Len(a) + 1] = none
      <4>1. rest[Len(a) + 1] = [j \in Js |-> Entry(rest, Len(a) + 1, j)]
        BY <1>10, <3>2
      <4>2. \A j \in Js : Entry(rest, Len(a) + 1, j) = <<>>
        BY <1>1
      <4> HIDE DEF Entry
      <4> QED
        BY <4>1, <4>2
    <3> HIDE DEF Row, none, Is
    <3> QED
      BY <1>3, <3>1, <3>2
  <2>2. ASSUME NEW i \in 1..Len(a), i + 1 \in S
        PROVE  i \in S
    <3>1. rest[i] = up(i, rest[i + 1])
      <4>1. i \in Is
        BY <1>1
      <4>2. rest[i] = [j \in Js |-> Entry(rest, i, j)]
        BY <1>10, <4>1
      <4>3. up(i, rest[i + 1]) = [j \in Js |-> Entry(rest, i, j)]
        BY <1>1 DEF up
      <4> QED
        BY <4>2, <4>3
    <3> HIDE DEF Row
    <3>2. rest[i + 1] \in Row /\ i \in Is
      BY <1>1, <2>2
    <3> QED
      BY <1>4, <3>1, <3>2
  <2> HIDE DEF S
  <2>3. \A i \in Is : i \in S
    BY <1>1, <2>1, <2>2, InductionDown
  <2> QED
    BY <2>3 DEF S
<1>12. \A i \in Is, j \in Js : rest[i][j] = Entry(rest, i, j)
  <2> HIDE DEF Entry, Is
  <2> QED
    BY <1>10
<1>13. rest \in [Is -> Row]
  <2> HIDE DEF rest, Entry, Row
  <2> QED
    BY <1>9, <1>11
<1>14. \A i \in Is, j \in Js : i > Len(a) \/ j > Len(b) => rest[i][j] = <<>>
  BY <1>12
<1>15. ASSUME NEW i \in 1..Len(a), NEW j \in 1..Len(b)
      PROVE  /\ a[i] # b[j] => rest[i][j] = rest[i + 1][j]
             /\ a[i] = b[j] => rest[i][j] = Append(rest[i + 1][j + 1], a[i])
  <2>1. i \in Is /\ j \in Js /\ ~ (i > Len(a) \/ j > Len(b))
    BY <1>1
  <2> HIDE DEF Is, Js
  <2> QED
    BY <1>12, <2>1 DEF Less
<1> HIDE DEF R
<1>16. Intersection(a, b) = rest[1][1]
  BY <1>2 DEF rest
<1> HIDE DEF rest
<1>17. IntersectionTable(rest, H, a, b)
  BY <1>13, <1>14, <1>15, <1>16 DEF IntersectionTable
<1> QED
  BY <1>17

(* Difference likewise. *)
DifferenceTable(rest, H, a, b) ==
  /\ rest \in [1..Len(a) + 1 -> [1..Len(b) + 1 -> Seq(H)]]
  /\ Difference(a, b) = rest[1][1]
  /\ \A j \in 1..Len(b) + 1 : rest[Len(a) + 1][j] = <<>>
  /\ \A i \in 1..Len(a) : rest[i][Len(b) + 1] = Append(rest[i + 1][Len(b) + 1], a[i])
  /\ \A i \in 1..Len(a), j \in 1..Len(b) :
       /\ a[i] # b[j] => rest[i][j] = Append(rest[i + 1][j], a[i])
       /\ a[i] = b[j] => rest[i][j] = rest[i + 1][j + 1]

(* There is such a table, so a proof may follow the recursion of           *)
(* Difference.                                                             *)
LEMMA DifferenceUnfolds ==
  ASSUME NEW H, NEW a \in Seq(H), NEW b \in Seq(H)
  PROVE  \E rest : DifferenceTable(rest, H, a, b)
<1> DEFINE Is == 1..Len(a) + 1
           Js == 1..Len(b) + 1
           Row == [Js -> Seq(H)]
           Entry(r, i, j) == IF i > Len(a) THEN <<>>
                             ELSE IF j > Len(b) \/ Less(a[i], b[j]) THEN Append(r[i + 1][j], a[i])
                             ELSE r[i + 1][j + 1]
           R(r) == r = [i \in Is |-> [j \in Js |-> Entry(r, i, j)]]
           none == [j \in Js |-> <<>>]
           up(i, row) == [j \in Js |-> IF j > Len(b) \/ Less(a[i], b[j]) THEN Append(row[j], a[i])
                                       ELSE row[j + 1]]
           step == [p \in (1..Len(a)) \X Row |-> up(p[1], p[2])]
<1>1. Len(a) \in Nat /\ Len(b) \in Nat /\ \A i \in 1..Len(a) : a[i] \in H
  OBVIOUS
<1>2. Difference(a, b) = (CHOOSE r : R(r))[1][1]
  BY DEF Difference
<1>3. none \in Row
  OBVIOUS
<1>4. ASSUME NEW i \in 1..Len(a), NEW row \in Row
      PROVE  up(i, row) \in Row
  <2>1. a[i] \in H /\ \A j \in 1..Len(b) : j + 1 \in Js
    BY <1>1
  <2>2. /\ \A j \in Js : row[j] \in Seq(H)
        /\ \A j \in 1..Len(b) : row[j + 1] \in Seq(H)
    <3>1. \A j \in 1..Len(b) : j \in Js
      BY <1>1
    <3>2. \A j \in Js : row[j] \in Seq(H)
      OBVIOUS
    <3> QED
      BY <2>1, <3>1, <3>2
  <2>3. \A s \in Seq(H) : Append(s, a[i]) \in Seq(H)
    BY <2>1
  <2>4. \A j \in Js : j > Len(b) \/ j \in 1..Len(b)
    BY <1>1
  <2> QED
    BY <2>2, <2>3, <2>4, EmptySeq
<1> HIDE DEF up
<1>5. step \in [(1..Len(a)) \X Row -> Row]
  BY <1>4
<1>6. PICK g : IteratesDown(g, Len(a), Row, none, step)
  <2> HIDE DEF Row, step, none
  <2> QED
    BY <1>1, <1>3, <1>5, RecursionDown
<1>7. /\ g \in [Is -> Row] /\ g[Len(a) + 1] = none
      /\ \A i \in 1..Len(a) : g[i] = up(i, g[i + 1])
  <2>1. g \in [Is -> Row] /\ g[Len(a) + 1] = none /\ \A i \in 1..Len(a) : g[i] = step[<<i, g[i + 1]>>]
    BY <1>6 DEF IteratesDown
  <2>2. \A i \in 1..Len(a) : g[i + 1] \in Row
    <3> HIDE DEF Row
    <3> QED
      BY <1>1, <2>1
  <2>3. \A i \in 1..Len(a), row \in Row : step[<<i, row>>] = up(i, row)
    OBVIOUS
  <2> HIDE DEF step, Row
  <2> QED
    BY <2>1, <2>2, <2>3
<1>8. R(g)
  <2>1. ASSUME NEW i \in Is
        PROVE  g[i] = [j \in Js |-> Entry(g, i, j)]
    <3>1. CASE i = Len(a) + 1
      BY <1>1, <1>7, <3>1
    <3>2. CASE i \in 1..Len(a)
      <4>1. g[i] = up(i, g[i + 1])
        BY <1>7, <3>2
      <4>2. up(i, g[i + 1]) = [j \in Js |-> Entry(g, i, j)]
        BY <1>1, <3>2 DEF up
      <4> QED
        BY <4>1, <4>2
    <3> QED
      BY <1>1, <3>1, <3>2
  <2> HIDE DEF Entry, Row
  <2> QED
    BY <1>7, <2>1
<1> DEFINE rest == CHOOSE r : R(r)
<1>9. R(rest)
  <2> HIDE DEF R
  <2> QED
    BY <1>8
<1> HIDE DEF rest
<1>10. \A i \in Is : rest[i] = [j \in Js |-> Entry(rest, i, j)]
  <2> HIDE DEF Entry, Is
  <2> QED
    BY <1>9
<1>11. \A i \in Is : rest[i] \in Row
  <2> DEFINE S == {i \in Is : rest[i] \in Row}
  <2> HIDE DEF rest
  <2>1. Len(a) + 1 \in S
    <3>2. Len(a) + 1 \in Is
      BY <1>1
    <3>1. rest[Len(a) + 1] = none
      <4>1. rest[Len(a) + 1] = [j \in Js |-> Entry(rest, Len(a) + 1, j)]
        BY <1>10, <3>2
      <4>2. \A j \in Js : Entry(rest, Len(a) + 1, j) = <<>>
        BY <1>1
      <4> HIDE DEF Entry
      <4> QED
        BY <4>1, <4>2
    <3> HIDE DEF Row, none, Is
    <3> QED
      BY <1>3, <3>1, <3>2
  <2>2. ASSUME NEW i \in 1..Len(a), i + 1 \in S
        PROVE  i \in S
    <3>1. rest[i] = up(i, rest[i + 1])
      <4>1. i \in Is
        BY <1>1
      <4>2. rest[i] = [j \in Js |-> Entry(rest, i, j)]
        BY <1>10, <4>1
      <4>3. up(i, rest[i + 1]) = [j \in Js |-> Entry(rest, i, j)]
        BY <1>1 DEF up
      <4> QED
        BY <4>2, <4>3
    <3> HIDE DEF Row
    <3>2. rest[i + 1] \in Row /\ i \in Is
      BY <1>1, <2>2
    <3> QED
      BY <1>4, <3>1, <3>2
  <2> HIDE DEF S
  <2>3. \A i \in Is : i \in S
    BY <1>1, <2>1, <2>2, InductionDown
  <2> QED
    BY <2>3 DEF S
<1>12. \A i \in Is, j \in Js : rest[i][j] = Entry(rest, i, j)
  <2> HIDE DEF Entry, Is
  <2> QED
    BY <1>10
<1>13. rest \in [Is -> Row]
  <2> HIDE DEF rest, Entry, Row
  <2> QED
    BY <1>9, <1>11
<1>14. \A j \in Js : rest[Len(a) + 1][j] = <<>>
  <2>1. Len(a) + 1 \in Is /\ Len(a) + 1 > Len(a)
    BY <1>1
  <2> HIDE DEF Is, Js
  <2> QED
    BY <1>12, <2>1
<1>15. ASSUME NEW i \in 1..Len(a), NEW j \in 1..Len(b)
      PROVE  /\ a[i] # b[j] => rest[i][j] = Append(rest[i + 1][j], a[i])
             /\ a[i] = b[j] => rest[i][j] = rest[i + 1][j + 1]
  <2>1. i \in Is /\ j \in Js /\ ~ (i > Len(a)) /\ ~ (j > Len(b))
    BY <1>1
  <2> HIDE DEF Is, Js
  <2> QED
    BY <1>12, <2>1 DEF Less
<1>16. ASSUME NEW i \in 1..Len(a)
      PROVE  rest[i][Len(b) + 1] = Append(rest[i + 1][Len(b) + 1], a[i])
  <2>1. i \in Is /\ Len(b) + 1 \in Js /\ ~ (i > Len(a)) /\ Len(b) + 1 > Len(b)
    BY <1>1
  <2> HIDE DEF Is, Js
  <2> QED
    BY <1>12, <2>1
<1> HIDE DEF R
<1>17. Difference(a, b) = rest[1][1]
  BY <1>2 DEF rest
<1> HIDE DEF rest
<1>18. DifferenceTable(rest, H, a, b)
  BY <1>13, <1>14, <1>15, <1>16, <1>17 DEF DifferenceTable
<1> QED
  BY <1>18

(* What is in the intersection is in both sets; it is no longer than the   *)
(* first, and a set if one of the two is.  The invariant is about what is  *)
(* found from position i of the one and j of the other on.                 *)
LEMMA IntersectionShared ==
  ASSUME NEW H, NEW a \in Seq(H), NEW b \in Seq(H)
  PROVE  /\ Intersection(a, b) \in Seq(H)
         /\ Len(Intersection(a, b)) <= Len(a)
         /\ Range(Intersection(a, b)) \subseteq Range(a) \cap Range(b)
         /\ Unique(a) \/ Unique(b) => Unique(Intersection(a, b))
<1> DEFINE Is == 1..Len(a) + 1
           Js == 1..Len(b) + 1
           From(s, i, j) ==
             \A k \in 1..Len(s) : \E p \in i..Len(a), q \in j..Len(b) : s[k] = a[p] /\ s[k] = b[q]
           Differ(s) == \A k, l \in 1..Len(s) : s[k] = s[l] => k = l
           Good(s, i, j) ==
             /\ s \in Seq(H) /\ Len(s) <= Len(a) + 1 - i
             /\ From(s, i, j)
             /\ Unique(a) \/ Unique(b) => Differ(s)
<1>0. PICK rest : IntersectionTable(rest, H, a, b)
  BY IntersectionUnfolds
<1>1. /\ rest \in [Is -> [Js -> Seq(H)]] /\ Intersection(a, b) = rest[1][1]
      /\ \A i \in Is, j \in Js : i > Len(a) \/ j > Len(b) => rest[i][j] = <<>>
      /\ \A i \in 1..Len(a), j \in 1..Len(b) :
           /\ a[i] # b[j] => rest[i][j] = rest[i + 1][j]
           /\ a[i] = b[j] => rest[i][j] = Append(rest[i + 1][j + 1], a[i])
  BY <1>0 DEF IntersectionTable
<1>2. /\ Len(a) \in Nat /\ DOMAIN a = 1..Len(a) /\ \A i \in 1..Len(a) : a[i] \in H
      /\ Len(b) \in Nat /\ DOMAIN b = 1..Len(b)
  BY LenProperties
<1>3. ASSUME NEW i \in Is, NEW j \in Js
      PROVE  Good(<<>>, i, j)
  BY <1>2, EmptySeq
<1>4. ASSUME NEW i \in 1..Len(a), NEW j \in 1..Len(b), NEW s, Good(s, i + 1, j)
      PROVE  Good(s, i, j)
  BY <1>2, <1>4
<1>5. ASSUME NEW i \in 1..Len(a), NEW j \in 1..Len(b), NEW s, Good(s, i + 1, j + 1), a[i] = b[j]
      PROVE  Good(Append(s, a[i]), i, j)
  <2> DEFINE t == Append(s, a[i])
  <2>0. Len(s) \in Nat
    BY <1>5, LenProperties
  <2>1. /\ t \in Seq(H) /\ Len(t) = Len(s) + 1
        /\ \A k \in 1..Len(s) : t[k] = s[k]
        /\ t[Len(s) + 1] = a[i]
    BY <1>2, <1>5, Appended
  <2> HIDE DEF t
  <2>2. Len(t) <= Len(a) + 1 - i
    BY <1>2, <1>5, <2>0, <2>1
  <2>3. ASSUME NEW k \in 1..Len(t)
        PROVE  \E p \in i..Len(a), q \in j..Len(b) : t[k] = a[p] /\ t[k] = b[q]
    <3>1. CASE k = Len(s) + 1
      BY <1>2, <1>5, <2>1, <3>1
    <3>2. CASE k \in 1..Len(s)
      BY <1>2, <1>5, <2>1, <3>2
    <3>3. k = Len(s) + 1 \/ k \in 1..Len(s)
      BY <2>0, <2>1
    <3> QED
      BY <3>1, <3>2, <3>3
  <2>4. ASSUME Unique(a) \/ Unique(b)
        PROVE  Differ(t)
    <3>1. ASSUME NEW k \in 1..Len(s)
          PROVE  t[k] # a[i]
      <4>1. PICK p \in i + 1..Len(a), q \in j + 1..Len(b) : s[k] = a[p] /\ s[k] = b[q]
        BY <1>5
      <4>2. i \in DOMAIN a /\ p \in DOMAIN a /\ i # p /\ j \in DOMAIN b /\ q \in DOMAIN b /\ j # q
        BY <1>2
      <4>3. a[i] # a[p] \/ b[j] # b[q]
        BY <2>4, <4>2 DEF Unique, IsInjective
      <4> QED
        BY <1>5, <2>1, <4>1, <4>3
    <3>2. Differ(s)
      BY <1>5, <2>4
    <3>3. \A k \in 1..Len(t) : k \in 1..Len(s) \/ k = Len(s) + 1
      BY <2>0, <2>1
    <3> QED
      BY <2>1, <3>1, <3>2, <3>3
  <2>5. From(t, i, j) /\ (Unique(a) \/ Unique(b) => Differ(t))
    BY <2>3, <2>4
  <2> HIDE DEF From, Differ
  <2>6. Good(t, i, j)
    BY <2>1, <2>2, <2>5
  <2> QED
    BY <2>6 DEF t
<1> HIDE DEF Good
<1>6. \A i \in Is : \A j \in Js : Good(rest[i][j], i, j)
  <2> DEFINE S == {i \in Is : \A j \in Js : Good(rest[i][j], i, j)}
  <2>1. Len(a) + 1 \in S
    <3>1. Len(a) + 1 \in Is /\ Len(a) + 1 > Len(a)
      BY <1>2
    <3>2. \A j \in Js : rest[Len(a) + 1][j] = <<>>
      BY <1>1, <3>1
    <3> QED
      BY <1>3, <3>1, <3>2
  <2>2. ASSUME NEW i \in 1..Len(a), i + 1 \in S
        PROVE  i \in S
    <3> SUFFICES ASSUME NEW j \in Js PROVE Good(rest[i][j], i, j)
      BY <1>2
    <3>1. i \in Is /\ i + 1 \in Is /\ (j \in 1..Len(b) => j + 1 \in Js)
      BY <1>2
    <3>2. CASE j > Len(b)
      <4>1. rest[i][j] = <<>>
        BY <1>1, <3>1, <3>2
      <4> QED
        BY <1>3, <3>1, <4>1
    <3>3. CASE j \in 1..Len(b) /\ a[i] # b[j]
      <4>1. rest[i][j] = rest[i + 1][j]
        BY <1>1, <3>3
      <4> QED
        BY <1>4, <2>2, <3>3, <4>1
    <3>4. CASE j \in 1..Len(b) /\ a[i] = b[j]
      <4>1. rest[i][j] = Append(rest[i + 1][j + 1], a[i])
        BY <1>1, <3>4
      <4>2. Good(rest[i + 1][j + 1], i + 1, j + 1)
        BY <2>2, <3>1, <3>4
      <4> QED
        BY <1>5, <3>4, <4>1, <4>2
    <3> QED
      BY <1>2, <3>2, <3>3, <3>4
  <2> HIDE DEF S
  <2>3. \A i \in Is : i \in S
    BY <1>2, <2>1, <2>2, InductionDown
  <2> QED
    BY <2>3 DEF S
<1> DEFINE s == rest[1][1]
<1>7. Good(s, 1, 1)
  BY <1>2, <1>6
<1> USE DEF Good
<1> HIDE DEF s
<1>8. Len(s) \in Nat /\ DOMAIN s = 1..Len(s)
  BY <1>7, LenProperties
<1>9. Range(s) \subseteq Range(a) \cap Range(b)
  <2> SUFFICES ASSUME NEW k \in DOMAIN s
               PROVE  s[k] \in Range(a) /\ s[k] \in Range(b)
    BY DEF Range
  <2>1. PICK p \in 1..Len(a), q \in 1..Len(b) : s[k] = a[p] /\ s[k] = b[q]
    BY <1>7, <1>8
  <2> QED
    BY <1>2, <2>1 DEF Range
<1>10. Unique(a) \/ Unique(b) => Unique(s)
  BY <1>7, <1>8 DEF Unique, IsInjective
<1> QED
  BY <1>1, <1>2, <1>7, <1>8, <1>9, <1>10 DEF s

(* A set intersected with itself loses nothing. *)
LEMMA IntersectionOfSame ==
  ASSUME NEW H, NEW a \in Seq(H)
  PROVE  Range(Intersection(a, a)) = Range(a)
<1> DEFINE Is == 1..Len(a) + 1
<1>0. PICK rest : IntersectionTable(rest, H, a, a)
  BY IntersectionUnfolds
<1>1. /\ rest \in [Is -> [Is -> Seq(H)]] /\ Intersection(a, a) = rest[1][1]
      /\ \A i, j \in 1..Len(a) :
           a[i] = a[j] => rest[i][j] = Append(rest[i + 1][j + 1], a[i])
  BY <1>0 DEF IntersectionTable
<1>2. Len(a) \in Nat /\ DOMAIN a = 1..Len(a) /\ \A i \in 1..Len(a) : a[i] \in H
  BY LenProperties
<1> DEFINE S == {i \in Is : \A k \in i..Len(a) : a[k] \in Range(rest[i][i])}
<1>3. Len(a) + 1 \in S
  BY <1>2
<1>4. ASSUME NEW i \in 1..Len(a), i + 1 \in S
      PROVE  i \in S
  <2>1. i \in Is /\ i + 1 \in Is
    BY <1>2
  <2>2. rest[i][i] = Append(rest[i + 1][i + 1], a[i]) /\ rest[i + 1][i + 1] \in Seq(H)
    <3>1. rest[i][i] = Append(rest[i + 1][i + 1], a[i])
      BY <1>1
    <3>2. rest \in [Is -> [Is -> Seq(H)]]
      BY <1>1
    <3> HIDE DEF Is
    <3> QED
      BY <2>1, <3>1, <3>2
  <2> DEFINE s == rest[i + 1][i + 1]
  <2>3. /\ Len(s) \in Nat /\ DOMAIN s = 1..Len(s)
        /\ DOMAIN Append(s, a[i]) = 1..Len(s) + 1
        /\ \A k \in 1..Len(s) : Append(s, a[i])[k] = s[k]
        /\ Append(s, a[i])[Len(s) + 1] = a[i]
    <3>1. s \in Seq(H) /\ a[i] \in H
      BY <1>2, <2>2
    <3> HIDE DEF s
    <3> QED
      BY <3>1
  <2> HIDE DEF s
  <2>4. Range(s) \subseteq Range(Append(s, a[i])) /\ a[i] \in Range(Append(s, a[i]))
    BY <2>3 DEF Range
  <2>5. \A k \in i..Len(a) : k = i \/ k \in i + 1..Len(a)
    BY <1>2
  <2> QED
    BY <1>4, <2>1, <2>2, <2>4, <2>5 DEF s
<1> HIDE DEF S
<1>5. \A i \in Is : i \in S
  BY <1>2, <1>3, <1>4, InductionDown
<1>6. \A k \in 1..Len(a) : a[k] \in Range(Intersection(a, a))
  BY <1>1, <1>2, <1>5 DEF S
<1>7. Range(a) \subseteq Range(Intersection(a, a))
  BY <1>2, <1>6 DEF Range
<1>8. Range(Intersection(a, a)) \subseteq Range(a)
  BY IntersectionShared
<1> QED
  BY <1>7, <1>8

(* What is left of a is in a; and the first digest of b is taken away     *)
(* wherever it is.                                                         *)
LEMMA DifferenceTaken ==
  ASSUME NEW H, NEW a \in Seq(H), NEW b \in Seq(H)
  PROVE  /\ Difference(a, b) \in Seq(H)
         /\ Range(Difference(a, b)) \subseteq Range(a)
         /\ Unique(a) /\ Len(b) >= 1 => b[1] \notin Range(Difference(a, b))
<1> DEFINE Is == 1..Len(a) + 1
           Js == 1..Len(b) + 1
           From(s, i) == \A k \in 1..Len(s) : \E p \in i..Len(a) : s[k] = a[p]
           Without(s) == \A k \in 1..Len(s) : s[k] # b[1]
           Good(s, i, j) ==
             /\ s \in Seq(H) /\ From(s, i)
             /\ Unique(a) /\ Len(b) >= 1 /\ j = 1 => Without(s)
<1>0. PICK rest : DifferenceTable(rest, H, a, b)
  BY DifferenceUnfolds
<1>1. /\ rest \in [Is -> [Js -> Seq(H)]] /\ Difference(a, b) = rest[1][1]
      /\ \A j \in Js : rest[Len(a) + 1][j] = <<>>
      /\ \A i \in 1..Len(a) : rest[i][Len(b) + 1] = Append(rest[i + 1][Len(b) + 1], a[i])
      /\ \A i \in 1..Len(a), j \in 1..Len(b) :
           /\ a[i] # b[j] => rest[i][j] = Append(rest[i + 1][j], a[i])
           /\ a[i] = b[j] => rest[i][j] = rest[i + 1][j + 1]
  BY <1>0 DEF DifferenceTable
<1>2. /\ Len(a) \in Nat /\ DOMAIN a = 1..Len(a) /\ \A i \in 1..Len(a) : a[i] \in H
      /\ Len(b) \in Nat
  BY LenProperties
<1>3. \A j \in Js : Good(<<>>, Len(a) + 1, j)
  BY <1>2, EmptySeq
<1>4. ASSUME NEW i \in 1..Len(a), NEW j \in Js, NEW s, Good(s, i + 1, j),
             j = 1 /\ Len(b) >= 1 => a[i] # b[1]
      PROVE  Good(Append(s, a[i]), i, j)
  <2> DEFINE t == Append(s, a[i])
  <2>1. s \in Seq(H) /\ Len(s) \in Nat
    BY <1>4, LenProperties
  <2>2. /\ t \in Seq(H) /\ Len(t) = Len(s) + 1
        /\ \A k \in 1..Len(s) : t[k] = s[k]
        /\ t[Len(s) + 1] = a[i]
    BY <1>2, <2>1, Appended
  <2> HIDE DEF t
  <2>3. \A k \in 1..Len(t) : k \in 1..Len(s) \/ k = Len(s) + 1
    BY <2>1, <2>2
  <2>4. From(t, i)
    <3>1. i \in i..Len(a) /\ i + 1..Len(a) \subseteq i..Len(a)
      BY <1>2
    <3>2. \A k \in 1..Len(s) : \E p \in i..Len(a) : t[k] = a[p]
      BY <1>4, <2>2, <3>1
    <3>3. \E p \in i..Len(a) : t[Len(s) + 1] = a[p]
      BY <2>2, <3>1
    <3> QED
      BY <2>3, <3>2, <3>3
  <2>5. Unique(a) /\ Len(b) >= 1 /\ j = 1 => Without(t)
    BY <1>4, <2>2, <2>3
  <2> HIDE DEF From, Without
  <2> QED
    BY <2>2, <2>4, <2>5 DEF t
<1>5. ASSUME NEW i \in 1..Len(a), NEW j \in 1..Len(b), NEW s, Good(s, i + 1, j + 1), a[i] = b[j]
      PROVE  Good(s, i, j)
  <2>1. From(s, i)
    <3>1. i + 1..Len(a) \subseteq i..Len(a)
      BY <1>2
    <3> QED
      BY <1>5, <3>1
  <2>2. ASSUME Unique(a), j = 1, NEW k \in 1..Len(s)
        PROVE  s[k] # b[1]
    <3>1. PICK p \in i + 1..Len(a) : s[k] = a[p]
      BY <1>5
    <3>2. i \in DOMAIN a /\ p \in DOMAIN a /\ p # i
      BY <1>2
    <3> QED
      BY <1>5, <2>2, <3>1, <3>2 DEF Unique, IsInjective
  <2> QED
    BY <1>5, <2>1, <2>2
<1> HIDE DEF Good
<1>6. \A i \in Is : \A j \in Js : Good(rest[i][j], i, j)
  <2> DEFINE S == {i \in Is : \A j \in Js : Good(rest[i][j], i, j)}
  <2>1. Len(a) + 1 \in S
    <3>1. Len(a) + 1 \in Is
      BY <1>2
    <3> QED
      BY <1>1, <1>3, <3>1
  <2>2. ASSUME NEW i \in 1..Len(a), i + 1 \in S
        PROVE  i \in S
    <3> SUFFICES ASSUME NEW j \in Js PROVE Good(rest[i][j], i, j)
      BY <1>2
    <3>1. i \in Is /\ i + 1 \in Is /\ (j \in 1..Len(b) => j + 1 \in Js)
      BY <1>2
    <3>2. CASE j = Len(b) + 1
      <4>1. rest[i][j] = Append(rest[i + 1][j], a[i])
        BY <1>1, <3>2
      <4>2. ~ (j = 1 /\ Len(b) >= 1)
        <5> HIDE DEF S, Js, Is
        <5>1. Len(b) >= 1 => j >= 2
          BY <3>2
        <5> QED
          BY <5>1
      <4> QED
        BY <1>4, <2>2, <4>1, <4>2
    <3>3. CASE j \in 1..Len(b) /\ a[i] # b[j]
      <4>1. rest[i][j] = Append(rest[i + 1][j], a[i])
        BY <1>1, <3>3
      <4> QED
        BY <1>4, <2>2, <3>3, <4>1
    <3>4. CASE j \in 1..Len(b) /\ a[i] = b[j]
      <4>1. rest[i][j] = rest[i + 1][j + 1]
        BY <1>1, <3>4
      <4>2. Good(rest[i + 1][j + 1], i + 1, j + 1)
        BY <2>2, <3>1, <3>4
      <4> QED
        BY <1>5, <3>4, <4>1, <4>2
    <3> QED
      BY <1>2, <3>2, <3>3, <3>4
  <2> HIDE DEF S
  <2>3. \A i \in Is : i \in S
    BY <1>2, <2>1, <2>2, InductionDown
  <2> QED
    BY <2>3 DEF S
<1> DEFINE s == rest[1][1]
<1>7. Good(s, 1, 1)
  BY <1>2, <1>6
<1> USE DEF Good
<1> HIDE DEF s
<1>8. DOMAIN s = 1..Len(s)
  BY <1>7, LenProperties
<1>9. Range(s) \subseteq Range(a)
  <2> SUFFICES ASSUME NEW k \in DOMAIN s PROVE s[k] \in Range(a)
    BY DEF Range
  <2>1. PICK p \in 1..Len(a) : s[k] = a[p]
    BY <1>7, <1>8
  <2> QED
    BY <1>2, <2>1 DEF Range
<1>10. Unique(a) /\ Len(b) >= 1 => b[1] \notin Range(s)
  BY <1>7, <1>8 DEF Range
<1> QED
  BY <1>1, <1>7, <1>9, <1>10 DEF s

(* In up to three nodes a digest is come to by the descent of an insert or *)
(* by that of a lookup; a lookup comes to nothing else; and the first of   *)
(* two nodes or more is one it does not come to.                           *)
LEMMA LookedUp ==
  ASSUME NEW H, NEW s \in Seq(H), Len(s) <= 3, NEW h
  PROVE  /\ \A i \in Found(s, h) : i \in DOMAIN s /\ s[i] = h
         /\ Found(s, h) = {} /\ ~ Collides(s, h) => h \notin Range(s)
         /\ Len(s) = 1 /\ h = s[1] => Found(s, h) = {1}
         /\ Len(s) >= 2 => 1 \notin Found(s, h)
         /\ Len(s) = 2 /\ h = s[2] => 2 \in Found(s, h)
<1>1. Len(s) \in 0..3 /\ DOMAIN s = 1..Len(s) /\ (s = <<>> <=> Len(s) = 0)
  <2>1. Len(s) \in Nat /\ DOMAIN s = 1..Len(s) /\ (s # <<>> => Len(s) # 0)
    BY LenProperties, EmptySeq
  <2> QED
    BY <2>1
<1>3. /\ Len(s) = 1 => Root(s) = 1
      /\ Len(s) \in 2..3 => Root(s) = 2
  <2>1. ASSUME Len(s) = 1
        PROVE  Root(s) = 1
    BY <2>1 DEF Root
  <2>2. ASSUME Len(s) = 2
        PROVE  Root(s) = 2
    BY <2>2 DEF Root
  <2>3. ASSUME Len(s) = 3
        PROVE  Root(s) = 2
    BY <2>3 DEF Root
  <2> QED
    BY <1>1, <2>1, <2>2, <2>3
<1>4. \A i \in Found(s, h) : i \in DOMAIN s /\ s[i] = h
  BY DEF Found, Less
<1>5. Found(s, h) = {} /\ ~ Collides(s, h) => h \notin Range(s)
  <2> SUFFICES ASSUME Found(s, h) = {}, ~ Collides(s, h), NEW i \in 1..Len(s), s[i] = h
               PROVE  FALSE
    BY <1>1 DEF Range
  <2>1. s # <<>> /\ Root(s) \in Nat
    BY <1>1, <1>3
  <2>2. i \in 1..Root(s) \/ i >= Root(s)
    BY <1>1, <2>1
  <2> QED
    BY <1>1, <2>1, <2>2 DEF Found, Collides, Less
<1>6. Len(s) = 1 /\ h = s[1] => Found(s, h) = {1}
  BY <1>1, <1>3 DEF Found, Less
<1>7. Len(s) >= 2 => 1 \notin Found(s, h)
  BY <1>1, <1>3 DEF Found
<1>8. Len(s) = 2 /\ h = s[2] => 2 \in Found(s, h)
  BY <1>1, <1>3 DEF Found, Less
<1> QED
  BY <1>4, <1>5, <1>6, <1>7, <1>8

(* Appending to no element or one, element by element.                     *)
LEMMA AppendToFew ==
  ASSUME NEW p, NEW q
  PROVE  Append(<<>>, p) = <<p>> /\ Append(<<q>>, p) = <<q, p>>
<1>1. Append(<<>>, p) = <<p>>
  OBVIOUS
<1>2. Append(<<q>>, p) = <<q, p>>
  <2> DEFINE s == Append(<<q>>, p)
             t == <<q, p>>
  <2>1. s \in Seq({p, q}) /\ Len(s) = 2 /\ s[1] = q /\ s[2] = p
    OBVIOUS
  <2>2. t \in Seq({p, q}) /\ Len(t) = 2 /\ t[1] = q /\ t[2] = p
    OBVIOUS
  <2> HIDE DEF s, t
  <2>3. \A i \in 1..Len(s) : s[i] = t[i]
    BY <2>1, <2>2
  <2> QED
    BY <2>1, <2>2, <2>3, SeqEqual DEF s, t
<1> QED
  BY <1>1, <1>2

(* Prepending to no element or one, element by element.                    *)
LEMMA PrependToFew ==
  ASSUME NEW p, NEW q
  PROVE  <<p>> \o <<>> = <<p>> /\ <<p>> \o <<q>> = <<p, q>>
<1> DEFINE T == {p, q}
           one == <<p>> \o <<>>
           two == <<p>> \o <<q>>
           both == <<p, q>>
           single == <<p>>
<1>1. /\ single \in Seq(T) /\ Len(single) = 1 /\ single[1] = p
      /\ both \in Seq(T) /\ Len(both) = 2 /\ both[1] = p /\ both[2] = q
  OBVIOUS
<1>2. one \in Seq(T) /\ Len(one) = 1 /\ one[1] = p
  <2>1. p \in T /\ <<>> \in Seq(T) /\ Len(<<>>) = 0
    OBVIOUS
  <2> HIDE DEF T
  <2> QED
    BY <2>1, Prepended
<1>3. two \in Seq(T) /\ Len(two) = 2 /\ two[1] = p /\ two[2] = q
  <2>1. p \in T /\ <<q>> \in Seq(T) /\ Len(<<q>>) = 1 /\ <<q>>[1] = q
    OBVIOUS
  <2> HIDE DEF T
  <2> QED
    BY <2>1, Prepended
<1> HIDE DEF T, one, two, both, single
<1>4. one = single
  BY <1>1, <1>2, SeqEqual
<1>5. two = both
  <2>1. \A i \in 1..Len(two) : two[i] = both[i]
    BY <1>1, <1>3
  <2> QED
    BY <1>1, <1>3, <2>1, SeqEqual
<1> QED
  BY <1>4, <1>5 DEF one, two, both, single

(* Of one or two digests, what is left and what is shared in so many words. *)
LEMMA DifferenceOfOne ==
  ASSUME NEW H, NEW p \in H, NEW b \in Seq(H)
  PROVE  Difference(<<p>>, b) = IF Len(b) >= 1 /\ p = b[1] THEN <<>> ELSE <<p>>
<1> DEFINE a == <<p>>
<1>1. a \in Seq(H) /\ Len(a) = 1 /\ a[1] = p
  OBVIOUS
<1>2. Len(b) \in Nat
  BY LenProperties
<1> HIDE DEF a
<1>3. PICK rest : DifferenceTable(rest, H, a, b)
  BY <1>1, DifferenceUnfolds
<1>4. /\ Difference(a, b) = rest[1][1]
      /\ \A j \in 1..Len(b) + 1 : rest[2][j] = <<>>
      /\ rest[1][Len(b) + 1] = Append(rest[2][Len(b) + 1], p)
      /\ \A j \in 1..Len(b) :
           /\ p # b[j] => rest[1][j] = Append(rest[2][j], p)
           /\ p = b[j] => rest[1][j] = rest[2][j + 1]
  BY <1>1, <1>3 DEF DifferenceTable
<1>5. Append(<<>>, p) = <<p>>
  OBVIOUS
<1>6. CASE Len(b) = 0
  BY <1>4, <1>5, <1>6 DEF a
<1>7. CASE Len(b) >= 1
  <2>1. 1 \in 1..Len(b) /\ 1 \in 1..Len(b) + 1 /\ 2 \in 1..Len(b) + 1
    BY <1>2, <1>7
  <2>2. ASSUME p = b[1] PROVE Difference(a, b) = <<>>
    BY <1>4, <2>1, <2>2
  <2>3. ASSUME p # b[1] PROVE Difference(a, b) = <<p>>
    BY <1>4, <1>5, <2>1, <2>3
  <2> QED
    BY <1>7, <2>2, <2>3 DEF a
<1> QED
  BY <1>2, <1>6, <1>7

(* What is left of two digests: those the other set does not have, and in  *)
(* their reverse order.                                                    *)
LEMMA DifferenceOfTwo ==
  ASSUME NEW H, NEW p \in H, NEW q \in H, NEW b \in Seq(H)
  PROVE  /\ Len(b) >= 2 /\ p = b[1] /\ q = b[2] => Difference(<<p, q>>, b) = <<>>
         /\ Len(b) = 1 /\ p = b[1] => Difference(<<p, q>>, b) = <<q>>
         /\ Len(b) = 1 /\ p # b[1] /\ q = b[1] => Difference(<<p, q>>, b) = <<p>>
         /\ Len(b) = 0 => Difference(<<p, q>>, b) = <<q, p>>
<1> DEFINE a == <<p, q>>
<1>1. a \in Seq(H) /\ Len(a) = 2 /\ a[1] = p /\ a[2] = q
  OBVIOUS
<1>2. Len(b) \in Nat
  BY LenProperties
<1> HIDE DEF a
<1>3. PICK rest : DifferenceTable(rest, H, a, b)
  BY <1>1, DifferenceUnfolds
<1>4. /\ Difference(a, b) = rest[1][1]
      /\ \A j \in 1..Len(b) + 1 : rest[3][j] = <<>>
      /\ rest[1][Len(b) + 1] = Append(rest[2][Len(b) + 1], p)
      /\ rest[2][Len(b) + 1] = Append(rest[3][Len(b) + 1], q)
      /\ \A j \in 1..Len(b) :
           /\ p # b[j] => rest[1][j] = Append(rest[2][j], p)
           /\ p = b[j] => rest[1][j] = rest[2][j + 1]
           /\ q # b[j] => rest[2][j] = Append(rest[3][j], q)
           /\ q = b[j] => rest[2][j] = rest[3][j + 1]
  BY <1>1, <1>3 DEF DifferenceTable
<1>5. Append(<<>>, p) = <<p>> /\ Append(<<>>, q) = <<q>> /\ Append(<<q>>, p) = <<q, p>>
  BY AppendToFew
<1>6. ASSUME Len(b) = 0
      PROVE  Difference(a, b) = <<q, p>>
  <2>1. 1 \in 1..Len(b) + 1 /\ Len(b) + 1 = 1
    BY <1>6
  <2> QED
    BY <1>4, <1>5, <2>1
<1>7. ASSUME Len(b) = 1
      PROVE  /\ p = b[1] => Difference(a, b) = <<q>>
             /\ p # b[1] /\ q = b[1] => Difference(a, b) = <<p>>
  <2>1. 1 \in 1..Len(b) /\ 1 \in 1..Len(b) + 1 /\ 2 \in 1..Len(b) + 1 /\ Len(b) + 1 = 2
    BY <1>7
  <2>2. rest[3][1] = <<>> /\ rest[3][2] = <<>> /\ rest[1][2] = Append(rest[2][2], p)
        /\ rest[2][2] = <<q>>
    BY <1>4, <1>5, <2>1
  <2>3. ASSUME p = b[1] PROVE Difference(a, b) = <<q>>
    BY <1>4, <2>1, <2>2, <2>3
  <2>4. ASSUME p # b[1], q = b[1] PROVE Difference(a, b) = <<p>>
    <3>1. rest[1][1] = Append(rest[2][1], p) /\ rest[2][1] = <<>>
      BY <1>4, <2>1, <2>2, <2>4
    <3> QED
      BY <1>4, <1>5, <3>1
  <2> QED
    BY <2>3, <2>4
<1>8. ASSUME Len(b) >= 2, p = b[1], q = b[2]
      PROVE  Difference(a, b) = <<>>
  <2>1. 1 \in 1..Len(b) /\ 2 \in 1..Len(b) /\ 3 \in 1..Len(b) + 1
    BY <1>2, <1>8
  <2> QED
    BY <1>4, <1>8, <2>1
<1> QED
  BY <1>6, <1>7, <1>8 DEF a

(* The differences that come up while there are two maps at most.          *)
LEMMA DifferencesOfFew ==
  ASSUME NEW H, NEW x \in H, NEW y \in H
  PROVE  /\ Difference(<<x>>, <<>>) = <<x>>
         /\ Difference(<<x>>, <<x>>) = <<>>
         /\ Difference(<<x, y>>, <<>>) = <<y, x>>
         /\ Difference(<<x, y>>, <<x>>) = <<y>>
         /\ Difference(<<x, y>>, <<x, y>>) = <<>>
         /\ x # y => Difference(<<x, y>>, <<y>>) = <<x>>
<1> DEFINE none == <<>>
           ones(p) == <<p>>
           both == <<x, y>>
<1>1. /\ none \in Seq(H) /\ Len(none) = 0
      /\ \A p \in H : ones(p) \in Seq(H) /\ Len(ones(p)) = 1 /\ ones(p)[1] = p
      /\ both \in Seq(H) /\ Len(both) = 2 /\ both[1] = x /\ both[2] = y
  OBVIOUS
<1> HIDE DEF none, ones, both
<1>2. \A b \in Seq(H) : Difference(<<x>>, b) = IF Len(b) >= 1 /\ x = b[1] THEN <<>> ELSE <<x>>
  BY DifferenceOfOne
<1>3. \A b \in Seq(H) :
        /\ Len(b) >= 2 /\ x = b[1] /\ y = b[2] => Difference(<<x, y>>, b) = <<>>
        /\ Len(b) = 1 /\ x = b[1] => Difference(<<x, y>>, b) = <<y>>
        /\ Len(b) = 1 /\ x # b[1] /\ y = b[1] => Difference(<<x, y>>, b) = <<x>>
        /\ Len(b) = 0 => Difference(<<x, y>>, b) = <<y, x>>
  BY DifferenceOfTwo
<1> DEFINE one(b) == Difference(<<x>>, b)
           two(b) == Difference(<<x, y>>, b)
           emptied == <<>>
           onlyX == <<x>>
           onlyY == <<y>>
           swapped == <<y, x>>
<1>4. /\ \A b \in Seq(H) : one(b) = IF Len(b) >= 1 /\ x = b[1] THEN emptied ELSE onlyX
      /\ \A b \in Seq(H) :
           /\ Len(b) >= 2 /\ x = b[1] /\ y = b[2] => two(b) = emptied
           /\ Len(b) = 1 /\ x = b[1] => two(b) = onlyY
           /\ Len(b) = 1 /\ x # b[1] /\ y = b[1] => two(b) = onlyX
           /\ Len(b) = 0 => two(b) = swapped
  BY <1>2, <1>3, Zenon
<1> HIDE DEF one, two, emptied, onlyX, onlyY, swapped
<1>5. one(none) = onlyX /\ one(ones(x)) = emptied
  <2>1. ones(x) \in Seq(H) /\ Len(ones(x)) = 1 /\ ones(x)[1] = x
    BY <1>1
  <2>2. one(ones(x)) = IF Len(ones(x)) >= 1 /\ x = ones(x)[1] THEN emptied ELSE onlyX
    BY <1>4, <2>1, Zenon
  <2>3. none \in Seq(H) /\ Len(none) = 0
    BY <1>1
  <2>4. one(none) = onlyX
    <3>1. ~ (Len(none) >= 1)
      BY <2>3
    <3> QED
      BY <1>4, <2>3, <3>1, Zenon
  <2>5. one(ones(x)) = emptied
    <3>1. Len(ones(x)) >= 1 /\ x = ones(x)[1]
      BY <2>1
    <3> QED
      BY <2>2, <3>1, Zenon
  <2> QED
    BY <2>4, <2>5
<1>6. two(none) = swapped /\ two(ones(x)) = onlyY /\ two(both) = emptied
  <2>1. two(none) = swapped
    BY <1>1, <1>4
  <2>2. ones(x) \in Seq(H) /\ Len(ones(x)) = 1 /\ ones(x)[1] = x
    BY <1>1
  <2>3. two(ones(x)) = onlyY
    BY <1>4, <2>2
  <2>4. both \in Seq(H) /\ Len(both) = 2 /\ both[1] = x /\ both[2] = y
    BY <1>1
  <2>5. two(both) = emptied
    BY <1>4, <2>4
  <2> QED
    BY <2>1, <2>3, <2>5
<1>7. x # y => two(ones(y)) = onlyX
  BY <1>1, <1>4
<1> QED
  BY <1>5, <1>6, <1>7 DEF none, ones, both, one, two, emptied, onlyX, onlyY, swapped

(* One or two digests intersected with themselves come back in reverse.    *)
LEMMA IntersectionOfFew ==
  ASSUME NEW H, NEW a \in Seq(H)
  PROVE  /\ Len(a) = 1 => Intersection(a, a) = <<a[1]>>
         /\ Len(a) = 2 => Intersection(a, a) = <<a[2], a[1]>>
<1> DEFINE Is == 1..Len(a) + 1
<1>0. PICK rest : IntersectionTable(rest, H, a, a)
  BY IntersectionUnfolds
<1>1. /\ rest \in [Is -> [Is -> Seq(H)]] /\ Intersection(a, a) = rest[1][1]
      /\ \A i, j \in Is : i > Len(a) \/ j > Len(a) => rest[i][j] = <<>>
      /\ \A i, j \in 1..Len(a) :
           a[i] = a[j] => rest[i][j] = Append(rest[i + 1][j + 1], a[i])
  BY <1>0 DEF IntersectionTable
<1>2. ASSUME Len(a) = 1
      PROVE  Intersection(a, a) = <<a[1]>>
  <2>1. rest[2][2] = <<>> /\ rest[1][1] = Append(rest[2][2], a[1])
    BY <1>1, <1>2
  <2> QED
    BY <1>1, <2>1, AppendToFew
<1>3. ASSUME Len(a) = 2
      PROVE  Intersection(a, a) = <<a[2], a[1]>>
  <2>1. /\ rest[3][3] = <<>> /\ rest[2][2] = Append(rest[3][3], a[2])
        /\ rest[1][1] = Append(rest[2][2], a[1])
    BY <1>1, <1>3
  <2>2. rest[2][2] = <<a[2]>>
    BY <2>1, AppendToFew
  <2>3. rest[1][1] = <<a[2], a[1]>>
    BY <2>1, <2>2, AppendToFew
  <2> QED
    BY <1>1, <2>3
<1> QED
  BY <1>2, <1>3

(* One or two elements in reverse.                                         *)
LEMMA ReverseOfFew ==
  ASSUME NEW p, NEW q
  PROVE  /\ Reverse(<<>>) = <<>> /\ Reverse(<<p>>) = <<p>>
         /\ Reverse(<<p, q>>) = <<q, p>>
<1>1. Reverse(<<>>) = <<>>
  BY DEF Reverse
<1>2. Reverse(<<p>>) = <<p>>
  BY DEF Reverse
<1>3. Reverse(<<p, q>>) = <<q, p>>
  BY DEF Reverse
<1> QED
  BY <1>1, <1>2, <1>3

=============================================================================
