---------------------------- MODULE Chunk_proofs ----------------------------
(***************************************************************************)
(* Proofs about Chunk, for bytes of any size and functions of any length:  *)
(* what is read of a chunk is what was written, at the line it was written *)
(* for, and a jump leads to where it was meant to.                         *)
(***************************************************************************)
EXTENDS Chunk, SequenceTheorems, WellFoundedInduction, TLAPS

-----------------------------------------------------------------------------
(***************************************************************************)
(* Numbers.                                                                *)
(***************************************************************************)
\* Less than, as a relation.
LessThan == {pair \in Nat \X Nat : pair[1] < pair[2]}

\* A set of natural numbers that is not empty has a least element.
LEMMA LeastNumber ==
  ASSUME NEW S \in SUBSET Nat, S # {}
  PROVE  \E n \in S : \A m \in S : n <= m
<1>1. IsWellFoundedOn(LessThan, Nat)
  <2>1. OpToRel(<, Nat) = LessThan
    BY Zenon DEF OpToRel, LessThan
  <2> QED BY <2>1, NatLessThanWellFounded, Zenon
<1>2. PICK n \in S : \A m \in S : ~ (<<m, n>> \in LessThan)
  BY <1>1, WFMin, Zenon
<1>3. ASSUME NEW m \in S PROVE n <= m
  <2>1. ~ (<<m, n>> \in LessThan)
    BY <1>2
  <2>2. m \in Nat /\ n \in Nat
    OBVIOUS
  <2> QED BY <2>1, <2>2 DEF LessThan
<1> QED BY <1>3

\* A set that has 0, and the successor of all it has, has all the numbers.
LEMMA SetInduction ==
  ASSUME NEW S, 0 \in S, \A n \in Nat : n \in S => n + 1 \in S
  PROVE  Nat \subseteq S
<1> DEFINE T == Nat \ S
<1>1. SUFFICES ASSUME T # {} PROVE FALSE
  OBVIOUS
<1>2. PICK n \in T : \A m \in T : n <= m
  BY <1>1, LeastNumber
<1>3. n # 0 /\ n - 1 \in Nat /\ n - 1 \notin T
  BY <1>2
<1> QED BY <1>2, <1>3

\* The product of numbers, and how it grows.
LEMMA Products ==
  ASSUME NEW b \in Nat, NEW q \in Nat, NEW p \in Nat
  PROVE  /\ b * q \in Nat
         /\ q <= p => b * q <= b * p
         /\ q < p => b * q + b <= b * p
<1>1. b * q \in Nat
  OBVIOUS
<1>2. ASSUME NEW c \in Nat PROVE b * (q + c) = b * q + b * c /\ b * c \in Nat
  OBVIOUS
<1>3. ASSUME q <= p PROVE b * q <= b * p
  <2>1. p - q \in Nat /\ p = q + (p - q)
    BY <1>3
  <2> QED BY <1>1, <1>2, <2>1
<1>4. ASSUME q < p PROVE b * q + b <= b * p
  <2>1. p - q - 1 \in Nat /\ p = q + 1 + (p - q - 1)
    BY <1>4
  <2>2. b * (q + 1) = b * q + b
    OBVIOUS
  <2>3. b * (q + 1 + (p - q - 1)) = b * (q + 1) + b * (p - q - 1)
    BY <2>1
  <2>4. b * (p - q - 1) \in Nat
    BY <2>1
  <2> QED BY <1>1, <2>1, <2>2, <2>3, <2>4
<1> QED BY <1>1, <1>3, <1>4

LEMMA Divided ==
  ASSUME NEW a \in Nat, NEW b \in Nat \ {0}
  PROVE  /\ a \div b \in Nat /\ a % b \in 0..(b - 1)
         /\ a = b * (a \div b) + (a % b)
OBVIOUS

\* Quotient and remainder are unique.
LEMMA DividedOnce ==
  ASSUME NEW a \in Nat, NEW b \in Nat \ {0}, NEW q \in Nat, NEW r \in 0..(b - 1),
         a = b * q + r
  PROVE  a \div b = q /\ a % b = r
<1> DEFINE p == a \div b
           s == a % b
<1>1. p \in Nat /\ s \in 0..(b - 1) /\ a = b * p + s
  BY Divided
<1> HIDE DEF p, s
<1>2. b * q \in Nat /\ b * p \in Nat
  BY <1>1
<1>3. ~(q < p)
  <2> SUFFICES ASSUME q < p PROVE FALSE
    OBVIOUS
  <2>1. b * q + b <= b * p
    BY <1>1, Products
  <2> QED BY <1>1, <1>2, <2>1
<1>4. ~(p < q)
  <2> SUFFICES ASSUME p < q PROVE FALSE
    OBVIOUS
  <2>1. b * p + b <= b * q
    BY <1>1, Products
  <2> QED BY <1>1, <1>2, <2>1
<1>5. p = q
  BY <1>1, <1>3, <1>4
<1>6. s = r
  BY <1>1, <1>2, <1>5
<1> QED BY <1>5, <1>6 DEF p, s


LEMMA Weights ==
  /\ Weight[1] = 1 /\ Weight[2] = Base /\ Weight[3] = Base * Base
  /\ Weight[4] = Base * (Base * Base)
  /\ Base \in Nat \ {0} /\ Base * Base \in Nat \ {0}
  /\ Base * (Base * Base) \in Nat \ {0}
  /\ Base <= Base * Base /\ Base * Base <= Base * (Base * Base)
<1>1. Base \in Nat /\ Base >= 8
  BY ChunkAssumption
<1>2. Base * Base \in Nat /\ Base * 1 <= Base * Base
  BY <1>1, Products
<1>3. Base * (Base * Base) \in Nat /\ Base * Base <= Base * (Base * Base)
  BY <1>1, <1>2, Products
<1>4. Base * Base * Base = Base * (Base * Base)
  BY <1>1
<1> QED BY <1>1, <1>2, <1>3, <1>4 DEF Weight

Digit(v, k) == (v \div Weight[k]) % Base

\* The bytes of a number, the lowest first.
LEMMA Digits ==
  ASSUME NEW v \in Nat
  PROVE  /\ \A k \in 1..3 : Digit(v, k) \in 0..(Base - 1)
         /\ v < Weight[2] => Digit(v, 1) = v
         /\ v < Weight[3] => Digit(v, 1) + Base * Digit(v, 2) = v
         /\ v < Weight[4] =>
              Digit(v, 1) + Base * Digit(v, 2) + (Base * Base) * Digit(v, 3) = v
<1> DEFINE b == Base
           q == v \div b
           r == v % b
           p == q \div b
           s == q % b
           o == p \div b
           t == p % b
<1>1. b \in Nat \ {0} /\ b * b \in Nat \ {0}
  BY Weights
<1> HIDE DEF b
<1>2. q \in Nat /\ r \in 0..(b - 1) /\ v = b * q + r
  BY <1>1, Divided
<1> HIDE DEF q, r
<1>3. p \in Nat /\ s \in 0..(b - 1) /\ q = b * p + s
  BY <1>1, <1>2, Divided
<1> HIDE DEF p, s
<1>4. o \in Nat /\ t \in 0..(b - 1) /\ p = b * o + t
  BY <1>1, <1>3, Divided
<1> HIDE DEF o, t
<1>5. v \div 1 = v
  BY DividedOnce
<1>6. Digit(v, 1) = r
  BY <1>5, Weights DEF Digit, r, b
<1>7. Digit(v, 2) = s
  BY Weights DEF Digit, s, q, b
<1>8. v \div (b * b) = p
  <2> DEFINE m == b * s + r
  <2>1. b * s + b <= b * b
    BY <1>1, <1>3, Products
  <2>2. b * s \in Nat
    BY <1>1, <1>3, Products
  <2>3. m \in 0..(b * b - 1)
    BY <1>1, <1>2, <2>1, <2>2
  <2>4. b * (b * p + s) = (b * b) * p + b * s
    BY <1>1, <1>3
  <2>5. (b * b) * p \in Nat
    BY <1>1, <1>3, Products
  <2>6. v = (b * b) * p + m
    BY <1>2, <1>3, <2>2, <2>4, <2>5
  <2> HIDE DEF m
  <2> QED BY <1>1, <1>3, <2>3, <2>6, DividedOnce
<1>9. Digit(v, 3) = t
  BY <1>8, Weights DEF Digit, t, b
<1>10. ASSUME v < b PROVE r = v
  <2>1. q = 0 \/ b * 1 <= b * q
    BY <1>1, <1>2, Products
  <2>2. b * 1 = b /\ b * 0 = 0
    BY <1>1
  <2> QED BY <1>1, <1>2, <1>10, <2>1, <2>2
<1>11. b * (b * p + s) = (b * b) * p + b * s /\ (b * b) * p \in Nat /\ b * s \in Nat
  BY <1>1, <1>3
<1>12. v = (b * b) * p + b * s + r
  BY <1>2, <1>3, <1>11
<1>13. ASSUME v < b * b PROVE r + b * s = v
  <2> DEFINE w == b * b
             x == b * s
  <2>1. w \in Nat \ {0} /\ x \in Nat /\ r \in Nat
    BY <1>1, <1>2, <1>11
  <2>2. v = w * p + x + r /\ v < w
    BY <1>12, <1>13
  <2> HIDE DEF w, x
  <2>3. p = 0 \/ w * 1 <= w * p
    BY <1>3, <2>1, Products
  <2>4. w * 1 = w /\ w * 0 = 0 /\ w * p \in Nat
    BY <1>3, <2>1, Products
  <2>5. p = 0
    BY <1>3, <2>1, <2>2, <2>3, <2>4
  <2>6. r + x = v
    BY <2>1, <2>2, <2>4, <2>5
  <2> QED BY <2>6 DEF x
<1>14. ASSUME v < b * (b * b) PROVE r + b * s + (b * b) * t = v
  <2> DEFINE w == b * b
  <2>1. w \in Nat \ {0} /\ b * w \in Nat /\ w * b = b * w
    BY <1>1
  <2>2. w * (b * o + t) = (w * b) * o + w * t /\ w * t \in Nat
    BY <1>1, <1>4, <2>1
  <2>3. (b * w) * o \in Nat
    BY <1>4, <2>1, Products
  <2>4. v = (b * w) * o + w * t + b * s + r
    BY <1>2, <1>4, <1>11, <1>12, <2>1, <2>2, <2>3
  <2> HIDE DEF w
  <2>5. o = 0 \/ (b * w) * 1 <= (b * w) * o
    BY <1>4, <2>1, Products
  <2>6. (b * w) * 1 = b * w /\ (b * w) * 0 = 0
    BY <2>1
  <2>7. v < b * w
    BY <1>14 DEF w
  <2>8. r \in Nat /\ b * s \in Nat
    BY <1>1, <1>2, <1>11
  <2>9. o = 0
    BY <1>4, <2>1, <2>2, <2>3, <2>4, <2>5, <2>6, <2>7, <2>8
  <2>10. r + b * s + w * t = v
    BY <1>4, <2>2, <2>4, <2>6, <2>8, <2>9
  <2> QED BY <2>10 DEF w
<1>15. \A k \in 1..3 : Digit(v, k) \in 0..(Base - 1)
  BY <1>2, <1>3, <1>4, <1>6, <1>7, <1>9 DEF b
<1> QED BY <1>6, <1>7, <1>9, <1>10, <1>13, <1>14, <1>15, Weights DEF b


-----------------------------------------------------------------------------
(***************************************************************************)
(* Operands: a number is read as it was written.                           *)
(***************************************************************************)
AllBytes == 0..(Base - 1)

LEMMA DigitsAreBytes ==
  ASSUME NEW v \in Nat, NEW k \in 1..3
  PROVE  Digit(v, k) \in AllBytes /\ Digit(v, k) \in Nat
<1>1. Digit(v, k) \in 0..(Base - 1)
  BY Digits
<1> QED BY <1>1, Weights DEF AllBytes

LEMMA WrittenOperand ==
  ASSUME NEW n \in 0..3, NEW v \in Nat
  PROVE  LET w == write_multibyte_operand(n, v)
         IN /\ w \in Seq(AllBytes) /\ Len(w) = n
            /\ \A k \in 1..n : w[k] = Digit(v, k)
<1> DEFINE w == write_multibyte_operand(n, v)
<1>1. w = [k \in 1..n |-> Digit(v, k)]
  BY DEF write_multibyte_operand, Digit
<1>2. ASSUME NEW k \in 1..n PROVE Digit(v, k) \in AllBytes
  <2>1. k \in 1..3
    OBVIOUS
  <2> QED BY <2>1, DigitsAreBytes
<1>3. w \in [1..n -> AllBytes]
  BY <1>1, <1>2
<1> HIDE DEF w
<1>4. w \in Seq(AllBytes) /\ Len(w) = n
  BY <1>3
<1> QED BY <1>1, <1>4 DEF w

LEMMA OperandRead ==
  ASSUME NEW n \in 0..3, NEW v \in Nat, v < Weight[n + 1], NEW offset \in Nat,
         \A k \in 1..n : code[offset + k] = Digit(v, k)
  PROVE  read_multibyte_operand(n, offset) = v
<1>1. Byte(offset + 0) = code[offset + 1] /\ Byte(offset + 1) = code[offset + 2]
      /\ Byte(offset + 2) = code[offset + 3]
  BY DEF Byte
<1>2. /\ Digit(v, 1) \in Nat /\ Digit(v, 2) \in Nat /\ Digit(v, 3) \in Nat
      /\ Base \in Nat /\ Base * Base \in Nat
  <2>1. 1 \in 1..3 /\ 2 \in 1..3 /\ 3 \in 1..3
    OBVIOUS
  <2> QED BY <2>1, DigitsAreBytes, Weights
<1>3. /\ Weight[0 + 1] = 1 /\ Weight[1 + 1] = Base /\ Weight[2 + 1] = Base * Base
      /\ Weight[3 + 1] = Weight[4]
  BY Weights
<1>4. CASE n = 0
  BY <1>3, <1>4 DEF read_multibyte_operand
<1>5. CASE n = 1
  <2>1. read_multibyte_operand(n, offset) = Byte(offset + 0) * Weight[0 + 1]
    BY <1>5 DEF read_multibyte_operand
  <2>2. Byte(offset + 0) = Digit(v, 1)
    BY <1>1, <1>5
  <2>3. v < Weight[2]
    BY <1>5
  <2>4. Digit(v, 1) = v
    BY <2>3, Digits
  <2> QED BY <1>2, <1>3, <2>1, <2>2, <2>4
<1>6. CASE n = 2
  <2>1. read_multibyte_operand(n, offset)
          = Byte(offset + 0) * Weight[0 + 1] + Byte(offset + 1) * Weight[1 + 1]
    BY <1>6 DEF read_multibyte_operand
  <2>2. Byte(offset + 0) = Digit(v, 1) /\ Byte(offset + 1) = Digit(v, 2)
    BY <1>1, <1>6
  <2>3. Digit(v, 1) + Base * Digit(v, 2) = v
    BY <1>3, <1>6, Digits, Weights
  <2> QED BY <1>2, <1>3, <2>1, <2>2, <2>3
<1>7. CASE n = 3
  <2>1. read_multibyte_operand(n, offset)
          = Byte(offset + 0) * Weight[0 + 1] + Byte(offset + 1) * Weight[1 + 1]
              + Byte(offset + 2) * Weight[2 + 1]
    BY <1>7 DEF read_multibyte_operand
  <2>2. /\ Byte(offset + 0) = Digit(v, 1) /\ Byte(offset + 1) = Digit(v, 2)
        /\ Byte(offset + 2) = Digit(v, 3)
    BY <1>1, <1>7
  <2>3. Digit(v, 1) + Base * Digit(v, 2) + (Base * Base) * Digit(v, 3) = v
    BY <1>3, <1>7, Digits, Weights
  <2> DEFINE w == Base * Base
  <2>4. w \in Nat /\ Digit(v, 1) + Base * Digit(v, 2) + w * Digit(v, 3) = v
        /\ Weight[2 + 1] = w
    BY <1>2, <1>3, <2>3
  <2> HIDE DEF w
  <2>5. Digit(v, 3) * w = w * Digit(v, 3) /\ Digit(v, 2) * Base = Base * Digit(v, 2)
        /\ Digit(v, 1) * 1 = Digit(v, 1)
    BY <1>2, <2>4
  <2>6. read_multibyte_operand(n, offset)
          = Digit(v, 1) * 1 + Digit(v, 2) * Base + Digit(v, 3) * w
    BY <1>3, <2>1, <2>2, <2>4
  <2> QED BY <2>4, <2>5, <2>6
<1> QED BY <1>4, <1>5, <1>6, <1>7


-----------------------------------------------------------------------------
(***************************************************************************)
(* Functions defined step after step exist.                                *)
(***************************************************************************)
Follows(f, start, step, n) ==
  f[0] = start /\ \A k \in 1..n : f[k] = step[<<k, f[k - 1]>>]

LEMMA StepByStep ==
  ASSUME NEW D, NEW start \in D, NEW step \in [Nat \X D -> D], NEW n \in Nat
  PROVE  \E f \in [0..n -> D] : Follows(f, start, step, n)
<1> DEFINE Right(m, f) == f[0] = start /\ \A k \in 1..m : f[k] = step[<<k, f[k - 1]>>]
           S == {m \in Nat : \E f \in [0..m -> D] : Right(m, f)}
<1>1. 0 \in S
  <2>1. [k \in 0..0 |-> start] \in [0..0 -> D] /\ Right(0, [k \in 0..0 |-> start])
    OBVIOUS
  <2> QED BY <2>1
<1>2. ASSUME NEW m \in Nat, m \in S PROVE m + 1 \in S
  <2>1. PICK f \in [0..m -> D] : Right(m, f)
    BY <1>2
  <2> DEFINE next == step[<<m + 1, f[m]>>]
             g == [k \in 0..(m + 1) |-> IF k = m + 1 THEN next ELSE f[k]]
  <2>2. f[m] \in D /\ <<m + 1, f[m]>> \in Nat \X D
    OBVIOUS
  <2>3. next \in D
    BY <2>2
  <2>4. g \in [0..(m + 1) -> D]
    BY <2>3
  <2>5. \A k \in 0..m : g[k] = f[k]
    OBVIOUS
  <2>6. g[m + 1] = next
    OBVIOUS
  <2> HIDE DEF g
  <2>7. g[0] = start
    BY <2>1, <2>5
  <2>8. ASSUME NEW k \in 1..(m + 1) PROVE g[k] = step[<<k, g[k - 1]>>]
    <3>1. k - 1 \in 0..m /\ g[k - 1] = f[k - 1]
      BY <2>5
    <3>2. CASE k = m + 1
      <4>1. k - 1 = m
        BY <3>2
      <4> QED BY <2>6, <3>1, <3>2, <4>1
    <3>3. CASE k # m + 1
      BY <2>1, <2>5, <3>1, <3>3
    <3> QED BY <3>2, <3>3
  <2>9. Right(m + 1, g)
    BY <2>7, <2>8
  <2> QED BY <2>4, <2>9
<1>3. n \in S
  <2> HIDE DEF S
  <2> QED BY <1>1, <1>2, SetInduction
<1> QED BY <1>3 DEF Follows

\* What FlattenSeq has put together after each of the sequences.
LEMMA Flattened ==
  ASSUME NEW T, NEW ss \in Seq(Seq(T))
  PROVE  \E f \in [0..Len(ss) -> Seq(T)] :
           /\ f[0] = <<>>
           /\ \A i \in 1..Len(ss) : f[i] = f[i - 1] \o ss[i]
           /\ FlattenSeq(ss) = f[Len(ss)]
<1> DEFINE n == Len(ss)
           step == [p \in Nat \X Seq(T) |-> IF p[1] \in 1..n THEN p[2] \o ss[p[1]]
                                            ELSE p[2]]
<1>1. n \in Nat /\ \A i \in 1..n : ss[i] \in Seq(T)
  OBVIOUS
<1>2. step \in [Nat \X Seq(T) -> Seq(T)]
  <2> SUFFICES ASSUME NEW p \in Nat \X Seq(T)
               PROVE  (IF p[1] \in 1..n THEN p[2] \o ss[p[1]] ELSE p[2]) \in Seq(T)
    OBVIOUS
  <2>1. p[2] \in Seq(T)
    OBVIOUS
  <2>2. ASSUME p[1] \in 1..n PROVE p[2] \o ss[p[1]] \in Seq(T)
    BY <1>1, <2>1, <2>2, ConcatProperties
  <2> QED BY <2>1, <2>2
<1>3. <<>> \in Seq(T)
  OBVIOUS
<1> DEFINE D == Seq(T)
           start == <<>>
<1>4. PICK f \in [0..n -> Seq(T)] :
        f[0] = <<>> /\ \A k \in 1..n : f[k] = step[<<k, f[k - 1]>>]
  <2>1. start \in D /\ step \in [Nat \X D -> D] /\ n \in Nat
    BY <1>1, <1>2, <1>3
  <2> HIDE DEF step, D, start, n
  <2>2. \E f \in [0..n -> D] : Follows(f, start, step, n)
    BY <2>1, StepByStep
  <2> QED BY <2>2 DEF D, start, Follows
<1>5. \A k \in 1..n : f[k] = f[k - 1] \o ss[k]
  <2> TAKE k \in 1..n
  <2>1. k \in Nat /\ f[k - 1] \in Seq(T)
    OBVIOUS
  <2>2. <<k, f[k - 1]>> \in Nat \X Seq(T)
    BY <2>1
  <2>3. step[<<k, f[k - 1]>>] = f[k - 1] \o ss[k]
    BY <2>2
  <2> QED BY <1>4, <2>3
<1> HIDE DEF step
<1>6. CASE n = 0
  <2>1. ss = <<>>
    BY <1>6
  <2>2. FlattenSeq(ss) = <<>>
    BY <2>1, <1>6 DEF FlattenSeq
  <2> QED BY <1>4, <1>5, <1>6, <2>2
<1>7. CASE n # 0
  <2> DEFINE Rec(g) == g = [i \in 1..n |-> IF i = 1 THEN ss[i] ELSE g[i - 1] \o ss[i]]
             flatten == CHOOSE g : Rec(g)
  <2>1. FlattenSeq(ss) = flatten[n]
    BY <1>7 DEF FlattenSeq
  <2>2. f[1] = ss[1]
    <3>1. 1 \in 1..n /\ ss[1] \in Seq(T)
      BY <1>1, <1>7
    <3>2. f[1] = f[1 - 1] \o ss[1]
      BY <1>5, <3>1, Zenon
    <3>4. 1 - 1 = 0
      OBVIOUS
    <3>3. f[1] = <<>> \o ss[1]
      BY <1>4, <3>2, <3>4, Zenon
    <3> QED BY <3>1, <3>3, ConcatEmptySeq
  <2>3. Rec([i \in 1..n |-> f[i]])
    <3> DEFINE g == [i \in 1..n |-> f[i]]
    <3>1. ASSUME NEW i \in 1..n
          PROVE  g[i] = IF i = 1 THEN ss[i] ELSE g[i - 1] \o ss[i]
      <4>1. CASE i = 1
        BY <2>2, <4>1
      <4>2. CASE i # 1
        <5>1. i - 1 \in 1..n
          BY <4>2
        <5>2. g[i - 1] = f[i - 1] /\ g[i] = f[i]
          BY <5>1
        <5> QED BY <1>5, <4>2, <5>2
      <4> QED BY <4>1, <4>2
    <3>2. g = [i \in 1..n |-> g[i]]
      OBVIOUS
    <3> HIDE DEF g
    <3>3. [i \in 1..n |-> g[i]]
            = [i \in 1..n |-> IF i = 1 THEN ss[i] ELSE g[i - 1] \o ss[i]]
      BY <3>1
    <3>4. Rec(g)
      BY <3>2, <3>3
    <3> QED BY <3>4 DEF g
  <2>4. Rec(flatten)
    <3> HIDE DEF Rec
    <3> QED BY <2>3, Zenon
  <2> HIDE DEF flatten
  <2>5. \A i \in 1..n : flatten[i] = IF i = 1 THEN ss[i] ELSE flatten[i - 1] \o ss[i]
    <3> DEFINE h == [i \in 1..n |-> IF i = 1 THEN ss[i] ELSE flatten[i - 1] \o ss[i]]
    <3>1. flatten = h
      BY <2>4
    <3>2. \A i \in 1..n : h[i] = IF i = 1 THEN ss[i] ELSE flatten[i - 1] \o ss[i]
      OBVIOUS
    <3> HIDE DEF h
    <3> QED BY <3>1, <3>2
  <2> DEFINE S == {i \in Nat : i \in 1..n => flatten[i] = f[i]}
  <2>6. 0 \in S
    OBVIOUS
  <2>7. ASSUME NEW i \in Nat, i \in S PROVE i + 1 \in S
    <3> SUFFICES ASSUME i + 1 \in 1..n PROVE flatten[i + 1] = f[i + 1]
      OBVIOUS
    <3>1. CASE i = 0
      BY <2>2, <2>5, <3>1
    <3>2. CASE i # 0
      <4>1. i \in 1..n /\ i + 1 # 1 /\ (i + 1) - 1 = i
        BY <3>2
      <4>2. flatten[i + 1] = flatten[i] \o ss[i + 1]
        BY <2>5, <4>1
      <4>3. f[i + 1] = f[i] \o ss[i + 1]
        BY <1>5, <4>1
      <4> QED BY <2>7, <4>1, <4>2, <4>3
    <3> QED BY <3>1, <3>2
  <2>8. n \in S
    <3> HIDE DEF S
    <3> QED BY <1>1, <2>6, <2>7, SetInduction
  <2>9. flatten[n] = f[n]
    BY <1>1, <1>7, <2>8
  <2> QED BY <1>4, <1>5, <2>1, <2>9
<1> QED BY <1>6, <1>7


-----------------------------------------------------------------------------
(***************************************************************************)
(* The bytes of an instruction.                                            *)
(***************************************************************************)
Upvalue == BOOLEAN \X (0..(Weight[4] - 1))

LEMMA OpcodesAreBytes ==
  0..7 \subseteq AllBytes /\ Base \in Nat /\ Base >= 8
BY ChunkAssumption DEF AllBytes

LEMMA Flags ==
  ASSUME NEW n \in 1..3
  PROVE  /\ LocalFlag \in Nat /\ LocalFlag > 3
         /\ n \in AllBytes /\ n % LocalFlag = n /\ ~(n >= LocalFlag)
         /\ LocalFlag + n \in AllBytes /\ (LocalFlag + n) % LocalFlag = n
         /\ LocalFlag + n >= LocalFlag
<1> DEFINE f == LocalFlag
<1>1. Base \in Nat /\ Base >= 8
  BY ChunkAssumption
<1>2. f \in Nat /\ Base = 2 * f + (Base % 2) /\ Base % 2 \in 0..(2 - 1)
  BY <1>1, Divided DEF LocalFlag
<1>3. f > 3 /\ f \in Nat \ {0}
  BY <1>1, <1>2
<1>4. f + n <= Base - 1
  BY <1>1, <1>2, <1>3
<1> HIDE DEF f
<1>5. n = f * 0 + n /\ n \in 0..(f - 1)
  BY <1>3
<1>6. n % f = n
  BY <1>3, <1>5, DividedOnce
<1>7. f + n = f * 1 + n /\ f + n \in Nat
  BY <1>3
<1>8. (f + n) % f = n
  BY <1>3, <1>5, <1>7, DividedOnce
<1>9. n \in AllBytes /\ f + n \in AllBytes
  BY <1>1, <1>2, <1>4 DEF AllBytes
<1> QED BY <1>3, <1>5, <1>6, <1>8, <1>9 DEF f

LEMMA IndexLengths ==
  ASSUME NEW index \in 0..(Weight[4] - 1)
  PROVE  /\ IndexLength(index) \in 1..3 /\ index \in Nat
         /\ index < Weight[IndexLength(index) + 1]
<1>1. Weight[4] \in Nat /\ index \in Nat /\ index < Weight[4]
  BY Weights
<1>2. CASE index < Weight[2]
  BY <1>1, <1>2 DEF IndexLength
<1>3. CASE ~(index < Weight[2]) /\ index < Weight[3]
  BY <1>1, <1>3 DEF IndexLength
<1>4. CASE ~(index < Weight[2]) /\ ~(index < Weight[3])
  BY <1>1, <1>4 DEF IndexLength
<1> QED BY <1>2, <1>3, <1>4

\* A byte in front of some bytes.
LEMMA Prefixed ==
  ASSUME NEW b \in AllBytes, NEW s \in Seq(AllBytes)
  PROVE  /\ <<b>> \o s \in Seq(AllBytes) /\ Len(<<b>> \o s) = 1 + Len(s)
         /\ (<<b>> \o s)[1] = b /\ \A k \in 1..Len(s) : (<<b>> \o s)[1 + k] = s[k]
<1>1. <<b>> \in Seq(AllBytes) /\ Len(<<b>>) = 1 /\ <<b>>[1] = b /\ Len(s) \in Nat
  OBVIOUS
<1> DEFINE p == <<b>>
           t == p \o s
<1> HIDE DEF p
<1>2. /\ t \in Seq(AllBytes) /\ Len(t) = Len(p) + Len(s)
      /\ \A i \in 1..(Len(p) + Len(s)) :
           t[i] = IF i <= Len(p) THEN p[i] ELSE s[i - Len(p)]
  BY <1>1, ConcatProperties DEF p
<1>3. Len(p) = 1 /\ p[1] = b
  BY <1>1 DEF p
<1> HIDE DEF t
<1>4. t[1] = b
  BY <1>1, <1>2, <1>3
<1>5. ASSUME NEW k \in 1..Len(s) PROVE t[1 + k] = s[k]
  <2>1. 1 + k \in 1..(Len(p) + Len(s)) /\ ~(1 + k <= Len(p)) /\ 1 + k - Len(p) = k
    BY <1>1, <1>3
  <2> QED BY <1>2, <2>1
<1> QED BY <1>2, <1>3, <1>4, <1>5 DEF t, p

\* What a closure captures: the byte that says how long the index is, and the
\* index.
LEMMA ClosureOperandWritten ==
  ASSUME NEW u \in Upvalue
  PROVE  LET n == IndexLength(u[2])
             w == ClosureOperand(u)
         IN /\ w \in Seq(AllBytes) /\ Len(w) = 1 + n
            /\ w[1] % LocalFlag = n /\ (w[1] >= LocalFlag <=> u[1])
            /\ \A k \in 1..n : w[1 + k] = Digit(u[2], k)
<1> DEFINE n == IndexLength(u[2])
           b == (IF u[1] THEN LocalFlag ELSE 0) + n
           d == write_multibyte_operand(n, u[2])
<1>1. u[1] \in BOOLEAN /\ u[2] \in 0..(Weight[4] - 1)
  BY DEF Upvalue
<1>2. n \in 1..3 /\ n \in 0..3 /\ u[2] \in Nat
  <2>1. n \in 1..3 /\ u[2] \in Nat
    BY <1>1, IndexLengths
  <2> HIDE DEF n
  <2> QED BY <2>1
<1>3. ClosureOperand(u) = <<b>> \o d
  BY DEF ClosureOperand
<1>4. d \in Seq(AllBytes) /\ Len(d) = n /\ \A k \in 1..n : d[k] = Digit(u[2], k)
  BY <1>2, WrittenOperand
<1> HIDE DEF n, d
<1>5. b \in AllBytes /\ b % LocalFlag = n /\ (b >= LocalFlag <=> u[1])
  <2>1. CASE u[1]
    <3>1. b = LocalFlag + n
      BY <2>1
    <3> QED BY <1>2, <2>1, <3>1, Flags
  <2>2. CASE ~u[1]
    <3>1. b = n
      BY <1>2, <2>2
    <3> QED BY <1>2, <2>2, <3>1, Flags
  <2> QED BY <2>1, <2>2
<1> HIDE DEF b
<1> DEFINE w == <<b>> \o d
<1>6. /\ w \in Seq(AllBytes) /\ Len(w) = 1 + Len(d)
      /\ w[1] = b /\ \A k \in 1..Len(d) : w[1 + k] = d[k]
  BY <1>4, <1>5, Prefixed
<1> HIDE DEF w
<1>7. /\ w \in Seq(AllBytes) /\ Len(w) = 1 + n
      /\ w[1] % LocalFlag = n /\ (w[1] >= LocalFlag <=> u[1])
      /\ \A k \in 1..n : w[1 + k] = Digit(u[2], k)
  BY <1>4, <1>5, <1>6
<1> QED BY <1>3, <1>7 DEF n, w


-----------------------------------------------------------------------------
(***************************************************************************)
(* What FlattenSeq puts together is found again: p[i] is where part i ends.*)
(***************************************************************************)
Parts(p, ss, flat) ==
  /\ p[0] = 0 /\ p[Len(ss)] = Len(flat)
  /\ \A i \in 1..Len(ss) :
       /\ p[i] = p[i - 1] + Len(ss[i]) /\ p[i] <= Len(flat)
       /\ \A k \in 1..Len(ss[i]) : flat[p[i - 1] + k] = ss[i][k]

LEMMA FlattenedParts ==
  ASSUME NEW T, NEW ss \in Seq(Seq(T))
  PROVE  /\ FlattenSeq(ss) \in Seq(T)
         /\ \E p \in [0..Len(ss) -> Nat] : Parts(p, ss, FlattenSeq(ss))
<1> DEFINE n == Len(ss)
<1>1. n \in Nat /\ \A i \in 1..n : ss[i] \in Seq(T)
  OBVIOUS
<1>2. PICK f \in [0..n -> Seq(T)] :
        /\ f[0] = <<>>
        /\ \A i \in 1..n : f[i] = f[i - 1] \o ss[i]
        /\ FlattenSeq(ss) = f[n]
  BY Flattened
<1> HIDE DEF n
<1> DEFINE p == [i \in 0..n |-> Len(f[i])]
<1>3. \A i \in 0..n : f[i] \in Seq(T) /\ p[i] = Len(f[i]) /\ p[i] \in Nat
  <2> TAKE i \in 0..n
  <2>1. f[i] \in Seq(T)
    OBVIOUS
  <2>2. p[i] = Len(f[i])
    OBVIOUS
  <2>3. Len(f[i]) \in Nat
    BY <2>1
  <2> QED BY <2>1, <2>2, <2>3
<1>4. ASSUME NEW i \in 1..n
      PROVE  /\ p[i] = p[i - 1] + Len(ss[i])
             /\ \A k \in 1..p[i] :
                  f[i][k] = IF k <= p[i - 1] THEN f[i - 1][k] ELSE ss[i][k - p[i - 1]]
  <2>1. i - 1 \in 0..n /\ i \in 0..n
    BY <1>1
  <2>2. f[i - 1] \in Seq(T) /\ ss[i] \in Seq(T) /\ f[i] = f[i - 1] \o ss[i]
    BY <1>1, <1>2, <2>1
  <2> DEFINE s == f[i - 1]
             t == ss[i]
  <2>3. /\ Len(s \o t) = Len(s) + Len(t)
        /\ \A k \in 1..(Len(s) + Len(t)) :
             (s \o t)[k] = IF k <= Len(s) THEN s[k] ELSE t[k - Len(s)]
    BY <2>2, ConcatProperties
  <2>4. p[i] = Len(f[i]) /\ p[i - 1] = Len(s)
    BY <2>1
  <2> HIDE DEF p, s, t
  <2>5. f[i] = s \o t
    BY <2>2 DEF s, t
  <2>6. p[i] = p[i - 1] + Len(t)
    BY <2>3, <2>4, <2>5
  <2>7. \A k \in 1..p[i] : f[i][k] = IF k <= p[i - 1] THEN s[k] ELSE t[k - p[i - 1]]
    BY <2>3, <2>4, <2>5, <2>6
  <2> QED BY <2>6, <2>7 DEF s, t
<1> HIDE DEF p
<1> DEFINE S == {m \in Nat : m <= n =>
             \A i \in 0..m : p[i] <= p[m] /\ \A k \in 1..p[i] : f[m][k] = f[i][k]}
<1>5. 0 \in S
  <2>1. \A i \in 0..0 : i = 0
    OBVIOUS
  <2> QED BY <1>1, <1>3, <2>1
<1>6. ASSUME NEW m \in Nat, m \in S PROVE m + 1 \in S
  <2> SUFFICES ASSUME m + 1 <= n, NEW i \in 0..(m + 1)
               PROVE  p[i] <= p[m + 1] /\ \A k \in 1..p[i] : f[m + 1][k] = f[i][k]
    OBVIOUS
  <2>1. CASE i = m + 1
    <3>1. p[i] \in Nat
      BY <1>1, <1>3
    <3> QED BY <2>1, <3>1
  <2>2. CASE i # m + 1
    <3>1. m + 1 \in 1..n /\ (m + 1) - 1 = m /\ i \in 0..m /\ m \in 0..n /\ i \in 0..n
          /\ m + 1 \in 0..n /\ m <= n
      BY <1>1, <2>2
    <3>2. p[i] <= p[m] /\ \A k \in 1..p[i] : f[m][k] = f[i][k]
      BY <1>6, <3>1
    <3>3. /\ p[m + 1] = p[m] + Len(ss[m + 1])
          /\ \A k \in 1..p[m + 1] :
               f[m + 1][k] = IF k <= p[m] THEN f[m][k] ELSE ss[m + 1][k - p[m]]
      <4>1. /\ p[m + 1] = p[(m + 1) - 1] + Len(ss[m + 1])
            /\ \A k \in 1..p[m + 1] :
                 f[m + 1][k] = IF k <= p[(m + 1) - 1] THEN f[(m + 1) - 1][k]
                               ELSE ss[m + 1][k - p[(m + 1) - 1]]
        BY <1>4, <3>1, Zenon
      <4> QED BY <3>1, <4>1
    <3>4. p[i] \in Nat /\ p[m] \in Nat /\ p[m + 1] \in Nat /\ Len(ss[m + 1]) \in Nat
      <4>1. ss[m + 1] \in Seq(T)
        BY <1>1, <3>1, Zenon
      <4>2. Len(ss[m + 1]) \in Nat
        BY <4>1
      <4> QED BY <1>3, <3>1, <4>2, Zenon
    <3>5. p[i] <= p[m + 1]
      BY <3>2, <3>3, <3>4
    <3>6. ASSUME NEW k \in 1..p[i] PROVE f[m + 1][k] = f[i][k]
      <4>1. k \in 1..p[m + 1] /\ k <= p[m]
        BY <3>2, <3>4, <3>5
      <4> QED BY <3>2, <3>3, <4>1
    <3> QED BY <3>5, <3>6
  <2> QED BY <2>1, <2>2
<1>7. \A i \in 0..n : p[i] <= p[n] /\ \A k \in 1..p[i] : f[n][k] = f[i][k]
  <2>1. n \in S
    <3> HIDE DEF S
    <3> QED BY <1>1, <1>5, <1>6, SetInduction
  <2> QED BY <1>1, <2>1
<1> DEFINE flat == FlattenSeq(ss)
<1>8. flat = f[n] /\ n \in 0..n /\ 0 \in 0..n /\ flat \in Seq(T)
  BY <1>1, <1>2, <1>3
<1>9. p[n] = Len(flat) /\ p[0] = 0
  BY <1>2, <1>3, <1>8
<1> HIDE DEF flat
<1>10. ASSUME NEW i \in 1..n
       PROVE  /\ p[i] = p[i - 1] + Len(ss[i]) /\ p[i] <= Len(flat)
              /\ \A k \in 1..Len(ss[i]) : flat[p[i - 1] + k] = ss[i][k]
  <2>1. i - 1 \in 0..n /\ i \in 0..n
    BY <1>1
  <2>2. p[i] \in Nat /\ p[i - 1] \in Nat /\ Len(ss[i]) \in Nat
    BY <1>1, <1>3, <2>1
  <2>3. p[i] = p[i - 1] + Len(ss[i]) /\ p[i] <= Len(flat)
    BY <1>4, <1>7, <1>9, <2>1
  <2>4. ASSUME NEW k \in 1..Len(ss[i]) PROVE flat[p[i - 1] + k] = ss[i][k]
    <3> DEFINE j == p[i - 1] + k
    <3>1. j \in 1..p[i] /\ ~(j <= p[i - 1]) /\ j - p[i - 1] = k
      BY <2>2, <2>3
    <3> HIDE DEF j
    <3>2. flat[j] = f[i][j]
      BY <1>7, <1>8, <2>1, <3>1
    <3>3. f[i][j] = ss[i][j - p[i - 1]]
      BY <1>4, <3>1
    <3> QED BY <3>1, <3>2, <3>3 DEF j
  <2> QED BY <2>3, <2>4
<1>11. p \in [0..n -> Nat]
  BY <1>3 DEF p
<1>12. Parts(p, ss, flat)
  BY <1>9, <1>10 DEF Parts, n
<1> QED BY <1>8, <1>11, <1>12 DEF flat, n


UpvalueBytes(us) == FlattenSeq([i \in DOMAIN us |-> ClosureOperand(us[i])])

\* p[i] is where operand i ends.
UpvalueParts(p, us) ==
  /\ p[0] = 0 /\ p[Len(us)] = Len(UpvalueBytes(us))
  /\ \A i \in 1..Len(us) :
       /\ p[i] = p[i - 1] + 1 + IndexLength(us[i][2])
       /\ p[i] <= Len(UpvalueBytes(us))
       /\ \A k \in 1..(1 + IndexLength(us[i][2])) :
            UpvalueBytes(us)[p[i - 1] + k] = ClosureOperand(us[i])[k]

LEMMA UpvaluesWritten ==
  ASSUME NEW us \in Seq(Upvalue)
  PROVE  /\ UpvalueBytes(us) \in Seq(AllBytes)
         /\ \E p \in [0..Len(us) -> Nat] : UpvalueParts(p, us)
<1> DEFINE ss == [i \in DOMAIN us |-> ClosureOperand(us[i])]
<1>1. Len(us) \in Nat /\ DOMAIN us = 1..Len(us) /\ \A i \in 1..Len(us) : us[i] \in Upvalue
  OBVIOUS
<1>2. ASSUME NEW i \in 1..Len(us)
      PROVE  /\ ClosureOperand(us[i]) \in Seq(AllBytes)
             /\ Len(ClosureOperand(us[i])) = 1 + IndexLength(us[i][2])
  BY <1>1, ClosureOperandWritten
<1>3. /\ ss \in Seq(Seq(AllBytes)) /\ Len(ss) = Len(us)
      /\ \A i \in 1..Len(us) : ss[i] = ClosureOperand(us[i])
  <2>1. ss \in [1..Len(us) -> Seq(AllBytes)]
    BY <1>1, <1>2
  <2> HIDE DEF ss
  <2>2. ss \in Seq(Seq(AllBytes)) /\ Len(ss) = Len(us)
    BY <1>1, <2>1
  <2> QED BY <1>1, <2>2 DEF ss
<1>4. UpvalueBytes(us) = FlattenSeq(ss)
  BY DEF UpvalueBytes
<1> HIDE DEF ss
<1>5. FlattenSeq(ss) \in Seq(AllBytes)
  BY <1>3, FlattenedParts
<1>6. PICK p \in [0..Len(ss) -> Nat] : Parts(p, ss, FlattenSeq(ss))
  BY <1>3, FlattenedParts
<1> DEFINE flat == FlattenSeq(ss)
<1> HIDE DEF flat
<1>7. /\ p[0] = 0 /\ p[Len(us)] = Len(flat)
      /\ \A i \in 1..Len(us) :
           /\ p[i] = p[i - 1] + Len(ss[i]) /\ p[i] <= Len(flat)
           /\ \A k \in 1..Len(ss[i]) : flat[p[i - 1] + k] = ss[i][k]
  BY <1>3, <1>6 DEF Parts, flat
<1>8. ASSUME NEW i \in 1..Len(us)
      PROVE  /\ p[i] = p[i - 1] + 1 + IndexLength(us[i][2])
             /\ p[i] <= Len(flat)
             /\ \A k \in 1..(1 + IndexLength(us[i][2])) :
                  flat[p[i - 1] + k] = ClosureOperand(us[i])[k]
  <2>1. Len(ss[i]) = 1 + IndexLength(us[i][2]) /\ ss[i] = ClosureOperand(us[i])
    BY <1>2, <1>3
  <2>2. /\ p[i] = p[i - 1] + Len(ss[i]) /\ p[i] <= Len(flat)
        /\ \A k \in 1..Len(ss[i]) : flat[p[i - 1] + k] = ss[i][k]
    BY <1>7
  <2>3. p[i - 1] \in Nat /\ IndexLength(us[i][2]) \in Nat
    <3>1. i - 1 \in 0..Len(ss)
      BY <1>1, <1>3
    <3>2. us[i][2] \in 0..(Weight[4] - 1)
      BY <1>1 DEF Upvalue
    <3>3. IndexLength(us[i][2]) \in 1..3
      BY <3>2, IndexLengths
    <3> QED BY <3>1, <3>3
  <2> DEFINE len == IndexLength(us[i][2])
             w == ClosureOperand(us[i])
             q == p[i - 1]
  <2>4. Len(ss[i]) = 1 + len /\ ss[i] = w /\ q \in Nat /\ len \in Nat
    BY <2>1, <2>3
  <2>5. /\ p[i] = q + Len(ss[i]) /\ p[i] <= Len(flat)
        /\ \A k \in 1..Len(ss[i]) : flat[q + k] = ss[i][k]
    BY <2>2
  <2> HIDE DEF len, w, q
  <2>6. p[i] = q + 1 + len /\ p[i] <= Len(flat)
    BY <2>4, <2>5
  <2>7. \A k \in 1..(1 + len) : flat[q + k] = w[k]
    BY <2>4, <2>5
  <2> QED BY <2>6, <2>7 DEF len, w, q
<1>9. flat = UpvalueBytes(us)
  BY <1>4 DEF flat
<1>10. UpvalueParts(p, us)
  BY <1>7, <1>8, <1>9 DEF UpvalueParts
<1> QED BY <1>3, <1>4, <1>5, <1>10

\* An instruction: the opcode, its operand, what it captures.
BytesRight(opc, n, operand, us, b) ==
  LET up == UpvalueBytes(us)
  IN /\ b \in Seq(AllBytes) /\ Len(b) = 1 + n + Len(up) /\ Len(up) \in Nat
     /\ b[1] = opc
     /\ \A k \in 1..n : b[1 + k] = Digit(operand, k)
     /\ \A k \in 1..Len(up) : b[1 + n + k] = up[k]

LEMMA BytesWritten ==
  ASSUME NEW opc \in AllBytes, NEW n \in 0..3, NEW operand \in Nat,
         NEW us \in Seq(Upvalue)
  PROVE  BytesRight(opc, n, operand, us, Bytes(opc, n, operand, us))
<1> DEFINE w == write_multibyte_operand(n, operand)
           s == <<opc>> \o w
           up == UpvalueBytes(us)
           t == s \o up
<1>1. w \in Seq(AllBytes) /\ Len(w) = n /\ \A k \in 1..n : w[k] = Digit(operand, k)
  BY WrittenOperand
<1>2. up \in Seq(AllBytes)
  BY UpvaluesWritten
<1>3. Bytes(opc, n, operand, us) = t
  BY DEF Bytes, UpvalueBytes
<1> HIDE DEF w, up
<1>4. /\ s \in Seq(AllBytes) /\ Len(s) = 1 + Len(w)
      /\ s[1] = opc /\ \A k \in 1..Len(w) : s[1 + k] = w[k]
  BY <1>1, Prefixed
<1> HIDE DEF s
<1>5. /\ t \in Seq(AllBytes) /\ Len(t) = Len(s) + Len(up)
      /\ \A i \in 1..(Len(s) + Len(up)) :
           t[i] = IF i <= Len(s) THEN s[i] ELSE up[i - Len(s)]
  <2>1. s \in Seq(AllBytes) /\ up \in Seq(AllBytes)
    BY <1>2, <1>4
  <2> QED BY <2>1, ConcatProperties
<1> HIDE DEF t
<1>6. Len(up) \in Nat /\ n \in Nat /\ Len(s) = 1 + n
  BY <1>1, <1>2, <1>4
<1>7. t[1] = opc
  BY <1>4, <1>5, <1>6
<1>8. ASSUME NEW k \in 1..n PROVE t[1 + k] = Digit(operand, k)
  <2>1. 1 + k \in 1..(Len(s) + Len(up)) /\ 1 + k <= Len(s)
    BY <1>6
  <2> QED BY <1>1, <1>4, <1>5, <2>1
<1>9. ASSUME NEW k \in 1..Len(up) PROVE t[1 + n + k] = up[k]
  <2>1. /\ 1 + n + k \in 1..(Len(s) + Len(up)) /\ ~(1 + n + k <= Len(s))
        /\ 1 + n + k - Len(s) = k
    BY <1>6
  <2> QED BY <1>5, <2>1
<1>10. Len(t) = 1 + n + Len(up)
  BY <1>5, <1>6
<1>11. BytesRight(opc, n, operand, us, t)
  BY <1>5, <1>6, <1>7, <1>8, <1>9, <1>10 DEF up, BytesRight
<1> QED BY <1>3, <1>11


-----------------------------------------------------------------------------
(***************************************************************************)
(* Walks over the code: what is found from an offset on is what is here,   *)
(* and what is found from the next one on.                                 *)
(***************************************************************************)
IsWalk(f, n, here, next) ==
  f = [o \in 0..n |-> IF o = n THEN {} ELSE here[o] \union f[next[o]]]

LEMMA WalkDefined ==
  ASSUME NEW n \in Nat, NEW here, NEW next,
         \A o \in 0..(n - 1) : next[o] \in (o + 1)..n
  PROVE  \E f : IsWalk(f, n, here, next)
<1> DEFINE Closed(C) == \A c \in C : c < n => next[c] \in C
           Reached(o) == {q \in 0..n : \A C \in SUBSET (0..n) :
                            (o \in C /\ Closed(C)) => q \in C}
           Found(o) == UNION {here[q] : q \in {p \in Reached(o) : p < n}}
           f == [o \in 0..n |-> Found(o)]
<1>1. ASSUME NEW o \in 0..n, o < n PROVE Reached(o) = {o} \union Reached(next[o])
  <2>1. next[o] \in 0..n /\ o \in 0..(n - 1)
    BY <1>1
  <2>2. o \in Reached(o)
    OBVIOUS
  <2>3. ASSUME NEW q \in Reached(next[o]) PROVE q \in Reached(o)
    <3>1. ASSUME NEW C \in SUBSET (0..n), o \in C, Closed(C) PROVE q \in C
      <4>1. next[o] \in C
        BY <1>1, <3>1
      <4> QED BY <3>1, <4>1
    <3> QED BY <3>1
  <2>4. ASSUME NEW q \in Reached(o), q # o PROVE q \in Reached(next[o])
    <3>1. ASSUME NEW C \in SUBSET (0..n), next[o] \in C, Closed(C) PROVE q \in C
      <4>1. (C \union {o}) \in SUBSET (0..n) /\ o \in C \union {o}
        OBVIOUS
      <4>2. Closed(C \union {o})
        BY <3>1
      <4>3. q \in C \union {o}
        BY <4>1, <4>2
      <4> QED BY <2>4, <4>3
    <3> QED BY <3>1
  <2> HIDE DEF Reached
  <2> QED BY <2>2, <2>3, <2>4
<1>2. ASSUME NEW o \in 0..n, o < n PROVE Found(o) = here[o] \union Found(next[o])
  <2> HIDE DEF Reached
  <2>1. Reached(o) = {o} \union Reached(next[o])
    BY <1>1, <1>2
  <2>2. ASSUME NEW x \in Found(o) PROVE x \in here[o] \union Found(next[o])
    BY <2>1
  <2>3. ASSUME NEW x \in here[o] PROVE x \in Found(o)
    <3>1. o \in {p \in Reached(o) : p < n}
      BY <1>2, <2>1
    <3> QED BY <2>3, <3>1
  <2>4. ASSUME NEW x \in Found(next[o]) PROVE x \in Found(o)
    BY <2>1
  <2> HIDE DEF Found
  <2> QED BY <2>2, <2>3, <2>4
<1>3. Found(n) = {}
  <2>1. Closed({n})
    OBVIOUS
  <2>2. {n} \in SUBSET (0..n)
    OBVIOUS
  <2>3. Reached(n) \subseteq {n}
    BY <2>1, <2>2
  <2> HIDE DEF Reached
  <2>4. ~(n < n)
    OBVIOUS
  <2>5. \A p \in Reached(n) : ~(p < n)
    BY <2>3, <2>4
  <2> QED BY <2>5
<1> HIDE DEF Found
<1>4. ASSUME NEW o \in 0..n
      PROVE  f[o] = IF o = n THEN {} ELSE here[o] \union f[next[o]]
  <2>1. CASE o = n
    BY <1>3, <2>1
  <2>2. CASE o # n
    <3>1. o < n /\ o \in 0..(n - 1)
      BY <2>2
    <3>2. next[o] \in 0..n
      BY <3>1
    <3> QED BY <1>2, <2>2, <3>1, <3>2
  <2> QED BY <2>1, <2>2
<1>5. f = [o \in 0..n |-> f[o]]
  OBVIOUS
<1> HIDE DEF f
<1>6. [o \in 0..n |-> f[o]]
        = [o \in 0..n |-> IF o = n THEN {} ELSE here[o] \union f[next[o]]]
  BY <1>4
<1> QED BY <1>5, <1>6 DEF IsWalk

Walk(f, n, here, next) ==
  \A o \in 0..n : f[o] = IF o = n THEN {} ELSE here[o] \union f[next[o]]

\* What is here at the starts from one on.
FoundFrom(here, starts, first) == UNION {here[s] : s \in {r \in starts : r >= first}}

\* A walk from a start to the next one comes past all that follow.
LEMMA WalkFinds ==
  ASSUME NEW n \in Nat, NEW f, NEW here, NEW next, Walk(f, n, here, next),
         NEW starts \in SUBSET (0..(n - 1)),
         \A s \in starts : /\ next[s] \in starts \union {n} /\ next[s] > s
                           /\ \A r \in starts : r > s => r >= next[s],
         NEW first \in starts \union {n}
  PROVE  f[first] = FoundFrom(here, starts, first)
<1> DEFINE From(o) == UNION {here[s] : s \in {r \in starts : r >= o}}
           S == {m \in Nat : \A o \in starts \union {n} : o >= n - m => f[o] = From(o)}
<1>1. ASSUME NEW o \in starts \union {n} PROVE o \in 0..n
  OBVIOUS
<1>8. \A r \in starts : r \in 0..(n - 1) /\ ~(r >= n)
  OBVIOUS
<1>2. f[n] = From(n)
  <2>1. {r \in starts : r >= n} = {}
    BY <1>8
  <2>2. From(n) = {}
    BY <2>1
  <2>3. f[n] = {}
    <3>1. n \in 0..n
      OBVIOUS
    <3> QED BY <3>1 DEF Walk
  <2> QED BY <2>2, <2>3
<1>3. 0 \in S
  BY <1>2
<1>4. ASSUME NEW m \in Nat, m \in S PROVE m + 1 \in S
  <2> SUFFICES ASSUME NEW o \in starts \union {n}, o >= n - (m + 1)
               PROVE  f[o] = From(o)
    OBVIOUS
  <2>1. CASE o = n
    BY <1>2, <2>1
  <2>2. CASE o # n
    <3>1. o \in starts /\ o \in 0..n /\ o \in 0..(n - 1)
      BY <2>2
    <3>2. /\ next[o] \in starts \union {n} /\ next[o] > o
          /\ \A r \in starts : r > o => r >= next[o]
      BY <3>1
    <3>3. next[o] \in 0..n
      BY <1>1, <3>2
    <3>4. next[o] >= n - m
      BY <3>1, <3>2, <3>3
    <3>5. f[next[o]] = From(next[o])
      BY <1>4, <3>2, <3>4
    <3>6. f[o] = here[o] \union f[next[o]]
      BY <2>2, <3>1 DEF Walk
    <3>7. {r \in starts : r >= o} = {o} \union {r \in starts : r >= next[o]}
      <4>1. ASSUME NEW r \in starts PROVE r >= o <=> (r = o \/ r >= next[o])
        <5>1. r \in 0..(n - 1) /\ (r > o => r >= next[o])
          BY <1>8, <3>2
        <5> QED BY <3>1, <3>2, <3>3, <5>1
      <4> QED BY <3>1, <4>1
    <3>8. From(o) = here[o] \union From(next[o])
      <4> DEFINE R(p) == {r \in starts : r >= p}
      <4>1. R(o) = {o} \union R(next[o])
        BY <3>7
      <4> HIDE DEF R
      <4>2. UNION {here[s] : s \in R(o)} = here[o] \union UNION {here[s] : s \in R(next[o])}
        BY <4>1
      <4> QED BY <4>2 DEF R
    <3> HIDE DEF From
    <3> QED BY <3>5, <3>6, <3>8
  <2> QED BY <2>1, <2>2
<1>5. n \in S
  <2> HIDE DEF S
  <2> QED BY <1>3, <1>4, SetInduction
<1>6. first >= n - n
  BY <1>1
<1> HIDE DEF From
<1>7. f[first] = From(first)
  BY <1>5, <1>6
<1> QED BY <1>7 DEF From, FoundFrom

\* The disassembler and the compiler go over the code so.
LEMMA DisassembledWalk ==
  ASSUME NEW n \in Nat, n = Len(code)
  PROVE  \E here, next :
           /\ \A o \in 0..(n - 1) :
                here[o] = {o} /\ next[o] = Forward(o, NextInstruction(o))
           /\ Walk(Disassembled, n, here, next)
<1> DEFINE here == [o \in 0..(n - 1) |-> {o}]
           next == [o \in 0..(n - 1) |-> Forward(o, NextInstruction(o))]
           D(g) == g = [o \in 0..Len(code) |->
                          IF o = Len(code) THEN {}
                          ELSE {o} \union g[Forward(o, NextInstruction(o))]]
<1>1. ASSUME NEW o \in 0..(n - 1) PROVE next[o] \in (o + 1)..n
  BY DEF Forward
<1>2. PICK f : IsWalk(f, n, here, next)
  <2> HIDE DEF here, next
  <2> QED BY <1>1, WalkDefined
<1>3. \A o \in 0..n : o # n => here[o] = {o} /\ next[o] = Forward(o, NextInstruction(o))
  OBVIOUS
<1>4. D(f)
  <2> HIDE DEF here, next
  <2> QED BY <1>2, <1>3 DEF IsWalk
<1>5. Disassembled = CHOOSE g : D(g)
  BY DEF Disassembled
<1>6. D(Disassembled)
  <2> HIDE DEF D
  <2> QED BY <1>4, <1>5
<1>7. ASSUME NEW o \in 0..n
      PROVE  Disassembled[o] = IF o = n THEN {} ELSE here[o] \union Disassembled[next[o]]
  <2>1. Disassembled[o] = IF o = n THEN {}
                          ELSE {o} \union Disassembled[Forward(o, NextInstruction(o))]
    BY <1>6
  <2> HIDE DEF here, next
  <2> QED BY <1>3, <2>1
<1> HIDE DEF here, next
<1>8. Walk(Disassembled, n, here, next)
  BY <1>7 DEF Walk
<1>9. \A o \in 0..(n - 1) :
        here[o] = {o} /\ next[o] = Forward(o, NextInstruction(o))
  BY DEF here, next
<1> QED BY <1>8, <1>9


LEMMA PlaceholdersWalk ==
  ASSUME NEW n \in Nat, n = Len(code)
  PROVE  \E here, next :
           /\ \A o \in 0..(n - 1) :
                /\ here[o] = (IF Byte(o) = End THEN {o} ELSE {})
                /\ next[o] = Forward(o, NextInLoop(o))
           /\ Walk(Placeholders, n, here, next)
<1> DEFINE here == [o \in 0..(n - 1) |-> IF Byte(o) = End THEN {o} ELSE {}]
           next == [o \in 0..(n - 1) |-> Forward(o, NextInLoop(o))]
           D(g) == g = [o \in 0..Len(code) |->
                          IF o = Len(code) THEN {}
                          ELSE (IF Byte(o) = End THEN {o} ELSE {})
                                 \union g[Forward(o, NextInLoop(o))]]
<1>1. ASSUME NEW o \in 0..(n - 1) PROVE next[o] \in (o + 1)..n
  BY DEF Forward
<1>2. PICK f : IsWalk(f, n, here, next)
  <2> HIDE DEF here, next
  <2> QED BY <1>1, WalkDefined
<1>3. \A o \in 0..n : o # n => /\ here[o] = (IF Byte(o) = End THEN {o} ELSE {})
                              /\ next[o] = Forward(o, NextInLoop(o))
  OBVIOUS
<1>4. D(f)
  <2> HIDE DEF here, next
  <2> QED BY <1>2, <1>3 DEF IsWalk
<1>5. Placeholders = CHOOSE g : D(g)
  BY DEF Placeholders
<1>6. D(Placeholders)
  <2> HIDE DEF D
  <2> QED BY <1>4, <1>5
<1>7. ASSUME NEW o \in 0..n
      PROVE  Placeholders[o] = IF o = n THEN {} ELSE here[o] \union Placeholders[next[o]]
  <2>1. Placeholders[o] = IF o = n THEN {}
                          ELSE (IF Byte(o) = End THEN {o} ELSE {})
                                 \union Placeholders[Forward(o, NextInLoop(o))]
    BY <1>6
  <2> HIDE DEF here, next
  <2> QED BY <1>3, <2>1
<1> HIDE DEF here, next
<1>8. Walk(Placeholders, n, here, next)
  BY <1>7 DEF Walk
<1>9. \A o \in 0..(n - 1) : /\ here[o] = (IF Byte(o) = End THEN {o} ELSE {})
                            /\ next[o] = Forward(o, NextInLoop(o))
  BY DEF here, next
<1> QED BY <1>8, <1>9

-----------------------------------------------------------------------------
(***************************************************************************)
(* The operands of a closure, read one after the other.                    *)
(***************************************************************************)
\* Where the operands end that p says are written from offset on.
Reads(offset, us, p) ==
  \A i \in 1..Len(us) : \A k \in 1..(1 + IndexLength(us[i][2])) :
    code[offset + p[i - 1] + k] = ClosureOperand(us[i])[k]

LEMMA OperandsRead ==
  ASSUME NEW us \in Seq(Upvalue), NEW p \in [0..Len(us) -> Nat], UpvalueParts(p, us),
         NEW offset \in Nat, Reads(offset, us, p)
  PROVE  /\ \A i \in 0..Len(us) : ClosureOperands(offset, Len(us))[i] = offset + p[i]
         /\ \A i \in 1..Len(us) : read_closure_operand(offset + p[i - 1]) = us[i]
<1> DEFINE n == Len(us)
           Rec(g) == g = [k \in 0..n |->
                            IF k = 0 THEN offset
                            ELSE LET last == g[k - 1] IN last + OperandLength(last)]
           h == [k \in 0..n |-> offset + p[k]]
<1>1. n \in Nat /\ \A i \in 1..n : us[i] \in Upvalue
  OBVIOUS
<1>2. ASSUME NEW i \in 1..n
      PROVE  /\ i - 1 \in 0..n /\ p[i - 1] \in Nat
             /\ p[i] = p[i - 1] + 1 + IndexLength(us[i][2])
             /\ IndexLength(us[i][2]) \in 1..3 /\ us[i][2] \in Nat
             /\ us[i][2] < Weight[IndexLength(us[i][2]) + 1]
             /\ \A k \in 1..(1 + IndexLength(us[i][2])) :
                  Byte(offset + p[i - 1] + k - 1) = ClosureOperand(us[i])[k]
  <2>1. i - 1 \in 0..n /\ p[i - 1] \in Nat
    BY <1>1
  <2>2. us[i][2] \in 0..(Weight[4] - 1)
    BY <1>1 DEF Upvalue
  <2>3. /\ IndexLength(us[i][2]) \in 1..3 /\ us[i][2] \in Nat
        /\ us[i][2] < Weight[IndexLength(us[i][2]) + 1]
    BY <2>2, IndexLengths
  <2>4. p[i] = p[i - 1] + 1 + IndexLength(us[i][2])
    BY DEF UpvalueParts
  <2>5. ASSUME NEW k \in 1..(1 + IndexLength(us[i][2]))
        PROVE  Byte(offset + p[i - 1] + k - 1) = ClosureOperand(us[i])[k]
    <3>1. k \in Nat
      BY <2>3
    <3>2. (offset + p[i - 1] + k - 1) + 1 = offset + p[i - 1] + k
      BY <2>1, <3>1
    <3>3. code[offset + p[i - 1] + k] = ClosureOperand(us[i])[k]
      BY DEF Reads
    <3> QED BY <3>2, <3>3 DEF Byte
  <2> QED BY <2>1, <2>3, <2>4, <2>5
<1>3. ASSUME NEW i \in 1..n
      PROVE  /\ OperandLength(offset + p[i - 1]) = 1 + IndexLength(us[i][2])
             /\ read_closure_operand(offset + p[i - 1]) = us[i]
  <2> DEFINE len == IndexLength(us[i][2])
             w == ClosureOperand(us[i])
             at == offset + p[i - 1]
  <2>1. /\ Len(w) = 1 + len /\ w[1] % LocalFlag = len
        /\ (w[1] >= LocalFlag <=> us[i][1])
        /\ \A k \in 1..len : w[1 + k] = Digit(us[i][2], k)
    BY <1>1, ClosureOperandWritten
  <2>2. /\ len \in 1..3 /\ len \in 0..3 /\ us[i][2] \in Nat /\ us[i][2] < Weight[len + 1]
        /\ at \in Nat /\ \A k \in 1..(1 + len) : Byte(at + k - 1) = w[k]
    BY <1>2
  <2> HIDE DEF len, w, at
  <2>3. Byte(at) = w[1]
    <3>1. 1 \in 1..(1 + len) /\ at + 1 - 1 = at
      BY <2>2
    <3> QED BY <2>2, <3>1
  <2>4. OperandLength(at) = 1 + len
    BY <2>1, <2>3 DEF OperandLength
  <2>5. \A k \in 1..len : code[(at + 1) + k] = Digit(us[i][2], k)
    <3> TAKE k \in 1..len
    <3>1. k + 1 \in 1..(1 + len) /\ at + (k + 1) - 1 = at + k /\ 1 + k = k + 1
          /\ at + k + 1 = (at + 1) + k
      BY <2>2
    <3>2. Byte(at + k) = w[k + 1]
      BY <2>2, <3>1
    <3>3. code[(at + 1) + k] = w[k + 1]
      BY <3>1, <3>2 DEF Byte
    <3> QED BY <2>1, <3>1, <3>3
  <2>6. read_multibyte_operand(len, at + 1) = us[i][2]
    <3>1. at + 1 \in Nat
      BY <2>2
    <3> QED BY <2>2, <2>5, <3>1, OperandRead
  <2>7. read_closure_operand(at) = <<w[1] >= LocalFlag, us[i][2]>>
    BY <2>1, <2>3, <2>6 DEF read_closure_operand
  <2>8. us[i] = <<us[i][1], us[i][2]>> /\ us[i][1] \in BOOLEAN
    BY <1>1 DEF Upvalue
  <2>9. (w[1] >= LocalFlag) = us[i][1]
    <3> DEFINE d == w[1] >= LocalFlag
    <3>1. d \in BOOLEAN
      OBVIOUS
    <3>2. d <=> us[i][1]
      BY <2>1
    <3> HIDE DEF d
    <3>3. d = us[i][1]
      BY <2>8, <3>1, <3>2
    <3> QED BY <3>3 DEF d
  <2> QED BY <2>4, <2>7, <2>8, <2>9 DEF len, at
<1>4. Rec(h)
  <2>1. ASSUME NEW k \in 0..n
        PROVE  h[k] = IF k = 0 THEN offset
                      ELSE LET last == h[k - 1] IN last + OperandLength(last)
    <3>1. CASE k = 0
      <4>1. p[0] = 0
        BY DEF UpvalueParts
      <4> QED BY <3>1, <4>1
    <3>2. CASE k # 0
      <4>1. k \in 1..n
        BY <3>2
      <4>2. h[k - 1] = offset + p[k - 1] /\ h[k] = offset + p[k]
        BY <1>2, <4>1
      <4>3. OperandLength(h[k - 1]) = 1 + IndexLength(us[k][2])
        BY <1>3, <4>1, <4>2
      <4>5. /\ p[k] = p[k - 1] + 1 + IndexLength(us[k][2]) /\ p[k - 1] \in Nat
            /\ IndexLength(us[k][2]) \in Nat
        <5>1. p[k - 1] \in Nat /\ IndexLength(us[k][2]) \in 1..3
          BY <1>2, <4>1
        <5>2. p[k] = p[k - 1] + 1 + IndexLength(us[k][2])
          BY <4>1 DEF UpvalueParts
        <5> QED BY <5>1, <5>2
      <4>4. h[k] = h[k - 1] + OperandLength(h[k - 1])
        <5> DEFINE a == h[k]
                   b == h[k - 1]
                   len == IndexLength(us[k][2])
                   q == p[k - 1]
        <5>1. a = offset + p[k] /\ b = offset + q /\ OperandLength(b) = 1 + len
              /\ p[k] = q + 1 + len /\ q \in Nat /\ len \in Nat
          BY <4>2, <4>3, <4>5
        <5> HIDE DEF a, b, len, q
        <5>2. a = b + OperandLength(b)
          BY <5>1
        <5> QED BY <5>2 DEF a, b
      <4> QED BY <3>2, <4>4
    <3> QED BY <3>1, <3>2
  <2>2. h = [k \in 0..n |-> h[k]]
    OBVIOUS
  <2> HIDE DEF h
  <2> QED BY <2>1, <2>2
<1> DEFINE after == CHOOSE g : Rec(g)
<1>5. ClosureOperands(offset, n) = after
  BY DEF ClosureOperands
<1>6. Rec(after)
  <2> HIDE DEF Rec
  <2> QED BY <1>4
<1> HIDE DEF after
<1>7. \A k \in 0..n : after[k] = IF k = 0 THEN offset
                                 ELSE after[k - 1] + OperandLength(after[k - 1])
  BY <1>6
<1> DEFINE S == {k \in Nat : k <= n => after[k] = offset + p[k]}
<1>8. 0 \in S
  <2>1. p[0] = 0 /\ 0 \in 0..n
    BY <1>1 DEF UpvalueParts
  <2>2. after[0] = offset
    BY <1>7, <2>1
  <2> QED BY <2>1, <2>2
<1>9. ASSUME NEW k \in Nat, k \in S PROVE k + 1 \in S
  <2> SUFFICES ASSUME k + 1 <= n PROVE after[k + 1] = offset + p[k + 1]
    OBVIOUS
  <2>1. k + 1 \in 1..n /\ k + 1 # 0 /\ k <= n /\ (k + 1) - 1 = k /\ k + 1 \in 0..n
    BY <1>1
  <2>2. after[k] = offset + p[k]
    BY <1>9, <2>1
  <2>3. after[k + 1] = after[k] + OperandLength(after[k])
    <3>1. after[k + 1] = after[(k + 1) - 1] + OperandLength(after[(k + 1) - 1])
      BY <1>7, <2>1, Zenon
    <3> QED BY <2>1, <3>1
  <2>4. OperandLength(after[k]) = 1 + IndexLength(us[k + 1][2])
    BY <1>3, <2>1, <2>2
  <2>5. p[k + 1] = p[k] + 1 + IndexLength(us[k + 1][2]) /\ p[k] \in Nat
        /\ IndexLength(us[k + 1][2]) \in Nat
    <3>1. /\ p[k + 1] = p[(k + 1) - 1] + 1 + IndexLength(us[k + 1][2])
          /\ p[(k + 1) - 1] \in Nat /\ IndexLength(us[k + 1][2]) \in 1..3
      BY <1>2, <2>1, Zenon
    <3> QED BY <2>1, <3>1
  <2> DEFINE len == IndexLength(us[k + 1][2])
             b == after[k]
             c == p[k + 1]
             q == p[k]
  <2>6. /\ after[k + 1] = b + OperandLength(b) /\ OperandLength(b) = 1 + len
        /\ b = offset + q /\ c = q + 1 + len /\ q \in Nat /\ len \in Nat
    BY <2>2, <2>3, <2>4, <2>5
  <2> HIDE DEF len, b, c, q
  <2>7. after[k + 1] = offset + c
    BY <2>6
  <2> QED BY <2>7 DEF c
<1>10. ASSUME NEW k \in 0..n PROVE after[k] = offset + p[k]
  <2>1. k \in S
    <3> HIDE DEF S
    <3> QED BY <1>8, <1>9, SetInduction
  <2> QED BY <1>1, <2>1
<1> QED BY <1>3, <1>5, <1>10


-----------------------------------------------------------------------------
(***************************************************************************)
(* The binary search of get_line.                                          *)
(***************************************************************************)
IsLoop(f, D, stop, val, next) ==
  f = [p \in D |-> IF p \in stop THEN val[p] ELSE f[next[p]]]

\* A loop that goes from one member of D to the next defines a function, even
\* before it is known to end.
LEMMA LoopDefined ==
  ASSUME NEW D, NEW stop, NEW val, NEW next, \A p \in D : p \notin stop => next[p] \in D
  PROVE  \E f : IsLoop(f, D, stop, val, next)
<1> DEFINE Closed(C) == \A c \in C : c \notin stop => next[c] \in C
           Reached(p) == {q \in D : \A C \in SUBSET D : (p \in C /\ Closed(C)) => q \in C}
           Found(p) == {val[q] : q \in Reached(p) \cap stop}
           f == [p \in D |-> CHOOSE v : v \in Found(p)]
<1>1. ASSUME NEW p \in D, p \in stop PROVE Found(p) = {val[p]}
  <2>1. p \in Reached(p)
    OBVIOUS
  <2>2. {p} \in SUBSET D /\ Closed({p})
    BY <1>1
  <2>3. Reached(p) \subseteq {p}
    BY <2>2
  <2> HIDE DEF Reached
  <2>4. Reached(p) \cap stop = {p}
    BY <1>1, <2>1, <2>3
  <2> QED BY <2>4
<1>2. ASSUME NEW p \in D, p \notin stop PROVE Found(p) = Found(next[p])
  <2>1. next[p] \in D
    BY <1>2
  <2>2. ASSUME NEW q \in Reached(next[p]) PROVE q \in Reached(p)
    <3>1. ASSUME NEW C \in SUBSET D, p \in C, Closed(C) PROVE q \in C
      <4>1. next[p] \in C
        BY <1>2, <3>1
      <4> QED BY <3>1, <4>1
    <3> QED BY <3>1
  <2>3. ASSUME NEW q \in Reached(p), q # p PROVE q \in Reached(next[p])
    <3>1. ASSUME NEW C \in SUBSET D, next[p] \in C, Closed(C) PROVE q \in C
      <4>1. (C \union {p}) \in SUBSET D /\ p \in C \union {p}
        OBVIOUS
      <4>2. Closed(C \union {p})
        BY <3>1
      <4>3. q \in C \union {p}
        BY <4>1, <4>2
      <4> QED BY <2>3, <4>3
    <3> QED BY <3>1
  <2> HIDE DEF Reached
  <2>4. Reached(p) \cap stop = Reached(next[p]) \cap stop
    BY <1>2, <2>2, <2>3
  <2> QED BY <2>4
<1> HIDE DEF Found
<1>3. ASSUME NEW p \in D PROVE f[p] = IF p \in stop THEN val[p] ELSE f[next[p]]
  <2>1. CASE p \in stop
    <3>1. f[p] = CHOOSE v : v \in {val[p]}
      BY <1>1, <2>1
    <3> QED BY <2>1, <3>1
  <2>2. CASE p \notin stop
    <3>1. next[p] \in D /\ Found(p) = Found(next[p])
      BY <1>2, <2>2
    <3> QED BY <2>2, <3>1
  <2> QED BY <2>1, <2>2
<1>4. f = [p \in D |-> f[p]]
  OBVIOUS
<1> HIDE DEF f
<1>5. [p \in D |-> f[p]] = [p \in D |-> IF p \in stop THEN val[p] ELSE f[next[p]]]
  BY <1>3
<1> QED BY <1>4, <1>5 DEF IsLoop

\* The middle of a span.
LEMMA Middle ==
  ASSUME NEW s \in Nat, NEW e \in Nat, s <= e
  PROVE  /\ (s + e) \div 2 \in Nat /\ s <= (s + e) \div 2 /\ (s + e) \div 2 <= e
<1> DEFINE a == s + e
           m == a \div 2
<1>1. a \in Nat /\ 2 \in Nat \ {0}
  OBVIOUS
<1>2. m \in Nat /\ a = 2 * m + (a % 2) /\ a % 2 \in 0..(2 - 1)
  BY <1>1, Divided
<1> HIDE DEF m
<1> QED BY <1>2 DEF m

\* One turn of the search in a table of n entries.
Turn(o, n, s, e) ==
  LET mid == (s + e) \div 2
  IN IF s > e THEN 0
     ELSE IF o < lines[mid].offset THEN Search(o)[<<s, mid - 1>>]
     ELSE IF mid = n \/ o < lines[mid + 1].offset THEN lines[mid].line
     ELSE Search(o)[<<mid + 1, e>>]

\* A step of the search.
LEMMA SearchStep ==
  ASSUME NEW offset \in Nat, NEW n \in Nat, n = Len(lines),
         NEW s \in 1..(n + 1), NEW e \in 0..n
  PROVE  Search(offset)[<<s, e>>] = Turn(offset, n, s, e)
<1> DEFINE D == (1..(n + 1)) \X (0..n)
           Mid(p) == (p[1] + p[2]) \div 2
           Body(g, p) ==
             LET mid == (p[1] + p[2]) \div 2
             IN IF p[1] > p[2] THEN 0
                ELSE IF offset < lines[mid].offset THEN g[<<p[1], mid - 1>>]
                ELSE IF mid = Len(lines) \/ offset < lines[mid + 1].offset
                     THEN lines[mid].line
                     ELSE g[<<mid + 1, p[2]>>]
           Rec(g) == g = [p \in (1..(Len(lines) + 1)) \X (0..Len(lines)) |-> Body(g, p)]
           Below(p) == offset < lines[Mid(p)].offset
           Here(p) == Mid(p) = n \/ offset < lines[Mid(p) + 1].offset
           stop == {p \in D : p[1] > p[2] \/ (~Below(p) /\ Here(p))}
           val == [p \in D |-> IF p[1] > p[2] THEN 0 ELSE lines[Mid(p)].line]
           next == [p \in D |-> IF Below(p) THEN <<p[1], Mid(p) - 1>>
                                ELSE <<Mid(p) + 1, p[2]>>]
<1>1. ASSUME NEW p \in D, p \notin stop PROVE next[p] \in D
  <2>1. p[1] \in 1..(n + 1) /\ p[2] \in 0..n /\ p[1] <= p[2]
    BY <1>1
  <2>2. Mid(p) \in Nat /\ p[1] <= Mid(p) /\ Mid(p) <= p[2]
    BY <2>1, Middle
  <2> HIDE DEF Mid
  <2>3. Mid(p) - 1 \in 0..n /\ Mid(p) + 1 \in 1..(n + 1)
    BY <2>1, <2>2
  <2> QED BY <2>1, <2>3
<1>2. PICK f : IsLoop(f, D, stop, val, next)
  <2> HIDE DEF D, stop, val, next
  <2> QED BY <1>1, LoopDefined
<1>3. ASSUME NEW p \in D
      PROVE  (IF p \in stop THEN val[p] ELSE f[next[p]]) = Body(f, p)
  <2>1. CASE p[1] > p[2]
    BY <2>1
  <2>2. CASE ~(p[1] > p[2]) /\ Below(p)
    BY <2>2
  <2>3. CASE ~(p[1] > p[2]) /\ ~Below(p) /\ Here(p)
    BY <2>3
  <2>4. CASE ~(p[1] > p[2]) /\ ~Below(p) /\ ~Here(p)
    BY <2>4
  <2> QED BY <2>1, <2>2, <2>3, <2>4
<1>4. Rec(f)
  <2> HIDE DEF stop, val, next, Body
  <2>1. f = [p \in D |-> IF p \in stop THEN val[p] ELSE f[next[p]]]
    BY <1>2 DEF IsLoop
  <2>2. [p \in D |-> IF p \in stop THEN val[p] ELSE f[next[p]]] = [p \in D |-> Body(f, p)]
    BY <1>3
  <2> QED BY <2>1, <2>2
<1>5. Search(offset) = CHOOSE g : Rec(g)
  BY DEF Search
<1>6. Rec(Search(offset))
  <2> HIDE DEF Rec
  <2> QED BY <1>4, <1>5
<1>7. <<s, e>> \in (1..(Len(lines) + 1)) \X (0..Len(lines))
  OBVIOUS
<1> DEFINE search == Search(offset)
<1> HIDE DEF search
<1>8. search[<<s, e>>] = Body(search, <<s, e>>)
  <2>1. Rec(search)
    BY <1>6 DEF search
  <2> HIDE DEF Body
  <2> QED BY <1>7, <2>1
<1> QED BY <1>8 DEF search, Turn

-----------------------------------------------------------------------------
(***************************************************************************)
(* The bytes, and the lines they were written for.                         *)
(***************************************************************************)
BytesInv ==
  /\ sample \in Samples /\ line \in 1..sample.lines
  /\ code \in Seq(AllBytes) /\ line_of \in Seq(Nat) /\ Len(line_of) = Len(code)

LineEntry == [offset : Nat, line : Nat]

\* An entry of a table is for the bytes up to the next.
Covers(table, i, o) ==
  table[i].offset <= o /\ (i = Len(table) \/ o < table[i + 1].offset)

\* A table for n bytes, that are of these lines, written up to this one.
Table(table, n, of, last) ==
  /\ table \in Seq(LineEntry)
  /\ n > 0 => Len(table) > 0 /\ table[1].offset = 0
  /\ \A i \in 1..Len(table) : table[i].offset < n /\ table[i].line <= last
  /\ \A i \in 2..Len(table) :
       table[i].offset > table[i - 1].offset /\ table[i].line > table[i - 1].line
  /\ \A i \in 1..Len(table), o \in 0..(n - 1) :
       Covers(table, i, o) => of[o + 1] = table[i].line

TableInv == Table(lines, Len(code), line_of, line)

LEMMA Entries ==
  ASSUME NEW table \in Seq(LineEntry)
  PROVE  /\ Len(table) \in Nat /\ DOMAIN table = 1..Len(table)
         /\ \A i \in 1..Len(table) : table[i].offset \in Nat /\ table[i].line \in Nat
<1>1. \A i \in 1..Len(table) : table[i] \in LineEntry
  BY ElementOfSeq
<1>2. \A e \in LineEntry : e.offset \in Nat /\ e.line \in Nat
  BY DEF LineEntry
<1>3. Len(table) \in Nat /\ DOMAIN table = 1..Len(table)
  OBVIOUS
<1> QED BY <1>1, <1>2, <1>3, Zenon

\* The search finds the entry that covers an offset.
LEMMA SearchFinds ==
  ASSUME BytesInv, TableInv, NEW o \in 0..(Len(code) - 1)
  PROVE  get_line(o) = line_of[o + 1]
<1> DEFINE n == Len(lines)
           f == Search(o)
           Spans(s, e) == /\ s <= e /\ lines[s].offset <= o
                          /\ e = n \/ o < lines[e + 1].offset
           S == {m \in Nat : \A s, e \in 1..n :
                   Spans(s, e) /\ e - s < m => f[<<s, e>>] = line_of[o + 1]}
<1>1. lines \in Seq(LineEntry) /\ code \in Seq(AllBytes)
  BY Zenon DEF BytesInv, TableInv, Table
<1>2. Len(code) \in Nat /\ o \in Nat
  BY <1>1
<1>3. n \in Nat /\ \A i \in 1..n : lines[i].offset \in Nat /\ lines[i].line \in Nat
  BY <1>1, Entries, Zenon
<1>4. n > 0 /\ lines[1].offset = 0
  <2>1. Len(code) > 0
    BY <1>2
  <2> QED BY <2>1, Zenon DEF TableInv, Table
<1>5. \A i \in 1..n : Covers(lines, i, o) => line_of[o + 1] = lines[i].line
  BY Zenon DEF TableInv, Table
<1>6. 0 \in S
  <2> SUFFICES ASSUME NEW s \in 1..n, NEW e \in 1..n, Spans(s, e), e - s < 0
               PROVE  FALSE
    OBVIOUS
  <2> QED BY <1>3
<1>7. ASSUME NEW m \in Nat, m \in S PROVE m + 1 \in S
  <2> SUFFICES ASSUME NEW s \in 1..n, NEW e \in 1..n, Spans(s, e), e - s < m + 1
               PROVE  f[<<s, e>>] = line_of[o + 1]
    OBVIOUS
  <2> DEFINE mid == (s + e) \div 2
  <2>1. s \in Nat /\ e \in Nat /\ s <= e /\ s \in 1..(n + 1) /\ e \in 0..n
    BY <1>3
  <2>2. mid \in Nat /\ s <= mid /\ mid <= e /\ mid \in 1..n
    <3>1. mid \in Nat /\ s <= mid /\ mid <= e
      BY <2>1, Middle
    <3> HIDE DEF mid
    <3> QED BY <1>3, <2>1, <3>1
  <2>3. f[<<s, e>>] =
          IF s > e THEN 0
          ELSE IF o < lines[mid].offset THEN f[<<s, mid - 1>>]
          ELSE IF mid = n \/ o < lines[mid + 1].offset THEN lines[mid].line
               ELSE f[<<mid + 1, e>>]
    <3>1. f[<<s, e>>] = Turn(o, n, s, e)
      BY <1>2, <1>3, <2>1, SearchStep
    <3> QED BY <3>1, Zenon DEF Turn
  <2> HIDE DEF mid, f
  <2>4. lines[s].offset <= o /\ (e = n \/ o < lines[e + 1].offset)
    OBVIOUS
  <2>5. lines[mid].offset \in Nat /\ lines[s].offset \in Nat
    BY <1>3, <2>2
  <2>6. CASE o < lines[mid].offset
    <3>1. mid # s
      BY <1>2, <2>4, <2>5, <2>6
    <3>2. mid - 1 \in 1..n /\ s <= mid - 1 /\ (mid - 1) - s < m /\ (mid - 1) + 1 = mid
      BY <1>3, <2>1, <2>2, <3>1
    <3>3. Spans(s, mid - 1)
      BY <2>4, <2>6, <3>2
    <3>4. f[<<s, mid - 1>>] = line_of[o + 1]
      BY <1>7, <3>2, <3>3
    <3> QED BY <2>1, <2>3, <2>6, <3>4
  <2>7. CASE ~(o < lines[mid].offset) /\ (mid = n \/ o < lines[mid + 1].offset)
    <3>1. lines[mid].offset <= o
      BY <1>2, <2>5, <2>7
    <3>2. Covers(lines, mid, o)
      BY <2>7, <3>1 DEF Covers
    <3>3. line_of[o + 1] = lines[mid].line
      BY <1>5, <2>2, <3>2
    <3> QED BY <2>1, <2>3, <2>7, <3>3
  <2>8. CASE ~(o < lines[mid].offset) /\ ~(mid = n \/ o < lines[mid + 1].offset)
    <3>1. mid # e
      BY <2>4, <2>8
    <3>2. mid + 1 \in 1..n /\ mid + 1 <= e /\ e - (mid + 1) < m
      BY <1>3, <2>1, <2>2, <3>1
    <3>3. lines[mid + 1].offset <= o
      <4>1. lines[mid + 1].offset \in Nat
        BY <1>3, <3>2
      <4> QED BY <1>2, <2>8, <4>1
    <3>4. Spans(mid + 1, e)
      BY <2>4, <3>2, <3>3
    <3>5. f[<<mid + 1, e>>] = line_of[o + 1]
      BY <1>7, <3>2, <3>4
    <3> QED BY <2>1, <2>3, <2>8, <3>5
  <2> QED BY <2>6, <2>7, <2>8
<1>8. n \in S
  <2> HIDE DEF S
  <2> QED BY <1>3, <1>6, <1>7, SetInduction
<1>9. 1 \in 1..n /\ n \in 1..n /\ n - 1 < n
  BY <1>3, <1>4
<1>10. Spans(1, n)
  BY <1>2, <1>4, <1>9
<1>11. f[<<1, n>>] = line_of[o + 1]
  BY <1>8, <1>9, <1>10
<1> QED BY <1>11 DEF get_line

\* The table stands for any byte of the code.
LEMMA LinesRight ==
  ASSUME BytesInv, TableInv PROVE LinesFound
<1> SUFFICES ASSUME NEW o \in DOMAIN code PROVE get_line(o - 1) = line_of[o]
  BY DEF LinesFound
<1>1. o - 1 \in 0..(Len(code) - 1) /\ (o - 1) + 1 = o
  BY DEF BytesInv
<1>2. get_line(o - 1) = line_of[(o - 1) + 1]
  BY <1>1, SearchFinds
<1> QED BY <1>1, <1>2

LEMMA TypeRight ==
  ASSUME BytesInv, TableInv PROVE TypeOK
<1>1. lines \in Seq(LineEntry) /\ code \in Seq(AllBytes)
  BY Zenon DEF BytesInv, TableInv, Table
<1>2. \A i \in DOMAIN code : code[i] \in 0..(Base - 1)
  <2>1. \A i \in DOMAIN code : code[i] \in AllBytes
    BY <1>1
  <2> QED BY <2>1 DEF AllBytes
<1>3. ASSUME NEW i \in DOMAIN lines
      PROVE  /\ lines[i].offset < Len(code)
             /\ i > 1 => /\ lines[i].offset > lines[i - 1].offset
                         /\ lines[i].line > lines[i - 1].line
  <2>1. Len(lines) \in Nat /\ i \in 1..Len(lines)
    BY <1>1, Entries, Zenon
  <2>2. i > 1 => i \in 2..Len(lines)
    BY <2>1
  <2> QED BY <2>1, <2>2, Zenon DEF TableInv, Table
<1> QED BY <1>2, <1>3 DEF TypeOK, BytesInv

\* The table after some bytes more.
LEMMA LineWritten ==
  ASSUME NEW table, NEW n \in Nat, NEW m \in Nat, m > 0, NEW of, NEW after, NEW at \in Nat,
         Table(table, n, of, at), \A o \in 1..n : after[o] = of[o],
         \A o \in (n + 1)..(n + m) : after[o] = at
  PROVE  Table(write_line(table, n, at), n + m, after, at)
<1> DEFINE last == Len(table)
           new == write_line(table, n, at)
<1>1. table \in Seq(LineEntry)
  BY Zenon DEF Table
<1>2. /\ last \in Nat
      /\ \A i \in 1..last : table[i].offset \in Nat /\ table[i].line \in Nat
  BY <1>1, Entries, Zenon
<1>3. \A i \in 1..last : table[i].offset < n /\ table[i].line <= at
  BY Zenon DEF Table
<1>4. \A i \in 2..last :
        table[i].offset > table[i - 1].offset /\ table[i].line > table[i - 1].line
  BY Zenon DEF Table
<1>5. \A i \in 1..last, o \in 0..(n - 1) :
        Covers(table, i, o) => of[o + 1] = table[i].line
  BY Zenon DEF Table
<1>6. n > 0 => last > 0 /\ table[1].offset = 0
  BY Zenon DEF Table
<1>7. last > 0 => n > 0 /\ table[1].offset = 0
  <2> SUFFICES ASSUME last > 0 PROVE n > 0
    BY <1>6
  <2>1. 1 \in 1..last
    BY <1>2
  <2>2. table[1].offset < n /\ table[1].offset \in Nat
    BY <1>2, <1>3, <2>1
  <2> QED BY <2>2
<1>8. CASE last > 0 /\ table[last].line = at
  <2>1. new = table
    <3>1. table # <<>> /\ Last(table) = table[last]
      BY <1>8 DEF Last
    <3> QED BY <1>8, <3>1 DEF write_line
  <2>2. ASSUME NEW i \in 1..last, NEW o \in 0..(n + m - 1), Covers(table, i, o)
        PROVE  after[o + 1] = table[i].line
    <3>1. CASE o < n
      <4>1. o \in 0..(n - 1) /\ o + 1 \in 1..n
        BY <3>1
      <4>2. of[o + 1] = table[i].line
        BY <1>5, <2>2, <4>1
      <4> QED BY <4>1, <4>2
    <3>2. CASE ~(o < n)
      <4>1. i = last
        <5> SUFFICES ASSUME i # last PROVE FALSE
          OBVIOUS
        <5>1. i + 1 \in 1..last
          BY <1>2
        <5>2. table[i + 1].offset < n /\ table[i + 1].offset \in Nat
          BY <1>2, <1>3, <5>1
        <5>3. o < table[i + 1].offset
          BY <2>2 DEF Covers
        <5> QED BY <3>2, <5>2, <5>3
      <4>2. o + 1 \in (n + 1)..(n + m)
        BY <3>2
      <4> QED BY <1>8, <4>1, <4>2
    <3> QED BY <3>1, <3>2
  <2>3. \A i \in 1..last : table[i].offset < n + m /\ table[i].line <= at
    <3> TAKE i \in 1..last
    <3>1. table[i].offset < n /\ table[i].line <= at /\ table[i].offset \in Nat
      BY <1>2, <1>3
    <3> QED BY <3>1
  <2>4. Table(table, n + m, after, at)
    BY <1>1, <1>4, <1>7, <1>8, <2>2, <2>3 DEF Table
  <2> QED BY <2>1, <2>4
<1>9. CASE ~(last > 0 /\ table[last].line = at)
  <2> DEFINE entry == [offset |-> n, line |-> at]
  <2>1. new = Append(table, entry)
    <3>1. table = <<>> \/ (last > 0 /\ Last(table) = table[last])
      BY <1>1 DEF Last
    <3> QED BY <1>2, <1>9, <3>1 DEF write_line
  <2>2. entry \in LineEntry /\ entry.offset = n /\ entry.line = at
    BY DEF LineEntry
  <2> HIDE DEF entry, new
  <2>3. /\ new \in Seq(LineEntry) /\ Len(new) = last + 1
        /\ \A i \in 1..last : new[i] = table[i]
        /\ new[last + 1] = entry
    BY <1>1, <2>1, <2>2, AppendProperties
  <2>4. last > 0 => table[last].line < at
    <3> SUFFICES ASSUME last > 0 PROVE table[last].line < at
      OBVIOUS
    <3>1. last \in 1..last
      BY <1>2
    <3>2. table[last].line <= at /\ table[last].line \in Nat
      BY <1>2, <1>3, <3>1
    <3> QED BY <1>9, <3>2
  <2>5. ASSUME NEW i \in 1..(last + 1)
        PROVE  new[i].offset < n + m /\ new[i].line <= at
    <3>1. CASE i = last + 1
      BY <2>2, <2>3, <3>1
    <3>2. CASE i # last + 1
      <4>1. i \in 1..last
        BY <1>2, <3>2
      <4>2. /\ table[i].offset < n /\ table[i].line <= at /\ table[i].offset \in Nat
            /\ new[i] = table[i]
        BY <1>2, <1>3, <2>3, <4>1
      <4> QED BY <4>2
    <3> QED BY <3>1, <3>2
  <2>6. ASSUME NEW i \in 2..(last + 1)
        PROVE  new[i].offset > new[i - 1].offset /\ new[i].line > new[i - 1].line
    <3>1. i - 1 \in 1..last /\ new[i - 1] = table[i - 1]
      BY <1>2, <2>3
    <3>2. CASE i = last + 1
      <4>1. i - 1 = last /\ last > 0 /\ last \in 1..last
        BY <1>2, <3>1, <3>2
      <4>2. table[last].offset < n /\ table[last].offset \in Nat
        BY <1>2, <1>3, <4>1
      <4>3. table[last].line < at /\ table[last].line \in Nat
        BY <1>2, <2>4, <4>1
      <4> QED BY <2>2, <2>3, <3>1, <3>2, <4>1, <4>2, <4>3
    <3>3. CASE i # last + 1
      <4>1. i \in 2..last /\ i \in 1..last
        BY <1>2, <3>3
      <4>2. new[i] = table[i]
        BY <2>3, <4>1
      <4> QED BY <1>4, <3>1, <4>1, <4>2, Zenon
    <3> QED BY <3>2, <3>3
  <2>7. n + m > 0 => Len(new) > 0 /\ new[1].offset = 0
    <3>1. CASE last > 0
      <4>1. 1 \in 1..last
        BY <1>2, <3>1
      <4> QED BY <1>2, <1>7, <2>3, <3>1, <4>1
    <3>2. CASE ~(last > 0)
      <4>1. last + 1 = 1 /\ n = 0
        BY <1>2, <1>6, <3>2
      <4> QED BY <2>2, <2>3, <4>1
    <3> QED BY <1>2, <3>1, <3>2
  <2>8. ASSUME NEW i \in 1..(last + 1), NEW o \in 0..(n + m - 1), Covers(new, i, o)
        PROVE  after[o + 1] = new[i].line
    <3>1. new[i].offset <= o /\ (i = last + 1 \/ o < new[i + 1].offset)
      BY <2>3, <2>8 DEF Covers
    <3>2. CASE i = last + 1
      <4>1. n <= o /\ new[i].line = at
        BY <2>2, <2>3, <3>1, <3>2
      <4>2. o + 1 \in (n + 1)..(n + m)
        BY <4>1
      <4> QED BY <4>1, <4>2
    <3>3. CASE i # last + 1
      <4>1. i \in 1..last /\ new[i] = table[i]
        BY <1>2, <2>3, <3>3
      <4>2. o < new[i + 1].offset /\ table[i].offset <= o
        BY <3>1, <3>3, <4>1
      <4>3. Covers(table, i, o) /\ o < n
        <5>1. CASE i = last
          BY <2>2, <2>3, <4>2, <5>1 DEF Covers
        <5>2. CASE i # last
          <6>1. i + 1 \in 1..last
            BY <1>2, <4>1, <5>2
          <6>2. /\ table[i + 1].offset < n /\ table[i + 1].offset \in Nat
                /\ new[i + 1] = table[i + 1]
            BY <1>2, <1>3, <2>3, <6>1
          <6>3. o < n
            BY <4>2, <6>2
          <6> QED BY <4>2, <6>2, <6>3 DEF Covers
        <5> QED BY <5>1, <5>2
      <4>4. o \in 0..(n - 1) /\ o + 1 \in 1..n
        BY <4>3
      <4>5. of[o + 1] = table[i].line
        BY <1>5, <4>1, <4>3, <4>4
      <4> QED BY <4>1, <4>4, <4>5
    <3> QED BY <3>2, <3>3
  <2>9. Table(new, n + m, after, at)
    BY <2>3, <2>5, <2>6, <2>7, <2>8 DEF Table
  <2> QED BY <2>9 DEF new
<1> QED BY <1>8, <1>9

\* Writing at least one byte.
LEMMA WriteKeeps ==
  ASSUME BytesInv, TableInv, NEW bytes \in Seq(AllBytes), Len(bytes) > 0,
         Write(bytes), UNCHANGED <<sample, line>>
  PROVE  /\ BytesInv' /\ TableInv'
         /\ Len(code') = Len(code) + Len(bytes)
         /\ \A i \in 1..Len(code) : code'[i] = code[i]
         /\ \A i \in 1..Len(bytes) : code'[Len(code) + i] = bytes[i]
<1> DEFINE n == Len(code)
           m == Len(bytes)
           new == [i \in DOMAIN bytes |-> line]
<1>1. /\ code \in Seq(AllBytes) /\ line_of \in Seq(Nat) /\ Len(line_of) = n
      /\ sample \in Samples /\ line \in 1..sample.lines
  BY DEF BytesInv
<1>2. n \in Nat /\ m \in Nat /\ m > 0 /\ DOMAIN bytes = 1..m /\ line \in Nat
  BY <1>1
<1>3. new \in Seq(Nat) /\ Len(new) = m /\ \A i \in 1..m : new[i] = line
  <2>1. new \in [1..m -> Nat]
    BY <1>2
  <2>2. new \in Seq(Nat) /\ Len(new) = m
    BY <1>2, <2>1
  <2> QED BY <1>2, <2>2
<1>4. /\ code' \in Seq(AllBytes) /\ Len(code') = n + m
      /\ \A i \in 1..(n + m) : code'[i] = IF i <= n THEN code[i] ELSE bytes[i - n]
  <2>1. code' = code \o bytes
    BY DEF Write
  <2> QED BY <1>1, <2>1, ConcatProperties
<1>5. /\ line_of' \in Seq(Nat) /\ Len(line_of') = n + m
      /\ \A i \in 1..n : line_of'[i] = line_of[i]
      /\ \A i \in (n + 1)..(n + m) : line_of'[i] = line
  <2>1. line_of' = line_of \o new
    BY DEF Write
  <2> HIDE DEF new
  <2>2. /\ line_of' \in Seq(Nat) /\ Len(line_of') = n + m
        /\ \A i \in 1..(n + m) :
             line_of'[i] = IF i <= n THEN line_of[i] ELSE new[i - n]
    <3> HIDE DEF n, m
    <3>1. /\ line_of \o new \in Seq(Nat)
          /\ Len(line_of \o new) = Len(line_of) + Len(new)
          /\ \A i \in 1..(Len(line_of) + Len(new)) :
               (line_of \o new)[i] = IF i <= Len(line_of) THEN line_of[i]
                                     ELSE new[i - Len(line_of)]
      BY <1>1, <1>3, ConcatProperties
    <3> QED BY <1>1, <1>3, <2>1, <3>1
  <2>3. ASSUME NEW i \in 1..n PROVE line_of'[i] = line_of[i]
    <3>1. i \in 1..(n + m) /\ i <= n
      BY <1>2
    <3> QED BY <2>2, <3>1
  <2>4. ASSUME NEW i \in (n + 1)..(n + m) PROVE line_of'[i] = line
    <3>1. i \in 1..(n + m) /\ ~(i <= n) /\ i - n \in 1..m
      BY <1>2
    <3> QED BY <1>3, <2>2, <3>1
  <2> QED BY <2>2, <2>3, <2>4
<1>6. BytesInv'
  BY <1>1, <1>4, <1>5 DEF BytesInv
<1>7. \A i \in 1..n : code'[i] = code[i]
  BY <1>2, <1>4
<1>8. \A i \in 1..m : code'[n + i] = bytes[i]
  <2> TAKE i \in 1..m
  <2>1. n + i \in 1..(n + m) /\ ~(n + i <= n) /\ n + i - n = i
    BY <1>2
  <2> QED BY <1>4, <2>1
<1>9. Table(write_line(lines, n, line), n + m, line_of', line)
  <2>1. Table(lines, n, line_of, line)
    BY DEF TableInv
  <2> HIDE DEF n, m
  <2> QED BY <1>2, <1>5, <2>1, LineWritten
<1>10. TableInv'
  <2>1. lines' = write_line(lines, n, line) /\ line' = line
    BY DEF Write
  <2> QED BY <1>4, <1>9, <2>1 DEF TableInv
<1> QED BY <1>4, <1>6, <1>7, <1>8, <1>10

-----------------------------------------------------------------------------
(***************************************************************************)
(* Instructions and where they stand.                                      *)
(***************************************************************************)
Closures == {Closure, ClosureLong}

IsInstruction(e) ==
  /\ e \in [offset : Nat, opcode : 0..6, operand : Nat, upvalues : Seq(Upvalue)]
  /\ e.opcode \notin Closures => e.upvalues = <<>>
  /\ e.opcode \notin {Jump, Loop} => e.operand < Weight[Length(e.opcode) + 1]

Written(e) == Bytes(e.opcode, Length(e.opcode), e.operand, e.upvalues)

After(e) == e.offset + Len(Written(e))

\* In some code; the operand of a jump is patched, and its opcode is End before
\* when it is a break.
Stands(c, e) ==
  IF e.opcode = Jump THEN c[e.offset + 1] \in {Jump, End}
  ELSE \A k \in 1..Len(Written(e)) : c[e.offset + k] = Written(e)[k]

\* These instructions, and nothing else, are there from one offset to another.
Fills(c, es, from, to) ==
  /\ from \in Nat /\ to \in Nat /\ from <= to
  /\ \A e \in es :
       IsInstruction(e) /\ Stands(c, e) /\ from <= e.offset /\ After(e) <= to
  /\ \A e, f \in es : e = f \/ After(e) <= f.offset \/ After(f) <= e.offset
  /\ \A e \in es : After(e) = to \/ \E f \in es : f.offset = After(e)
  /\ from < to => \E e \in es : e.offset = from

\* A closure is known by its constant.
Known(es, count) ==
  \A e \in es : e.opcode \in Closures =>
    /\ e.operand < count
    /\ \A f \in es : f.opcode \in Closures /\ f.operand = e.operand => f = e

ProgramInv ==
  /\ steps \in Nat /\ constants \in Nat /\ constants <= sample.prelude + steps
  /\ Fills(code, instructions, 0, Len(code)) /\ Known(instructions, constants)

-----------------------------------------------------------------------------
(***************************************************************************)
(* Jumps.                                                                  *)
(***************************************************************************)
\* A jump with this for an opcode, as yet.
JumpAt(c, es, at, opc) ==
  \E e \in es : e.offset = at /\ e.opcode = Jump /\ c[at + 1] = opc

\* How far it is from the end of a jump.
Way(opc, t) == IF opc = Loop THEN t[1] + 3 - t[2] ELSE t[2] - (t[1] + 3)

Lands(c, es, t) ==
  \E e \in es :
    /\ e.offset = t[1] /\ e.opcode \in {Jump, Loop} /\ c[t[1] + 1] = e.opcode
    /\ Way(e.opcode, t) \in Nat /\ Way(e.opcode, t) < Weight[3]
    /\ c[t[1] + 2] = Digit(Way(e.opcode, t), 1)
    /\ c[t[1] + 3] = Digit(Way(e.opcode, t), 2)

AllLand(c, es, ts) == ts \subseteq Nat \X Nat /\ \A t \in ts : Lands(c, es, t)

Opened == [kind : {"jump", "loop"}, at : Nat, breaks : SUBSET Nat]

\* A jump to patch is a jump, that goes nowhere as yet.
Waits(c, es, ts, x) ==
  x.breaks = {} /\ JumpAt(c, es, x.at, Jump) /\ \A t \in ts : t[1] # x.at

\* A loop starts with an instruction, or at the end of the code so far; its
\* breaks are behind its start, and so is no closure with a long index.
Loops(c, es, x) ==
  /\ x.at = Len(c) \/ \E e \in es : e.offset = x.at
  /\ \A b \in x.breaks : b >= x.at /\ JumpAt(c, es, b, End)
  /\ \A e \in es : e.offset >= x.at => e.opcode # ClosureLong

Nested(x, y) ==
  /\ x.at <= y.at
  /\ x.kind = "jump" => x.at < y.at
  /\ y.kind = "loop" => \A b \in x.breaks : b < y.at

OpenRight(c, es, os, ts) ==
  /\ os \in Seq(Opened)
  /\ \A i \in 1..Len(os) :
       /\ os[i].at <= Len(c)
       /\ os[i].kind = "jump" => Waits(c, es, ts, os[i])
       /\ os[i].kind = "loop" => Loops(c, es, os[i])
  /\ \A i, j \in 1..Len(os) : i < j => Nested(os[i], os[j])

\* A placeholder is one of the breaks of a loop.
EndsRight(c, es, os) ==
  \A e \in es : c[e.offset + 1] = End =>
    \E i \in 1..Len(os) : os[i].kind = "loop" /\ e.offset \in os[i].breaks

JumpInv ==
  ~had_error =>
    /\ AllLand(code, instructions, targets)
    /\ OpenRight(code, instructions, open, targets)
    /\ EndsRight(code, instructions, open)

-----------------------------------------------------------------------------
(***************************************************************************)
(* The bytes of an instruction.                                            *)
(***************************************************************************)
LEMMA Opcodes ==
  /\ Length(Constant) = 1 /\ Length(ConstantLong) = 3 /\ Length(Nil) = 0
  /\ Length(Jump) = 2 /\ Length(Loop) = 2 /\ Length(Closure) = 1
  /\ Length(ClosureLong) = 3 /\ Length(End) = 0
  /\ Jump # End /\ Loop # End /\ Jump # Loop /\ Closure # ClosureLong
  /\ Constant \notin {Jump, Loop, End} /\ ConstantLong \notin {Jump, Loop, End}
  /\ Nil \notin {Jump, Loop, End}
  /\ Closures \subseteq 0..6 /\ {Constant, ConstantLong, Nil, Jump, Loop} \subseteq 0..6
  /\ \A opc \in Closures : opc \notin {Constant, ConstantLong, Nil, Jump, Loop, End}
  /\ \A index : /\ index < Base => /\ VarLength(Constant, index) = Constant
                                   /\ VarLength(Closure, index) = Closure
                /\ ~(index < Base) => /\ VarLength(Constant, index) = ConstantLong
                                      /\ VarLength(Closure, index) = ClosureLong
BY DEF Length, Closures, Constant, ConstantLong, Nil, Jump, Loop, Closure, ClosureLong, End,
       VarLength

LEMMA Lengths ==
  ASSUME NEW opc \in 0..6
  PROVE  /\ opc \in AllBytes /\ Length(opc) \in 0..3 /\ opc # End
         /\ opc \in {Jump, Loop} => Length(opc) = 2
<1>1. opc \in AllBytes
  BY Weights, ChunkAssumption DEF AllBytes
<1> QED BY <1>1 DEF Length, Constant, ConstantLong, Nil, Jump, Loop, Closure, ClosureLong,
                    End

LEMMA InstructionParts ==
  ASSUME NEW e, IsInstruction(e)
  PROVE  /\ e.offset \in Nat /\ e.opcode \in 0..6 /\ e.operand \in Nat
         /\ e.upvalues \in Seq(Upvalue)
         /\ e.opcode \notin Closures => e.upvalues = <<>>
         /\ e.opcode \notin {Jump, Loop} => e.operand < Weight[Length(e.opcode) + 1]
<1> DEFINE Records == [offset : Nat, opcode : 0..6, operand : Nat, upvalues : Seq(Upvalue)]
<1>1. e \in Records
  BY DEF IsInstruction
<1>2. \A x \in Records :
        x.offset \in Nat /\ x.opcode \in 0..6 /\ x.operand \in Nat
        /\ x.upvalues \in Seq(Upvalue)
  OBVIOUS
<1>3. e.offset \in Nat /\ e.opcode \in 0..6 /\ e.operand \in Nat
      /\ e.upvalues \in Seq(Upvalue)
  <2> HIDE DEF Records
  <2> QED BY <1>1, <1>2
<1> QED BY <1>3, Zenon DEF IsInstruction

LEMMA NoUpvalues ==
  /\ <<>> \in Seq(Upvalue) /\ Len(UpvalueBytes(<<>>)) = 0
<1>1. <<>> \in Seq(Upvalue) /\ Len(<<>>) = 0
  OBVIOUS
<1>2. PICK p \in [0..Len(<<>>) -> Nat] : UpvalueParts(p, <<>>)
  BY <1>1, UpvaluesWritten
<1>3. p[0] = 0 /\ p[Len(<<>>)] = Len(UpvalueBytes(<<>>))
  BY <1>2, Zenon DEF UpvalueParts
<1> QED BY <1>1, <1>3

LEMMA InstructionWritten ==
  ASSUME NEW e, IsInstruction(e)
  PROVE  LET n == Length(e.opcode)
             up == UpvalueBytes(e.upvalues)
         IN /\ Written(e) \in Seq(AllBytes) /\ Len(Written(e)) = 1 + n + Len(up)
            /\ Len(up) \in Nat /\ n \in 0..3 /\ Written(e)[1] = e.opcode
            /\ \A k \in 1..n : Written(e)[1 + k] = Digit(e.operand, k)
            /\ \A k \in 1..Len(up) : Written(e)[1 + n + k] = up[k]
            /\ After(e) = e.offset + 1 + n + Len(up) /\ After(e) \in Nat
            /\ After(e) > e.offset
            /\ e.opcode \in {Jump, Loop} => n = 2 /\ After(e) = e.offset + 3
<1> DEFINE n == Length(e.opcode)
           up == UpvalueBytes(e.upvalues)
           b == Bytes(e.opcode, n, e.operand, e.upvalues)
<1>1. e.offset \in Nat /\ e.opcode \in 0..6 /\ e.operand \in Nat
      /\ e.upvalues \in Seq(Upvalue)
  BY InstructionParts
<1>2. e.opcode \in AllBytes /\ n \in 0..3 /\ (e.opcode \in {Jump, Loop} => n = 2)
  BY <1>1, Lengths
<1>3. /\ b \in Seq(AllBytes) /\ Len(b) = 1 + n + Len(up) /\ Len(up) \in Nat
      /\ b[1] = e.opcode
      /\ \A k \in 1..n : b[1 + k] = Digit(e.operand, k)
      /\ \A k \in 1..Len(up) : b[1 + n + k] = up[k]
  <2> DEFINE opc == e.opcode
             v == e.operand
             us == e.upvalues
  <2>1. opc \in AllBytes /\ n \in 0..3 /\ v \in Nat /\ us \in Seq(Upvalue)
    BY <1>1, <1>2
  <2> HIDE DEF n, opc, v, us
  <2>2. BytesRight(opc, n, v, us, Bytes(opc, n, v, us))
    BY <2>1, BytesWritten
  <2>3. BytesRight(opc, n, v, us, b)
    BY <2>2 DEF opc, v, us
  <2> HIDE DEF b
  <2> QED BY <2>3 DEF BytesRight, opc, v, us
<1>4. Written(e) = b
  BY DEF Written
<1>5. e.opcode \in {Jump, Loop} => Len(up) = 0
  <2> SUFFICES ASSUME e.opcode \in {Jump, Loop} PROVE Len(up) = 0
    OBVIOUS
  <2>1. e.opcode \notin Closures
    BY DEF Closures, Closure, ClosureLong, Jump, Loop
  <2>2. e.upvalues = <<>>
    BY <2>1, InstructionParts
  <2> QED BY <2>2, NoUpvalues
<1> HIDE DEF n, up, b
<1>6. /\ After(e) = e.offset + 1 + n + Len(up) /\ After(e) \in Nat
      /\ After(e) > e.offset
      /\ e.opcode \in {Jump, Loop} => After(e) = e.offset + 3
  <2> DEFINE o == e.offset
             m == Len(up)
             w == Len(Written(e))
  <2>1. o \in Nat /\ n \in 0..3 /\ m \in Nat /\ w = 1 + n + m
    BY <1>1, <1>2, <1>3, <1>4
  <2>2. After(e) = o + w
    BY DEF After
  <2>3. e.opcode \in {Jump, Loop} => n = 2 /\ m = 0
    BY <1>2, <1>5
  <2> HIDE DEF o, m, w
  <2>4. /\ After(e) = o + 1 + n + m /\ After(e) \in Nat /\ After(e) > o
        /\ e.opcode \in {Jump, Loop} => After(e) = o + 3
    BY <2>1, <2>2, <2>3
  <2> QED BY <2>4 DEF o, m
<1> QED BY <1>2, <1>3, <1>4, <1>6 DEF n, up

\* The first byte of an instruction is its opcode, or End for a break.
LEMMA FirstByte ==
  ASSUME NEW c, NEW e, IsInstruction(e), Stands(c, e)
  PROVE  /\ e.opcode # Jump => c[e.offset + 1] = e.opcode
         /\ e.opcode = Jump => c[e.offset + 1] \in {Jump, End}
<1>1. Written(e)[1] = e.opcode /\ Len(Written(e)) \in Nat /\ Len(Written(e)) >= 1
  BY InstructionWritten
<1>2. 1 \in 1..Len(Written(e))
  BY <1>1
<1> QED BY <1>1, <1>2 DEF Stands

LEMMA StandsKept ==
  ASSUME NEW c, NEW d, NEW e, IsInstruction(e), Stands(c, e),
         \A o \in (e.offset + 1)..After(e) : d[o] = c[o]
  PROVE  Stands(d, e)
<1>1. /\ e.offset \in Nat /\ Len(Written(e)) \in Nat /\ Len(Written(e)) >= 1
      /\ After(e) = e.offset + Len(Written(e))
  BY InstructionParts, InstructionWritten DEF After
<1>2. \A k \in 1..Len(Written(e)) : d[e.offset + k] = c[e.offset + k]
  <2> DEFINE m == Len(Written(e))
             o == e.offset
             t == After(e)
  <2> HIDE DEF m
  <2>1. \A k \in 1..m : e.offset + k \in (e.offset + 1)..t
    <3>1. o \in Nat /\ m \in Nat /\ t = o + m
      BY <1>1 DEF m
    <3> HIDE DEF o, t
    <3>2. \A k \in 1..m : o + k \in (o + 1)..t
      BY <3>1
    <3> QED BY <3>2 DEF o
  <2>2. \A k \in 1..m : d[e.offset + k] = c[e.offset + k]
    BY <2>1
  <2> QED BY <2>2 DEF m
<1>3. 1 \in 1..Len(Written(e))
  BY <1>1
<1> QED BY <1>2, <1>3 DEF Stands

LEMMA FillsNone ==
  ASSUME NEW c, NEW from \in Nat PROVE Fills(c, {}, from, from)
BY DEF Fills

LEMMA FillsOne ==
  ASSUME NEW c, NEW e, IsInstruction(e), Stands(c, e)
  PROVE  Fills(c, {e}, e.offset, After(e))
<1>1. e.offset \in Nat /\ After(e) \in Nat /\ e.offset < After(e)
  BY InstructionParts, InstructionWritten
<1> QED BY <1>1 DEF Fills

\* What is said of two instructions.
LEMMA FillsApart ==
  ASSUME NEW c, NEW es, NEW from, NEW to, Fills(c, es, from, to), NEW e \in es
  PROVE  /\ IsInstruction(e) /\ Stands(c, e) /\ e.offset \in Nat /\ After(e) \in Nat
         /\ from <= e.offset /\ e.offset < After(e) /\ After(e) <= to
         /\ \A f \in es : f = e \/ After(e) <= f.offset \/ After(f) <= e.offset
         /\ \A f \in es : f.offset = e.offset => f = e
         /\ \A f \in es : f.offset > e.offset => f.offset >= After(e)
<1>1. IsInstruction(e) /\ Stands(c, e) /\ from <= e.offset /\ After(e) <= to
  BY Zenon DEF Fills
<1>2. \A f \in es : f = e \/ After(e) <= f.offset \/ After(f) <= e.offset
  BY Zenon DEF Fills
<1>3. \A f \in es : f.offset \in Nat /\ After(f) \in Nat /\ f.offset < After(f)
  <2> TAKE f \in es
  <2>1. IsInstruction(f)
    BY Zenon DEF Fills
  <2> QED BY <2>1, InstructionParts, InstructionWritten
<1>4. ASSUME NEW f \in es, f.offset = e.offset PROVE f = e
  BY <1>2, <1>3, <1>4
<1>5. ASSUME NEW f \in es, f.offset > e.offset PROVE f.offset >= After(e)
  <2>1. f # e
    BY <1>3, <1>5
  <2> QED BY <1>2, <1>3, <1>5, <2>1
<1> QED BY <1>1, <1>2, <1>3, <1>4, <1>5

\* Instructions after others.
LEMMA FillsJoin ==
  ASSUME NEW c, NEW d, NEW es, NEW fs, NEW a, NEW b, NEW t,
         Fills(c, es, a, b), Fills(d, fs, b, t), \A o \in (a + 1)..b : d[o] = c[o]
  PROVE  Fills(d, es \union fs, a, t)
<1>1. a \in Nat /\ b \in Nat /\ t \in Nat /\ a <= b /\ b <= t
  BY Zenon DEF Fills
<1>2. ASSUME NEW e \in es
      PROVE  /\ IsInstruction(e) /\ a <= e.offset /\ After(e) <= b /\ After(e) <= t
             /\ Stands(d, e) /\ e.offset \in Nat /\ After(e) \in Nat /\ e.offset < After(e)
  <2>1. /\ IsInstruction(e) /\ Stands(c, e) /\ a <= e.offset /\ After(e) <= b
        /\ e.offset \in Nat /\ After(e) \in Nat /\ e.offset < After(e)
    BY FillsApart
  <2>2. \A o \in (e.offset + 1)..After(e) : o \in (a + 1)..b
    BY <1>1, <2>1
  <2>3. Stands(d, e)
    BY <2>1, <2>2, StandsKept
  <2> QED BY <1>1, <2>1, <2>3
<1>3. ASSUME NEW e \in fs
      PROVE  /\ IsInstruction(e) /\ Stands(d, e) /\ b <= e.offset /\ a <= e.offset
             /\ After(e) <= t /\ e.offset \in Nat
  <2>1. /\ IsInstruction(e) /\ Stands(d, e) /\ b <= e.offset /\ After(e) <= t
        /\ e.offset \in Nat
    BY FillsApart
  <2> QED BY <1>1, <2>1
<1>4. ASSUME NEW e \in es \union fs, NEW f \in es \union fs
      PROVE  e = f \/ After(e) <= f.offset \/ After(f) <= e.offset
  <2>1. CASE e \in es /\ f \in es
    BY <2>1, Zenon DEF Fills
  <2>2. CASE e \in fs /\ f \in fs
    BY <2>2, Zenon DEF Fills
  <2>3. CASE e \in es /\ f \in fs
    BY <1>1, <1>2, <1>3, <2>3
  <2>4. CASE e \in fs /\ f \in es
    BY <1>1, <1>2, <1>3, <2>4
  <2> QED BY <2>1, <2>2, <2>3, <2>4
<1>5. b < t => \E f \in fs : f.offset = b
  BY Zenon DEF Fills
<1>6. ASSUME NEW e \in es \union fs
      PROVE  After(e) = t \/ \E f \in es \union fs : f.offset = After(e)
  <2>1. CASE e \in es
    <3>1. After(e) = b \/ \E f \in es : f.offset = After(e)
      BY <2>1, Zenon DEF Fills
    <3>2. ASSUME After(e) = b, b # t PROVE \E f \in es \union fs : f.offset = After(e)
      BY <1>1, <1>5, <3>2
    <3> QED BY <3>1, <3>2
  <2>2. CASE e \in fs
    <3>1. After(e) = t \/ \E f \in fs : f.offset = After(e)
      BY <2>2, Zenon DEF Fills
    <3> QED BY <3>1
  <2> QED BY <2>1, <2>2
<1>7. ASSUME a < t PROVE \E e \in es \union fs : e.offset = a
  <2>1. CASE a < b
    <3>1. \E e \in es : e.offset = a
      BY <2>1, Zenon DEF Fills
    <3> QED BY <3>1
  <2>2. CASE ~(a < b)
    <3>1. a = b /\ b < t
      BY <1>1, <1>7, <2>2
    <3> QED BY <1>5, <3>1
  <2> QED BY <2>1, <2>2
<1>8. a <= t
  BY <1>1
<1>9. \A e \in es \union fs :
        IsInstruction(e) /\ Stands(d, e) /\ a <= e.offset /\ After(e) <= t
  BY <1>2, <1>3
<1> QED BY <1>1, <1>4, <1>6, <1>7, <1>8, <1>9, Zenon DEF Fills

IsEmitted(e, o, opc, v, us) ==
  /\ IsInstruction(e) /\ e.offset = o /\ e.opcode = opc /\ e.operand = v
  /\ e.upvalues = us /\ Written(e) = Bytes(opc, Length(opc), v, us)
  /\ After(e) = o + Len(Written(e))

LEMMA EmittedRight ==
  ASSUME NEW o \in Nat, NEW opc \in 0..6, NEW v \in Nat, NEW us \in Seq(Upvalue),
         opc \notin Closures => us = <<>>,
         opc \notin {Jump, Loop} => v < Weight[Length(opc) + 1]
  PROVE  IsEmitted(Emitted(o, opc, v, us), o, opc, v, us)
<1> DEFINE e == Emitted(o, opc, v, us)
           Records == [offset : Nat, opcode : 0..6, operand : Nat, upvalues : Seq(Upvalue)]
<1>1. e \in Records /\ e.offset = o /\ e.opcode = opc /\ e.operand = v /\ e.upvalues = us
  BY DEF Emitted
<1> HIDE DEF e, Records
<1>2. IsInstruction(e)
  BY <1>1 DEF IsInstruction, Records
<1>3. Written(e) = Bytes(opc, Length(opc), v, us)
  BY <1>1 DEF Written
<1>4. IsEmitted(e, o, opc, v, us)
  BY <1>1, <1>2, <1>3 DEF IsEmitted, After
<1> QED BY <1>4 DEF e

LEMMA NilEmitted ==
  ASSUME NEW o \in Nat
  PROVE  LET e == Emitted(o, Nil, 0, <<>>)
         IN /\ IsInstruction(e) /\ e.offset = o /\ e.opcode = Nil /\ After(e) = o + 1
            /\ Len(Written(e)) = 1 /\ Written(e)[1] = Nil
            /\ \A c : c[o + 1] = Nil => Stands(c, e)
<1> DEFINE e == Emitted(o, Nil, 0, <<>>)
<1>1. Nil \in 0..6 /\ Length(Nil) = 0 /\ Nil # Jump
  BY DEF Nil, Length, Constant, ConstantLong, Jump, Loop, Closure, ClosureLong, End
<1>2. 0 < Weight[Length(Nil) + 1]
  BY <1>1, Weights
<1>3. /\ IsInstruction(e) /\ e.offset = o /\ e.opcode = Nil /\ e.operand = 0
      /\ e.upvalues = <<>>
  <2> DEFINE us == <<>>
             opc == Nil
             v == 0
  <2>1. /\ us \in Seq(Upvalue) /\ opc \in 0..6 /\ v \in Nat
        /\ opc \notin Closures => us = <<>>
        /\ opc \notin {Jump, Loop} => v < Weight[Length(opc) + 1]
    BY <1>1, <1>2, NoUpvalues
  <2> HIDE DEF us, opc, v
  <2>2. IsEmitted(Emitted(o, opc, v, us), o, opc, v, us)
    BY <2>1, EmittedRight
  <2>3. IsEmitted(e, o, Nil, 0, <<>>)
    BY <2>2 DEF us, opc, v
  <2> HIDE DEF e
  <2> QED BY <2>3 DEF IsEmitted
<1> HIDE DEF e
<1>4. /\ Written(e)[1] = Nil /\ Len(Written(e)) = 1 + 0 + Len(UpvalueBytes(e.upvalues))
  BY <1>1, <1>3, InstructionWritten
<1>5. Len(Written(e)) = 1
  BY <1>3, <1>4, NoUpvalues
<1>6. After(e) = o + 1
  BY <1>3, <1>5 DEF After
<1>7. ASSUME NEW c, c[o + 1] = Nil PROVE Stands(c, e)
  <2>1. ASSUME NEW k \in 1..Len(Written(e)) PROVE c[e.offset + k] = Written(e)[k]
    <3>1. k = 1
      BY <1>5
    <3> QED BY <1>3, <1>4, <1>7, <3>1
  <2> QED BY <1>1, <1>3, <2>1, Zenon DEF Stands
<1> QED BY <1>3, <1>4, <1>5, <1>6, <1>7 DEF e

\* A run of instructions without operands.
LEMMA FillsNils ==
  ASSUME NEW c, NEW n \in Nat, NEW m \in Nat, \A i \in 1..m : c[n + i] = Nil
  PROVE  Fills(c, {Emitted(n + i, Nil, 0, <<>>) : i \in 0..(m - 1)}, n, n + m)
<1> DEFINE at(i) == Emitted(n + i, Nil, 0, <<>>)
           es == {at(i) : i \in 0..(m - 1)}
<1>1. ASSUME NEW i \in 0..(m - 1)
      PROVE  /\ IsInstruction(at(i)) /\ Stands(c, at(i)) /\ at(i).offset = n + i
             /\ After(at(i)) = n + i + 1 /\ i \in Nat /\ i < m
  <2>1. n + i \in Nat /\ i + 1 \in 1..m /\ n + (i + 1) = n + i + 1
    OBVIOUS
  <2>2. c[n + i + 1] = Nil
    <3>1. c[n + (i + 1)] = Nil
      BY <2>1
    <3> QED BY <2>1, <3>1
  <2> QED BY <2>1, <2>2, NilEmitted
<1> HIDE DEF at
<1>2. ASSUME NEW e \in es
      PROVE  \E i \in 0..(m - 1) :
               /\ e = at(i) /\ IsInstruction(e) /\ Stands(c, e) /\ e.offset = n + i
               /\ After(e) = n + i + 1 /\ i \in Nat /\ i < m
  BY <1>1
<1>3. ASSUME NEW e \in es, NEW f \in es
      PROVE  e = f \/ After(e) <= f.offset \/ After(f) <= e.offset
  <2>1. PICK i \in 0..(m - 1) : e = at(i) /\ e.offset = n + i /\ After(e) = n + i + 1
    BY <1>2
  <2>2. PICK j \in 0..(m - 1) : f = at(j) /\ f.offset = n + j /\ After(f) = n + j + 1
    BY <1>2
  <2> QED BY <2>1, <2>2
<1>4. ASSUME NEW e \in es
      PROVE  After(e) = n + m \/ \E f \in es : f.offset = After(e)
  <2>1. PICK i \in 0..(m - 1) : After(e) = n + i + 1
    BY <1>2
  <2>2. CASE i = m - 1
    BY <2>1, <2>2
  <2>3. CASE i # m - 1
    <3>1. i + 1 \in 0..(m - 1)
      BY <2>3
    <3>2. at(i + 1) \in es /\ at(i + 1).offset = n + (i + 1)
      BY <1>1, <3>1
    <3>3. at(i + 1).offset = After(e)
      BY <2>1, <3>2
    <3> QED BY <3>2, <3>3
  <2> QED BY <2>2, <2>3
<1>5. ASSUME n < n + m PROVE \E e \in es : e.offset = n
  <2>1. 0 \in 0..(m - 1)
    BY <1>5
  <2>2. at(0) \in es /\ at(0).offset = n + 0
    BY <1>1, <2>1
  <2>3. at(0).offset = n
    BY <2>2
  <2> QED BY <2>2, <2>3
<1>6. \A e \in es : IsInstruction(e) /\ Stands(c, e) /\ n <= e.offset /\ After(e) <= n + m
  <2> TAKE e \in es
  <2>1. PICK i \in 0..(m - 1) :
          /\ IsInstruction(e) /\ Stands(c, e) /\ e.offset = n + i
          /\ After(e) = n + i + 1 /\ i \in Nat /\ i < m
    BY <1>2
  <2> QED BY <2>1
<1>7. Fills(c, es, n, n + m)
  <2> HIDE DEF es
  <2>1. n \in Nat /\ n + m \in Nat /\ n <= n + m
    OBVIOUS
  <2> QED BY <1>3, <1>4, <1>5, <1>6, <2>1 DEF Fills
<1> QED BY <1>7 DEF at

\* A jump is patched: no byte of another instruction changes.
LEMMA FillsKept ==
  ASSUME NEW c, NEW d, NEW es, NEW a, NEW b, Fills(c, es, a, b),
         \A e \in es : e.opcode = Jump => d[e.offset + 1] \in {Jump, End},
         \A o \in (a + 1)..b : d[o] = c[o] \/ \E e \in es :
             e.opcode = Jump /\ o \in (e.offset + 1)..After(e)
  PROVE  Fills(d, es, a, b)
<1>1. ASSUME NEW e \in es PROVE Stands(d, e)
  <2>1. CASE e.opcode = Jump
    BY <2>1 DEF Stands
  <2>2. CASE e.opcode # Jump
    <3>1. /\ IsInstruction(e) /\ Stands(c, e) /\ e.offset \in Nat /\ After(e) \in Nat
          /\ a <= e.offset /\ After(e) <= b
          /\ \A f \in es : f = e \/ After(e) <= f.offset \/ After(f) <= e.offset
      BY FillsApart
    <3>2. ASSUME NEW o \in (e.offset + 1)..After(e), d[o] # c[o] PROVE FALSE
      <4>1. a \in Nat /\ b \in Nat
        BY Zenon DEF Fills
      <4>2. o \in (a + 1)..b
        BY <3>1, <4>1
      <4>3. PICK f \in es : f.opcode = Jump /\ o \in (f.offset + 1)..After(f)
        BY <3>2, <4>2
      <4>4. f.offset \in Nat /\ After(f) \in Nat /\ f # e
        BY <2>2, <4>3, FillsApart
      <4> QED BY <3>1, <4>3, <4>4
    <3> QED BY <3>1, <3>2, StandsKept
  <2> QED BY <2>1, <2>2
<1> QED BY <1>1, Zenon DEF Fills

-----------------------------------------------------------------------------
(***************************************************************************)
(* Reading an instruction where it stands.                                 *)
(***************************************************************************)
LEMMA OperandStands ==
  ASSUME NEW e, IsInstruction(e), Stands(code, e), e.opcode \notin {Jump, Loop}
  PROVE  Byte(e.offset) = e.opcode /\ Operand(e.offset) = e.operand
<1> DEFINE n == Length(e.opcode)
           v == e.operand
           at == e.offset + 1
<1>1. e.offset \in Nat /\ v \in Nat /\ n \in 0..3 /\ v < Weight[n + 1]
  BY InstructionParts, InstructionWritten
<1>2. Byte(e.offset) = e.opcode
  BY FirstByte DEF Byte
<1>3. ASSUME NEW k \in 1..n PROVE code[at + k] = Digit(v, k)
  <2>1. Written(e)[1 + k] = Digit(v, k) /\ 1 + k \in 1..Len(Written(e))
    <3>1. /\ Len(Written(e)) = 1 + n + Len(UpvalueBytes(e.upvalues))
          /\ Len(UpvalueBytes(e.upvalues)) \in Nat
          /\ Written(e)[1 + k] = Digit(v, k)
      BY InstructionWritten
    <3> HIDE DEF n
    <3> QED BY <1>1, <3>1
  <2>2. code[e.offset + (1 + k)] = Written(e)[1 + k]
    BY <2>1, Zenon DEF Stands
  <2>3. e.offset + (1 + k) = at + k
    BY <1>1
  <2> QED BY <2>1, <2>2, <2>3
<1>4. at \in Nat
  BY <1>1
<1>5. read_multibyte_operand(n, at) = v
  <2> HIDE DEF n, v, at
  <2> QED BY <1>1, <1>3, <1>4, OperandRead
<1> QED BY <1>2, <1>5 DEF Operand

\* Closures are told apart by their constants.
LEMMA UpvaluesCounted ==
  ASSUME NEW e \in instructions, Known(instructions, constants), e.opcode \in Closures
  PROVE  upvalue_count(e.operand) = Len(e.upvalues)
<1> DEFINE es == {f \in instructions :
                    f.opcode \in {Closure, ClosureLong} /\ f.operand = e.operand}
<1>1. \A f \in instructions : f.opcode \in Closures /\ f.operand = e.operand => f = e
  BY Zenon DEF Known
<1>2. es = {e}
  BY <1>1 DEF Closures
<1>3. upvalue_count(e.operand) = IF es = {} THEN 0 ELSE Len((CHOOSE f \in es : TRUE).upvalues)
  BY DEF upvalue_count
<1> HIDE DEF es
<1>4. (CHOOSE f \in es : TRUE) = e
  BY <1>2
<1> QED BY <1>2, <1>3, <1>4

\* What a closure captures, and where the next instruction is.
LEMMA UpvaluesStand ==
  ASSUME NEW e, IsInstruction(e), Stands(code, e), e.opcode \in Closures
  PROVE  /\ AfterOperands(OperandsEnd(e.offset), Len(e.upvalues)) = After(e)
         /\ \A i \in 1..Len(e.upvalues) :
              read_closure_operand(
                ClosureOperands(OperandsEnd(e.offset), Len(e.upvalues))[i - 1])
                = e.upvalues[i]
<1> DEFINE us == e.upvalues
           up == UpvalueBytes(us)
           n == Length(e.opcode)
           at == OperandsEnd(e.offset)
<1>0. e.opcode \notin {Jump, Loop}
  BY DEF Closures, Closure, ClosureLong, Jump, Loop
<1>1. /\ e.offset \in Nat /\ us \in Seq(Upvalue) /\ n \in 0..3 /\ Len(up) \in Nat
      /\ Len(Written(e)) = 1 + n + Len(up) /\ After(e) = e.offset + 1 + n + Len(up)
      /\ \A k \in 1..Len(up) : Written(e)[1 + n + k] = up[k]
  BY InstructionParts, InstructionWritten
<1>2. at = e.offset + 1 + n /\ at \in Nat
  BY <1>0, <1>1, OperandStands DEF OperandsEnd
<1>3. ASSUME NEW k \in 1..Len(up) PROVE code[at + k] = up[k]
  <2>1. 1 + n + k \in 1..Len(Written(e)) /\ e.offset + (1 + n + k) = at + k
    <3> DEFINE m == Len(up)
               w == Len(Written(e))
               o == e.offset
    <3>1. /\ o \in Nat /\ n \in 0..3 /\ m \in Nat /\ w = 1 + n + m /\ k \in 1..m
          /\ at = o + 1 + n
      BY <1>1, <1>2
    <3> HIDE DEF m, w, o, n, at
    <3>2. 1 + n + k \in 1..w /\ o + (1 + n + k) = at + k
      BY <3>1
    <3> QED BY <3>2 DEF w, o
  <2>2. code[e.offset + (1 + n + k)] = Written(e)[1 + n + k]
    BY <1>0, <2>1, Zenon DEF Stands
  <2> QED BY <1>1, <2>1, <2>2
<1>4. PICK p \in [0..Len(us) -> Nat] : UpvalueParts(p, us)
  BY <1>1, UpvaluesWritten
<1>5. Reads(at, us, p)
  <2>1. ASSUME NEW i \in 1..Len(us), NEW k \in 1..(1 + IndexLength(us[i][2]))
        PROVE  code[at + p[i - 1] + k] = ClosureOperand(us[i])[k]
    <3>1. /\ up[p[i - 1] + k] = ClosureOperand(us[i])[k]
          /\ p[i] = p[i - 1] + 1 + IndexLength(us[i][2]) /\ p[i] <= Len(up)
      BY <1>4 DEF UpvalueParts
    <3>2. Len(us) \in Nat /\ i - 1 \in 0..Len(us) /\ p[i - 1] \in Nat
      <4> DEFINE m == Len(us)
      <4>1. m \in Nat
        BY <1>1
      <4> HIDE DEF m
      <4>2. i \in 1..m /\ p \in [0..m -> Nat]
        BY DEF m
      <4>3. i - 1 \in 0..m
        BY <4>1, <4>2
      <4>4. p[i - 1] \in Nat
        BY <4>2, <4>3
      <4> QED BY <4>1, <4>3, <4>4 DEF m
    <3>3. p[i - 1] + k \in 1..Len(up) /\ at + (p[i - 1] + k) = at + p[i - 1] + k
      <4> DEFINE q == p[i - 1]
                 r == p[i]
                 m == Len(up)
                 j == IndexLength(us[i][2])
      <4>1. q \in Nat /\ r = q + 1 + j /\ r <= m /\ m \in Nat /\ at \in Nat /\ j \in Nat
        <5>1. us[i] \in Upvalue
          BY <1>1
        <5>2. us[i][2] \in 0..(Weight[4] - 1)
          BY <5>1 DEF Upvalue
        <5>3. j \in 1..3
          BY <5>2, IndexLengths
        <5>4. q \in Nat /\ r = q + 1 + j /\ r <= m
          BY <3>1, <3>2, Zenon
        <5>5. m \in Nat /\ at \in Nat
          BY <1>1, <1>2, Zenon
        <5> HIDE DEF q, r, m, j, at
        <5>6. j \in Nat
          BY <5>3
        <5> QED BY <5>4, <5>5, <5>6
      <4>2. k \in Nat /\ 1 <= k /\ k <= 1 + j
        BY <4>1
      <4> HIDE DEF q, r, m, j, at
      <4>3. q + k \in 1..m /\ at + (q + k) = at + q + k
        BY <4>1, <4>2
      <4> QED BY <4>3 DEF q, m
    <3>4. code[at + (p[i - 1] + k)] = up[p[i - 1] + k]
      BY <1>3, <3>3
    <3> QED BY <3>1, <3>3, <3>4
  <2> HIDE DEF us, at
  <2> QED BY <2>1 DEF Reads
<1>6. /\ \A i \in 0..Len(us) : ClosureOperands(at, Len(us))[i] = at + p[i]
      /\ \A i \in 1..Len(us) : read_closure_operand(at + p[i - 1]) = us[i]
  <2> HIDE DEF us, at
  <2> QED BY <1>1, <1>2, <1>4, <1>5, OperandsRead
<1>7. p[Len(us)] = Len(up) /\ Len(us) \in Nat
  BY <1>1, <1>4 DEF UpvalueParts
<1>8. AfterOperands(at, Len(us)) = After(e)
  <2>1. ClosureOperands(at, Len(us))[Len(us)] = at + Len(up)
    BY <1>6, <1>7
  <2>2. at + Len(up) = After(e)
    BY <1>1, <1>2
  <2> QED BY <2>1, <2>2 DEF AfterOperands
<1>9. ASSUME NEW i \in 1..Len(us)
      PROVE  read_closure_operand(ClosureOperands(at, Len(us))[i - 1]) = us[i]
  <2>1. i - 1 \in 0..Len(us)
    BY <1>7
  <2>2. ClosureOperands(at, Len(us))[i - 1] = at + p[i - 1]
    BY <1>6, <2>1
  <2> QED BY <1>6, <2>2
<1> QED BY <1>8, <1>9

InstructionRead(e) ==
  /\ Byte(e.offset) = e.opcode /\ NextInstruction(e.offset) = After(e)
  /\ e.opcode \notin {Jump, Loop} => Operand(e.offset) = e.operand
  /\ Upvalues(e.offset) = e.upvalues

\* The disassembler and the VM read an instruction, and go on to the next.
LEMMA NextRead ==
  ASSUME NEW e \in instructions, IsInstruction(e), Stands(code, e),
         Known(instructions, constants), Byte(e.offset) # End
  PROVE  InstructionRead(e)
<1>1. /\ e.offset \in Nat /\ e.opcode \in 0..6 /\ e.upvalues \in Seq(Upvalue)
      /\ Length(e.opcode) \in 0..3
      /\ e.opcode \notin Closures => e.upvalues = <<>>
      /\ After(e) = e.offset + 1 + Length(e.opcode) + Len(UpvalueBytes(e.upvalues))
  BY InstructionParts, InstructionWritten
<1>2. Byte(e.offset) = e.opcode
  BY FirstByte DEF Byte
<1>3. e.opcode \notin {Jump, Loop} => Operand(e.offset) = e.operand
  BY OperandStands
<1>4. CASE e.opcode \notin Closures
  <2>1. e.upvalues = <<>> /\ Len(UpvalueBytes(e.upvalues)) = 0
    BY <1>1, <1>4, NoUpvalues
  <2>2. NextInstruction(e.offset) = After(e)
    BY <1>1, <1>2, <1>4, <2>1 DEF NextInstruction, OperandsEnd, Closures
  <2>3. Upvalues(e.offset) = <<>>
    BY <1>2, <1>4 DEF Upvalues, Closures
  <2> QED BY <1>2, <1>3, <2>1, <2>2, <2>3 DEF InstructionRead
<1>5. CASE e.opcode \in Closures
  <2>1. e.opcode \notin {Jump, Loop}
    BY <1>5 DEF Closures, Closure, ClosureLong, Jump, Loop
  <2>2. upvalue_count(Operand(e.offset)) = Len(e.upvalues)
    BY <1>3, <1>5, <2>1, UpvaluesCounted
  <2>3. /\ AfterOperands(OperandsEnd(e.offset), Len(e.upvalues)) = After(e)
        /\ \A i \in 1..Len(e.upvalues) :
             read_closure_operand(
               ClosureOperands(OperandsEnd(e.offset), Len(e.upvalues))[i - 1])
               = e.upvalues[i]
    BY <1>5, UpvaluesStand
  <2>4. NextInstruction(e.offset) = After(e)
    BY <1>2, <1>5, <2>2, <2>3 DEF NextInstruction, Closures
  <2>5. Upvalues(e.offset) = e.upvalues
    <3> DEFINE us == e.upvalues
               m == Len(us)
               at == OperandsEnd(e.offset)
               read == [i \in 1..m |->
                          read_closure_operand(ClosureOperands(at, m)[i - 1])]
    <3>1. Upvalues(e.offset) = read
      BY <1>2, <1>5, <2>2 DEF Upvalues, Closures
    <3>2. \A i \in 1..m : read[i] = us[i]
      BY <2>3
    <3>3. us = [i \in 1..m |-> us[i]]
      BY <1>1
    <3>4. read = [i \in 1..m |-> us[i]]
      BY <3>2
    <3> QED BY <3>1, <3>3, <3>4
  <2> QED BY <1>2, <1>3, <2>4, <2>5 DEF InstructionRead
<1> QED BY <1>4, <1>5

\* So does the compiler, placeholders included, but for long closures.
LEMMA NextFound ==
  ASSUME NEW e \in instructions, IsInstruction(e), Stands(code, e),
         Known(instructions, constants), e.opcode # ClosureLong
  PROVE  NextInLoop(e.offset) = After(e)
<1>1. /\ e.offset \in Nat /\ e.opcode \in 0..6 /\ Length(e.opcode) \in 0..3
      /\ e.opcode \notin Closures => e.upvalues = <<>>
      /\ After(e) = e.offset + 1 + Length(e.opcode) + Len(UpvalueBytes(e.upvalues))
      /\ e.opcode = Jump => After(e) = e.offset + 3
  BY InstructionParts, InstructionWritten
<1>2. /\ e.opcode # Jump => Byte(e.offset) = e.opcode
      /\ e.opcode = Jump => Byte(e.offset) \in {Jump, End}
  BY FirstByte DEF Byte
<1>3. CASE e.opcode \in Closures
  <2>1. e.opcode \notin {Jump, Loop} /\ e.opcode = Closure /\ Length(Closure) = 1
    BY <1>3, Opcodes DEF Closures
  <2>2. Byte(e.offset) = Closure /\ Operand(e.offset) = e.operand
    BY <2>1, OperandStands
  <2>3. upvalue_count(Operand(e.offset)) = Len(e.upvalues)
    BY <1>3, <2>2, UpvaluesCounted
  <2>4. AfterOperands(OperandsEnd(e.offset), Len(e.upvalues)) = After(e)
    BY <1>3, UpvaluesStand
  <2>5. OperandsEnd(e.offset) = e.offset + 2
    BY <1>1, <2>1, <2>2 DEF OperandsEnd
  <2>6. NextInLoop(e.offset)
          = AfterOperands(e.offset + 2, upvalue_count(Operand(e.offset)))
    BY <2>2 DEF NextInLoop, Operand
  <2> QED BY <2>3, <2>4, <2>5, <2>6
<1>4. CASE e.opcode \notin Closures
  <2>1. Len(UpvalueBytes(e.upvalues)) = 0
    BY <1>1, <1>4, NoUpvalues
  <2>2. Length(Jump) = 2 /\ Jump \notin Closures /\ End \notin Closures /\ Jump # End
        /\ e.opcode # End
    BY <1>1, Opcodes DEF Jump, End, Closures, Closure, ClosureLong
  <2>3. CASE e.opcode = Jump
    BY <1>1, <1>2, <2>2, <2>3 DEF NextInLoop, Closures
  <2>4. CASE e.opcode # Jump
    <3>1. Byte(e.offset) = e.opcode /\ Byte(e.offset) # End
      BY <1>2, <2>2, <2>4
    <3> QED BY <1>1, <1>4, <2>1, <3>1 DEF NextInLoop, Closures
  <2> QED BY <2>3, <2>4
<1> QED BY <1>3, <1>4

LEMMA ForwardOnce ==
  ASSUME NEW o \in Nat, NEW next \in Nat, o < next, next <= Len(code), Len(code) \in Nat
  PROVE  Forward(o, next) = next
<1>1. next \in (o + 1)..Len(code)
  OBVIOUS
<1> QED BY <1>1, Zenon DEF Forward

Starts(es) == {e.offset : e \in es}

\* The starts of instructions are steps of a walk.
LEMMA StartsWalk ==
  ASSUME NEW c, NEW es, NEW n \in Nat, Fills(c, es, 0, n), NEW at \in Nat, at <= n,
         at = n \/ \E e \in es : e.offset = at, NEW next,
         \A e \in es : e.offset >= at => next[e.offset] = After(e)
  PROVE  LET starts == {s \in Starts(es) : s >= at}
         IN /\ starts \in SUBSET (0..(n - 1)) /\ at \in starts \union {n}
            /\ \A s \in starts : /\ next[s] \in starts \union {n} /\ next[s] > s
                                 /\ \A r \in starts : r > s => r >= next[s]
<1> DEFINE starts == {s \in Starts(es) : s >= at}
<1>1. ASSUME NEW s \in starts
      PROVE  \E e \in es : /\ s = e.offset /\ s \in Nat /\ s >= at /\ After(e) \in Nat
                           /\ s < After(e) /\ After(e) <= n /\ next[s] = After(e)
                           /\ \A f \in es : f.offset > s => f.offset >= After(e)
                           /\ After(e) = n \/ \E f \in es : f.offset = After(e)
  <2>1. PICK e \in es : s = e.offset /\ s >= at
    BY DEF Starts
  <2>2. /\ e.offset \in Nat /\ After(e) \in Nat /\ e.offset < After(e) /\ After(e) <= n
        /\ \A f \in es : f.offset > e.offset => f.offset >= After(e)
    BY FillsApart
  <2>3. After(e) = n \/ \E f \in es : f.offset = After(e)
    BY Zenon DEF Fills
  <2>4. next[s] = After(e)
    BY <2>1
  <2> QED BY <2>1, <2>2, <2>3, <2>4
<1>2. starts \in SUBSET (0..(n - 1))
  <2> SUFFICES ASSUME NEW s \in starts PROVE s \in 0..(n - 1)
    OBVIOUS
  <2>1. PICK e \in es : s \in Nat /\ After(e) \in Nat /\ s < After(e) /\ After(e) <= n
    BY <1>1
  <2> QED BY <2>1
<1>3. at \in starts \union {n}
  BY DEF Starts
<1>4. ASSUME NEW s \in starts
      PROVE  /\ next[s] \in starts \union {n} /\ next[s] > s
             /\ \A r \in starts : r > s => r >= next[s]
  <2>1. PICK e \in es : /\ s = e.offset /\ s \in Nat /\ s >= at /\ After(e) \in Nat
                        /\ s < After(e) /\ After(e) <= n /\ next[s] = After(e)
                        /\ \A f \in es : f.offset > s => f.offset >= After(e)
                        /\ After(e) = n \/ \E f \in es : f.offset = After(e)
    BY <1>1
  <2>2. ASSUME NEW r \in starts, r > s PROVE r >= next[s]
    <3>1. PICK f \in es : r = f.offset
      BY DEF Starts
    <3> QED BY <2>1, <2>2, <3>1
  <2>3. After(e) >= at
    BY <2>1
  <2>4. next[s] \in starts \union {n}
    BY <2>1, <2>3 DEF Starts
  <2> QED BY <2>1, <2>2, <2>4
<1> QED BY <1>2, <1>3, <1>4

\* The disassembler finds all instructions, if no placeholder is left.
LEMMA AllFound ==
  ASSUME code \in Seq(AllBytes), Fills(code, instructions, 0, Len(code)),
         Known(instructions, constants),
         \A e \in instructions : Byte(e.offset) # End
  PROVE  /\ Disassembled[0] = Starts(instructions)
         /\ \A e \in instructions : InstructionRead(e)
<1> DEFINE n == Len(code)
<1>1. n \in Nat
  OBVIOUS
<1>2. \A e \in instructions : InstructionRead(e)
  <2> TAKE e \in instructions
  <2>1. IsInstruction(e) /\ Stands(code, e)
    BY FillsApart
  <2> QED BY <2>1, NextRead
<1> HIDE DEF n
<1>3. PICK here, next :
        /\ \A o \in 0..(n - 1) : here[o] = {o} /\ next[o] = Forward(o, NextInstruction(o))
        /\ Walk(Disassembled, n, here, next)
  BY <1>1, DisassembledWalk DEF n
<1>4. \A e \in instructions : next[e.offset] = After(e)
  <2> TAKE e \in instructions
  <2>1. /\ e.offset \in Nat /\ After(e) \in Nat /\ e.offset < After(e) /\ After(e) <= n
    BY FillsApart DEF n
  <2>2. e.offset \in 0..(n - 1)
    BY <1>1, <2>1
  <2>3. NextInstruction(e.offset) = After(e)
    BY <1>2 DEF InstructionRead
  <2>4. Forward(e.offset, After(e)) = After(e)
    BY <1>1, <2>1, ForwardOnce DEF n
  <2> QED BY <1>3, <2>2, <2>3, <2>4
<1> DEFINE starts == {s \in Starts(instructions) : s >= 0}
<1>5. 0 = n \/ \E e \in instructions : e.offset = 0
  BY <1>1 DEF Fills, n
<1>6. /\ starts \in SUBSET (0..(n - 1)) /\ 0 \in starts \union {n}
      /\ \A s \in starts : /\ next[s] \in starts \union {n} /\ next[s] > s
                           /\ \A r \in starts : r > s => r >= next[s]
  <2>1. 0 \in Nat /\ 0 <= n /\ Fills(code, instructions, 0, n)
    BY <1>1 DEF n
  <2> QED BY <1>1, <1>4, <1>5, <2>1, StartsWalk
<1>7. Disassembled[0] = FoundFrom(here, starts, 0)
  <2> HIDE DEF starts
  <2> QED BY <1>1, <1>3, <1>6, WalkFinds
<1>8. \A s \in starts : here[s] = {s}
  BY <1>3, <1>6
<1>9. starts = Starts(instructions)
  <2>1. \A s \in Starts(instructions) : s \in Nat
    BY FillsApart DEF Starts
  <2>2. \A s \in Starts(instructions) : s >= 0
    BY <2>1
  <2> QED BY <2>2
<1>10. {r \in starts : r >= 0} = starts
  OBVIOUS
<1>11. UNION {here[s] : s \in starts} = starts
  BY <1>8
<1> QED BY <1>2, <1>7, <1>9, <1>10, <1>11 DEF FoundFrom

\* The compiler finds the placeholders behind the start of a loop.
LEMMA AllPlaceholders ==
  ASSUME code \in Seq(AllBytes), Fills(code, instructions, 0, Len(code)),
         Known(instructions, constants), NEW at \in Nat, at <= Len(code),
         at = Len(code) \/ \E e \in instructions : e.offset = at,
         \A e \in instructions : e.offset >= at => e.opcode # ClosureLong
  PROVE  Placeholders[at]
           = {s \in Starts(instructions) : s >= at /\ Byte(s) = End}
<1> DEFINE n == Len(code)
<1>1. n \in Nat
  OBVIOUS
<1> HIDE DEF n
<1>2. PICK here, next :
        /\ \A o \in 0..(n - 1) : /\ here[o] = (IF Byte(o) = End THEN {o} ELSE {})
                                 /\ next[o] = Forward(o, NextInLoop(o))
        /\ Walk(Placeholders, n, here, next)
  BY <1>1, PlaceholdersWalk DEF n
<1>3. \A e \in instructions : e.offset >= at => next[e.offset] = After(e)
  <2> TAKE e \in instructions
  <2> SUFFICES ASSUME e.offset >= at PROVE next[e.offset] = After(e)
    OBVIOUS
  <2>1. /\ IsInstruction(e) /\ Stands(code, e) /\ e.offset \in Nat /\ After(e) \in Nat
        /\ e.offset < After(e) /\ After(e) <= n
    BY FillsApart DEF n
  <2>2. e.offset \in 0..(n - 1)
    BY <1>1, <2>1
  <2>3. NextInLoop(e.offset) = After(e)
    BY <2>1, NextFound
  <2>4. Forward(e.offset, After(e)) = After(e)
    BY <1>1, <2>1, ForwardOnce DEF n
  <2> QED BY <1>2, <2>2, <2>3, <2>4
<1> DEFINE starts == {s \in Starts(instructions) : s >= at}
<1>4. /\ starts \in SUBSET (0..(n - 1)) /\ at \in starts \union {n}
      /\ \A s \in starts : /\ next[s] \in starts \union {n} /\ next[s] > s
                           /\ \A r \in starts : r > s => r >= next[s]
  <2>1. /\ at <= n /\ Fills(code, instructions, 0, n)
        /\ at = n \/ \E e \in instructions : e.offset = at
    BY DEF n
  <2> QED BY <1>1, <1>3, <2>1, StartsWalk
<1>5. Placeholders[at] = FoundFrom(here, starts, at)
  <2> DEFINE f == Placeholders
  <2>1. Walk(f, n, here, next)
    BY <1>2
  <2> HIDE DEF starts, f
  <2>2. f[at] = FoundFrom(here, starts, at)
    BY <1>1, <1>4, <2>1, WalkFinds
  <2> QED BY <2>2 DEF f
<1>6. \A s \in starts : here[s] = IF Byte(s) = End THEN {s} ELSE {}
  BY <1>2, <1>4
<1>7. {r \in starts : r >= at} = starts
  OBVIOUS
<1>8. UNION {here[s] : s \in starts} = {s \in starts : Byte(s) = End}
  <2> HIDE DEF starts
  <2>1. ASSUME NEW x, x \in UNION {here[s] : s \in starts}
        PROVE  x \in starts /\ Byte(x) = End
    <3>1. PICK s \in starts : x \in here[s]
      BY <2>1
    <3> QED BY <1>6, <3>1
  <2>2. ASSUME NEW x \in starts, Byte(x) = End
        PROVE  x \in UNION {here[s] : s \in starts}
    BY <1>6, <2>2
  <2> QED BY <2>1, <2>2
<1> QED BY <1>5, <1>7, <1>8 DEF FoundFrom

\* A walk stays in the code.
LEMMA PlaceholdersInCode ==
  ASSUME NEW n \in Nat, n = Len(code), NEW at \in 0..n
  PROVE  Placeholders[at] \subseteq 0..(n - 1)
<1>1. PICK here, next :
        /\ \A o \in 0..(n - 1) : /\ here[o] = (IF Byte(o) = End THEN {o} ELSE {})
                                 /\ next[o] = Forward(o, NextInLoop(o))
        /\ Walk(Placeholders, n, here, next)
  BY PlaceholdersWalk
<1>2. \A o \in 0..(n - 1) : next[o] \in (o + 1)..n
  <2> TAKE o \in 0..(n - 1)
  <2>1. Forward(o, NextInLoop(o)) \in (o + 1)..n
    BY DEF Forward
  <2> QED BY <1>1, <2>1
<1>3. \A o \in 0..(n - 1) : here[o] \subseteq 0..(n - 1)
  BY <1>1
<1> DEFINE S == {m \in Nat : \A o \in 0..n : n - o <= m => Placeholders[o] \subseteq 0..(n - 1)}
<1>4. ASSUME NEW o \in 0..n
      PROVE  Placeholders[o] = IF o = n THEN {} ELSE here[o] \union Placeholders[next[o]]
  BY <1>1 DEF Walk
<1>5. 0 \in S
  <2> SUFFICES ASSUME NEW o \in 0..n, n - o <= 0 PROVE Placeholders[o] \subseteq 0..(n - 1)
    OBVIOUS
  <2>1. o = n
    OBVIOUS
  <2> QED BY <1>4, <2>1
<1>6. ASSUME NEW m \in Nat, m \in S PROVE m + 1 \in S
  <2> SUFFICES ASSUME NEW o \in 0..n, n - o <= m + 1
               PROVE  Placeholders[o] \subseteq 0..(n - 1)
    OBVIOUS
  <2>1. CASE o = n
    BY <1>4, <2>1
  <2>2. CASE o # n
    <3>1. o \in 0..(n - 1)
      BY <2>2
    <3>2. next[o] \in 0..n /\ n - next[o] <= m
      BY <1>2, <3>1
    <3>3. Placeholders[next[o]] \subseteq 0..(n - 1)
      BY <1>6, <3>2
    <3> QED BY <1>3, <1>4, <2>2, <3>1, <3>3
  <2> QED BY <2>1, <2>2
<1>7. n \in S
  <2> HIDE DEF S
  <2> QED BY <1>5, <1>6, SetInduction
<1> QED BY <1>7

-----------------------------------------------------------------------------
(***************************************************************************)
(* What the invariants say of complete code.                               *)
(***************************************************************************)
LEMMA LandsThere ==
  ASSUME NEW es, NEW t \in Nat \X Nat, Lands(code, es, t)
  PROVE  Destination(t[1]) = t[2]
<1>1. PICK e \in es :
        /\ e.opcode \in {Jump, Loop} /\ code[t[1] + 1] = e.opcode
        /\ Way(e.opcode, t) \in Nat /\ Way(e.opcode, t) < Weight[3]
        /\ code[t[1] + 2] = Digit(Way(e.opcode, t), 1)
        /\ code[t[1] + 3] = Digit(Way(e.opcode, t), 2)
  BY Zenon DEF Lands
<1> DEFINE opc == e.opcode
           v == Way(opc, t)
           at == t[1] + 1
<1>2. t[1] \in Nat /\ t[2] \in Nat /\ at \in Nat /\ Byte(t[1]) = opc
  BY <1>1 DEF Byte
<1>3. Length(opc) = 2
  BY <1>1, Opcodes
<1>4. \A k \in 1..2 : code[at + k] = Digit(v, k)
  <2>1. at + 1 = t[1] + 2 /\ at + 2 = t[1] + 3
    BY <1>2
  <2>2. code[at + 1] = Digit(v, 1) /\ code[at + 2] = Digit(v, 2)
    BY <1>1, <2>1
  <2> HIDE DEF at, v
  <2>3. \A k \in 1..2 : k = 1 \/ k = 2
    OBVIOUS
  <2> QED BY <2>2, <2>3
<1>5. Operand(t[1]) = v
  <2>1. v \in Nat /\ v < Weight[2 + 1] /\ 2 \in 0..3
    BY <1>1
  <2> DEFINE n == 2
  <2>2. n \in 0..3 /\ v < Weight[n + 1] /\ \A k \in 1..n : code[at + k] = Digit(v, k)
    BY <1>4, <2>1
  <2> HIDE DEF n, v, at
  <2>3. read_multibyte_operand(n, at) = v
    BY <1>2, <2>1, <2>2, OperandRead
  <2> QED BY <1>2, <1>3, <2>3 DEF Operand, n, at
<1>6. CASE opc = Loop
  <2>1. Destination(t[1]) = t[1] + 3 - v /\ v = t[1] + 3 - t[2]
    BY <1>2, <1>5, <1>6 DEF Destination, Way
  <2> QED BY <1>2, <2>1
<1>7. CASE opc # Loop
  <2>1. Destination(t[1]) = t[1] + 3 + v /\ v = t[2] - (t[1] + 3)
    BY <1>2, <1>5, <1>7 DEF Destination, Way
  <2> QED BY <1>2, <2>1
<1> QED BY <1>6, <1>7

LEMMA Finished ==
  ASSUME BytesInv, ProgramInv, JumpInv PROVE InstructionsFound /\ JumpsLand
<1> SUFFICES ASSUME Complete PROVE InstructionsFound /\ JumpsLand
  BY DEF InstructionsFound, JumpsLand, NoPlaceholder
<1>1. open = <<>> /\ ~had_error
  BY DEF Complete
<1>2. /\ AllLand(code, instructions, targets)
      /\ EndsRight(code, instructions, open)
  BY <1>1, Zenon DEF JumpInv
<1>3. \A e \in instructions : Byte(e.offset) # End
  <2>1. ~ \E i \in 1..Len(open) : TRUE
    BY <1>1
  <2> QED BY <1>2, <2>1, Zenon DEF EndsRight, Byte
<1>4. /\ code \in Seq(AllBytes) /\ Fills(code, instructions, 0, Len(code))
      /\ Known(instructions, constants)
  BY Zenon DEF BytesInv, ProgramInv
<1>5. /\ Disassembled[0] = Starts(instructions)
      /\ \A e \in instructions : InstructionRead(e)
  BY <1>3, <1>4, AllFound
<1>6. InstructionsFound
  BY <1>5, Zenon DEF InstructionsFound, Starts, InstructionRead
<1>7. \A t \in targets : Destination(t[1]) = t[2]
  <2> TAKE t \in targets
  <2>1. t \in Nat \X Nat /\ Lands(code, instructions, t)
    BY <1>2, Zenon DEF AllLand
  <2> QED BY <2>1, LandsThere
<1>8. NoPlaceholder
  <2>1. \A o \in Disassembled[0] : Byte(o) # End
    BY <1>3, <1>5 DEF Starts
  <2> QED BY <2>1 DEF NoPlaceholder
<1> QED BY <1>6, <1>7, <1>8 DEF JumpsLand

-----------------------------------------------------------------------------
(***************************************************************************)
(* Jumps, when code is written behind them.                                *)
(***************************************************************************)
LEMMA OpenParts ==
  ASSUME NEW os \in Seq(Opened)
  PROVE  /\ Len(os) \in Nat
         /\ \A i \in 1..Len(os) :
              /\ os[i] \in Opened /\ os[i].kind \in {"jump", "loop"} /\ os[i].at \in Nat
              /\ os[i].breaks \in SUBSET Nat
<1>1. Len(os) \in Nat
  OBVIOUS
<1>2. \A i \in 1..Len(os) : os[i] \in Opened
  BY ElementOfSeq
<1>3. \A x \in Opened :
        x.kind \in {"jump", "loop"} /\ x.at \in Nat /\ x.breaks \in SUBSET Nat
  BY DEF Opened
<1> QED BY <1>1, <1>2, <1>3

LEMMA LandsKept ==
  ASSUME NEW c, NEW d, NEW es, NEW fs, es \subseteq fs, NEW t, Lands(c, es, t),
         d[t[1] + 1] = c[t[1] + 1], d[t[1] + 2] = c[t[1] + 2], d[t[1] + 3] = c[t[1] + 3]
  PROVE  Lands(d, fs, t)
BY DEF Lands

LEMMA JumpAtKept ==
  ASSUME NEW c, NEW d, NEW es, NEW fs, es \subseteq fs, NEW at, NEW opc,
         JumpAt(c, es, at, opc), d[at + 1] = c[at + 1]
  PROVE  JumpAt(d, fs, at, opc)
BY DEF JumpAt

\* Jumps are in the code, with their operands.
LEMMA JumpInCode ==
  ASSUME NEW c, NEW es, NEW n, Fills(c, es, 0, n), NEW at, NEW opc, JumpAt(c, es, at, opc)
  PROVE  at \in Nat /\ at + 3 <= n /\ n \in Nat
<1>1. PICK e \in es : e.offset = at /\ e.opcode = Jump
  BY DEF JumpAt
<1>2. IsInstruction(e) /\ e.offset \in Nat /\ After(e) <= n
  BY FillsApart
<1>3. After(e) = e.offset + 3
  BY <1>1, <1>2, InstructionWritten
<1>4. n \in Nat
  BY Zenon DEF Fills
<1> QED BY <1>1, <1>2, <1>3, <1>4

LEMMA LandInCode ==
  ASSUME NEW c, NEW es, NEW n, Fills(c, es, 0, n), NEW t, Lands(c, es, t)
  PROVE  t[1] \in Nat /\ t[1] + 3 <= n /\ n \in Nat
<1>1. PICK e \in es : e.offset = t[1] /\ e.opcode \in {Jump, Loop}
  BY DEF Lands
<1>2. IsInstruction(e) /\ e.offset \in Nat /\ After(e) <= n
  BY FillsApart
<1>3. After(e) = e.offset + 3
  BY <1>1, <1>2, InstructionWritten
<1>4. n \in Nat
  BY Zenon DEF Fills
<1> QED BY <1>1, <1>2, <1>3, <1>4

\* What is open starts in the code, and has its breaks there.
LEMMA OpenInCode ==
  ASSUME NEW c, NEW es, NEW n, n = Len(c), Fills(c, es, 0, n), NEW os, NEW ts,
         OpenRight(c, es, os, ts), NEW i \in 1..Len(os)
  PROVE  /\ os[i].at \in Nat /\ os[i].at <= n /\ n \in Nat
         /\ os[i].kind = "jump" => os[i].at < n
         /\ \A b \in os[i].breaks : b \in Nat /\ b < n
<1>1. /\ os \in Seq(Opened) /\ os[i].at <= n
      /\ os[i].kind = "jump" => Waits(c, es, ts, os[i])
      /\ os[i].kind = "loop" => Loops(c, es, os[i])
  BY Zenon DEF OpenRight
<1>2. os[i].kind \in {"jump", "loop"} /\ os[i].at \in Nat
  BY <1>1, OpenParts
<1>3. n \in Nat
  BY Zenon DEF Fills
<1>4. CASE os[i].kind = "jump"
  <2>1. JumpAt(c, es, os[i].at, Jump) /\ os[i].breaks = {}
    BY <1>1, <1>4, Zenon DEF Waits
  <2>2. os[i].at + 3 <= n
    BY <2>1, JumpInCode
  <2> QED BY <1>1, <1>2, <1>3, <2>1, <2>2
<1>5. CASE os[i].kind = "loop"
  <2>1. ASSUME NEW b \in os[i].breaks PROVE b \in Nat /\ b < n
    <3>1. JumpAt(c, es, b, End)
      BY <1>1, <1>5, Zenon DEF Loops
    <3>2. b \in Nat /\ b + 3 <= n
      BY <3>1, JumpInCode
    <3> QED BY <1>3, <3>2
  <2> QED BY <1>1, <1>2, <1>3, <1>5, <2>1
<1> QED BY <1>2, <1>4, <1>5

\* Code that goes on with some instructions.
Extended(c, d, es, fs) ==
  /\ Fills(c, es, 0, Len(c)) /\ Fills(d, fs, Len(c), Len(d)) /\ Len(c) < Len(d)
  /\ \A o \in 1..Len(c) : d[o] = c[o]

LEMMA ExtendedFills ==
  ASSUME NEW c, NEW d, NEW es, NEW fs, Extended(c, d, es, fs)
  PROVE  Fills(d, es \union fs, 0, Len(d)) /\ Len(c) \in Nat /\ Len(d) \in Nat
<1>1. Fills(c, es, 0, Len(c)) /\ Fills(d, fs, Len(c), Len(d))
  BY DEF Extended
<1>2. Len(c) \in Nat /\ Len(d) \in Nat
  BY <1>1, Zenon DEF Fills
<1>3. \A o \in (0 + 1)..Len(c) : d[o] = c[o]
  BY DEF Extended
<1> QED BY <1>1, <1>2, <1>3, FillsJoin

LEMMA AllLandExtended ==
  ASSUME NEW c, NEW d, NEW es, NEW fs, Extended(c, d, es, fs), NEW ts, AllLand(c, es, ts)
  PROVE  AllLand(d, es \union fs, ts)
<1>1. ASSUME NEW t \in ts PROVE Lands(d, es \union fs, t)
  <2>1. Lands(c, es, t) /\ Fills(c, es, 0, Len(c))
    BY Zenon DEF AllLand, Extended
  <2>2. t[1] \in Nat /\ t[1] + 3 <= Len(c) /\ Len(c) \in Nat
    BY <2>1, LandInCode
  <2>3. t[1] + 1 \in 1..Len(c) /\ t[1] + 2 \in 1..Len(c) /\ t[1] + 3 \in 1..Len(c)
    BY <2>2
  <2>4. \A o \in 1..Len(c) : d[o] = c[o]
    BY DEF Extended
  <2> QED BY <2>1, <2>3, <2>4, LandsKept
<1> QED BY <1>1, Zenon DEF AllLand

LEMMA EndsExtended ==
  ASSUME NEW c, NEW d, NEW es, NEW fs, Extended(c, d, es, fs), NEW os,
         EndsRight(c, es, os), \A e \in fs : d[e.offset + 1] # End
  PROVE  EndsRight(d, es \union fs, os)
<1> SUFFICES ASSUME NEW e \in es \union fs, d[e.offset + 1] = End
             PROVE  \E i \in 1..Len(os) : os[i].kind = "loop" /\ e.offset \in os[i].breaks
  BY DEF EndsRight
<1>1. e \in es
  OBVIOUS
<1>2. Fills(c, es, 0, Len(c)) /\ \A o \in 1..Len(c) : d[o] = c[o]
  BY DEF Extended
<1>3. Len(c) \in Nat /\ e.offset \in Nat /\ After(e) \in Nat
      /\ e.offset < After(e) /\ After(e) <= Len(c)
  BY <1>1, <1>2, FillsApart, ExtendedFills
<1>4. e.offset + 1 \in 1..Len(c)
  BY <1>3
<1>5. c[e.offset + 1] = End
  BY <1>2, <1>4
<1> QED BY <1>1, <1>5, Zenon DEF EndsRight

LEMMA OpenExtended ==
  ASSUME NEW c, NEW d, NEW es, NEW fs, Extended(c, d, es, fs), NEW os, NEW ts,
         OpenRight(c, es, os, ts),
         \A e \in fs : e.opcode = ClosureLong => \A i \in 1..Len(os) : os[i].kind # "loop"
  PROVE  OpenRight(d, es \union fs, os, ts)
<1>1. /\ Fills(c, es, 0, Len(c)) /\ Len(c) \in Nat /\ Len(d) \in Nat /\ Len(c) < Len(d)
      /\ \A o \in 1..Len(c) : d[o] = c[o]
  BY ExtendedFills, Zenon DEF Extended
<1>2. ASSUME NEW at, NEW opc, JumpAt(c, es, at, opc) PROVE JumpAt(d, es \union fs, at, opc)
  <2>1. at \in Nat /\ at + 3 <= Len(c)
    BY <1>1, <1>2, JumpInCode
  <2>2. at + 1 \in 1..Len(c)
    BY <1>1, <2>1
  <2> QED BY <1>1, <1>2, <2>2, JumpAtKept
<1>3. ASSUME NEW i \in 1..Len(os)
      PROVE  /\ os[i].at <= Len(d)
             /\ os[i].kind = "jump" => Waits(d, es \union fs, ts, os[i])
             /\ os[i].kind = "loop" => Loops(d, es \union fs, os[i])
  <2>1. os[i].at \in Nat /\ os[i].at <= Len(c)
    BY <1>1, OpenInCode
  <2>2. ASSUME os[i].kind = "jump" PROVE Waits(d, es \union fs, ts, os[i])
    <3>1. Waits(c, es, ts, os[i])
      BY <2>2, Zenon DEF OpenRight
    <3>2. JumpAt(d, es \union fs, os[i].at, Jump)
      BY <1>2, <3>1, Zenon DEF Waits
    <3> QED BY <3>1, <3>2, Zenon DEF Waits
  <2>3. ASSUME os[i].kind = "loop" PROVE Loops(d, es \union fs, os[i])
    <3>1. Loops(c, es, os[i])
      BY <2>3, Zenon DEF OpenRight
    <3>2. \E e \in es \union fs : e.offset = os[i].at
      <4>1. CASE os[i].at = Len(c)
        <5>1. \E e \in fs : e.offset = Len(c)
          BY Zenon DEF Extended, Fills
        <5> QED BY <4>1, <5>1
      <4>2. CASE os[i].at # Len(c)
        <5>1. \E e \in es : e.offset = os[i].at
          BY <3>1, <4>2, Zenon DEF Loops
        <5> QED BY <5>1
      <4> QED BY <4>1, <4>2
    <3>3. \A b \in os[i].breaks : b >= os[i].at /\ JumpAt(d, es \union fs, b, End)
      BY <1>2, <3>1, Zenon DEF Loops
    <3>4. \A e \in es \union fs : e.offset >= os[i].at => e.opcode # ClosureLong
      <4> TAKE e \in es \union fs
      <4>1. CASE e \in es
        BY <3>1, <4>1, Zenon DEF Loops
      <4>2. CASE e \in fs
        BY <2>3, <4>2
      <4> QED BY <4>1, <4>2
    <3> QED BY <3>2, <3>3, <3>4, Zenon DEF Loops
  <2>4. os[i].at <= Len(d)
    BY <1>1, <2>1
  <2> QED BY <2>2, <2>3, <2>4
<1> QED BY <1>3, Zenon DEF OpenRight

-----------------------------------------------------------------------------
(***************************************************************************)
(* What is open grows and shrinks at its end.                              *)
(***************************************************************************)
LEMMA OpenPushed ==
  ASSUME NEW c, NEW es, NEW os, NEW ts, OpenRight(c, es, os, ts), NEW x \in Opened,
         x.at <= Len(c), x.kind = "jump" => Waits(c, es, ts, x),
         x.kind = "loop" => Loops(c, es, x), \A i \in 1..Len(os) : Nested(os[i], x)
  PROVE  OpenRight(c, es, Append(os, x), ts)
<1> DEFINE n == Len(os)
           new == Append(os, x)
<1>1. os \in Seq(Opened)
  BY Zenon DEF OpenRight
<1>2. n \in Nat
  BY <1>1
<1>3. /\ new \in Seq(Opened) /\ Len(new) = n + 1
      /\ \A i \in 1..n : new[i] = os[i]
      /\ new[n + 1] = x
  BY <1>1, AppendProperties
<1>4. /\ \A i \in 1..n : /\ os[i].at <= Len(c)
                         /\ os[i].kind = "jump" => Waits(c, es, ts, os[i])
                         /\ os[i].kind = "loop" => Loops(c, es, os[i])
      /\ \A i, j \in 1..n : i < j => Nested(os[i], os[j])
  BY Zenon DEF OpenRight
<1> HIDE DEF n, new
<1>5. \A i \in 1..(n + 1) : i \in 1..n \/ i = n + 1
  BY <1>2
<1>6. \A i \in 1..(n + 1) : /\ new[i].at <= Len(c)
                            /\ new[i].kind = "jump" => Waits(c, es, ts, new[i])
                            /\ new[i].kind = "loop" => Loops(c, es, new[i])
  <2> TAKE i \in 1..(n + 1)
  <2>1. CASE i \in 1..n
    BY <1>3, <1>4, <2>1, Zenon
  <2>2. CASE i = n + 1
    BY <1>3, <2>2, Zenon
  <2> QED BY <1>5, <2>1, <2>2
<1>7. ASSUME NEW i \in 1..(n + 1), NEW j \in 1..(n + 1), i < j PROVE Nested(new[i], new[j])
  <2>1. i \in 1..n
    BY <1>2, <1>7
  <2>2. CASE j \in 1..n
    BY <1>3, <1>4, <1>7, <2>1, <2>2, Zenon
  <2>3. CASE j = n + 1
    <3>1. Nested(os[i], x)
      BY <2>1 DEF n
    <3> QED BY <1>3, <2>1, <2>3, <3>1, Zenon
  <2> QED BY <1>5, <2>2, <2>3
<1>8. OpenRight(c, es, new, ts)
  BY <1>3, <1>6, <1>7, Zenon DEF OpenRight
<1> QED BY <1>8 DEF new

LEMMA EndsPushed ==
  ASSUME NEW c, NEW es, NEW os \in Seq(Opened), NEW x \in Opened, EndsRight(c, es, os)
  PROVE  EndsRight(c, es, Append(os, x))
<1> SUFFICES ASSUME NEW e \in es, c[e.offset + 1] = End
             PROVE  \E i \in 1..Len(Append(os, x)) :
                      /\ Append(os, x)[i].kind = "loop"
                      /\ e.offset \in Append(os, x)[i].breaks
  BY DEF EndsRight
<1>1. PICK i \in 1..Len(os) : os[i].kind = "loop" /\ e.offset \in os[i].breaks
  BY Zenon DEF EndsRight
<1>2. /\ Len(Append(os, x)) = Len(os) + 1 /\ Len(os) \in Nat
      /\ \A k \in 1..Len(os) : Append(os, x)[k] = os[k]
  BY AppendProperties
<1>3. i \in 1..Len(Append(os, x)) /\ Append(os, x)[i] = os[i]
  BY <1>2
<1> QED BY <1>1, <1>3, Zenon

LEMMA OpenFront ==
  ASSUME NEW c, NEW es, NEW os, NEW ts, OpenRight(c, es, os, ts), os # <<>>
  PROVE  /\ OpenRight(c, es, Front(os), ts) /\ Len(os) \in Nat /\ Len(os) > 0
         /\ Front(os) \in Seq(Opened) /\ Len(Front(os)) = Len(os) - 1
         /\ Last(os) = os[Len(os)]
         /\ \A i \in 1..(Len(os) - 1) : Front(os)[i] = os[i] /\ Nested(os[i], Last(os))
<1> DEFINE n == Len(os)
           new == Front(os)
<1>1. os \in Seq(Opened)
  BY Zenon DEF OpenRight
<1>2. n \in Nat /\ n > 0 /\ Last(os) = os[n]
  BY <1>1 DEF Last
<1>3. /\ new \in Seq(Opened) /\ Len(new) = n - 1
      /\ \A i \in 1..(n - 1) : new[i] = os[i]
  <2>1. new = [i \in 1..(n - 1) |-> os[i]]
    BY <1>1, <1>2 DEF Front
  <2>2. \A i \in 1..(n - 1) : os[i] \in Opened
    BY <1>1, <1>2
  <2>3. new \in [1..(n - 1) -> Opened]
    BY <2>1, <2>2
  <2> HIDE DEF n, new
  <2>4. new \in Seq(Opened) /\ Len(new) = n - 1
    BY <1>2, <2>3
  <2> QED BY <2>1, <2>4
<1>4. /\ \A i \in 1..n : /\ os[i].at <= Len(c)
                         /\ os[i].kind = "jump" => Waits(c, es, ts, os[i])
                         /\ os[i].kind = "loop" => Loops(c, es, os[i])
      /\ \A i, j \in 1..n : i < j => Nested(os[i], os[j])
  BY Zenon DEF OpenRight
<1> HIDE DEF n, new
<1>5. \A i \in 1..(n - 1) : i \in 1..n /\ n \in 1..n /\ i < n
  BY <1>2
<1>6. \A i \in 1..(n - 1) : Nested(os[i], Last(os))
  BY <1>2, <1>4, <1>5, Zenon
<1>7. \A i \in 1..(n - 1) : /\ new[i].at <= Len(c)
                            /\ new[i].kind = "jump" => Waits(c, es, ts, new[i])
                            /\ new[i].kind = "loop" => Loops(c, es, new[i])
  BY <1>3, <1>4, <1>5, Zenon
<1>8. \A i, j \in 1..(n - 1) : i < j => Nested(new[i], new[j])
  BY <1>3, <1>4, <1>5, Zenon
<1>9. OpenRight(c, es, new, ts)
  BY <1>3, <1>7, <1>8, Zenon DEF OpenRight
<1> QED BY <1>2, <1>3, <1>6, <1>9 DEF n, new

\* Jumps go to places.
LEMMA OpenMoreTargets ==
  ASSUME NEW c, NEW es, NEW os, NEW ts, NEW us, OpenRight(c, es, os, ts),
         \A u \in us, i \in 1..Len(os) : os[i].kind = "jump" => u[1] # os[i].at
  PROVE  OpenRight(c, es, os, ts \union us)
<1>1. ASSUME NEW i \in 1..Len(os), os[i].kind = "jump"
      PROVE  Waits(c, es, ts \union us, os[i])
  <2>1. Waits(c, es, ts, os[i])
    BY <1>1, Zenon DEF OpenRight
  <2>2. \A t \in ts \union us : t[1] # os[i].at
    <3>1. \A t \in ts : t[1] # os[i].at
      BY <2>1, Zenon DEF Waits
    <3> QED BY <1>1, <3>1
  <2> QED BY <2>1, <2>2, Zenon DEF Waits
<1> QED BY <1>1, Zenon DEF OpenRight

LEMMA AllLandMore ==
  ASSUME NEW c, NEW es, NEW ts, NEW us, AllLand(c, es, ts), AllLand(c, es, us)
  PROVE  AllLand(c, es, ts \union us)
BY DEF AllLand

\* What is open stays when other bytes change.
LEMMA OpenKept ==
  ASSUME NEW c, NEW d, NEW es, NEW os, NEW ts, OpenRight(c, es, os, ts), Len(d) = Len(c),
         \A i \in 1..Len(os) :
           /\ os[i].kind = "jump" => d[os[i].at + 1] = c[os[i].at + 1]
           /\ \A b \in os[i].breaks : d[b + 1] = c[b + 1]
  PROVE  OpenRight(d, es, os, ts)
<1>1. ASSUME NEW i \in 1..Len(os), os[i].kind = "jump" PROVE Waits(d, es, ts, os[i])
  <2>1. Waits(c, es, ts, os[i])
    BY <1>1, Zenon DEF OpenRight
  <2>2. JumpAt(d, es, os[i].at, Jump)
    <3>1. JumpAt(c, es, os[i].at, Jump)
      BY <2>1, Zenon DEF Waits
    <3> QED BY <1>1, <3>1, JumpAtKept
  <2> QED BY <2>1, <2>2, Zenon DEF Waits
<1>2. ASSUME NEW i \in 1..Len(os), os[i].kind = "loop" PROVE Loops(d, es, os[i])
  <2>1. Loops(c, es, os[i])
    BY <1>2, Zenon DEF OpenRight
  <2>2. ASSUME NEW b \in os[i].breaks PROVE b >= os[i].at /\ JumpAt(d, es, b, End)
    <3>1. b >= os[i].at /\ JumpAt(c, es, b, End)
      BY <2>1, Zenon DEF Loops
    <3> QED BY <3>1, JumpAtKept
  <2>3. os[i].at = Len(d) \/ \E e \in es : e.offset = os[i].at
    BY <2>1, Zenon DEF Loops
  <2> QED BY <2>1, <2>2, <2>3, Zenon DEF Loops
<1>3. \A i \in 1..Len(os) : os[i].at <= Len(d)
  BY DEF OpenRight
<1> QED BY <1>1, <1>2, <1>3, Zenon DEF OpenRight

-----------------------------------------------------------------------------
(***************************************************************************)
(* The bytes and their lines, after any step.                              *)
(***************************************************************************)
OpenFits(os, n) == os \in Seq(Opened) /\ \A i \in 1..Len(os) : os[i].at <= n

StateInv ==
  /\ BytesInv /\ TableInv /\ steps \in Nat /\ constants \in Nat
  /\ OpenFits(open, Len(code))

LEMMA SampleNumbers ==
  ASSUME BytesInv
  PROVE  /\ sample.prelude \in Nat /\ sample.steps \in Nat /\ sample.lines \in Nat
         /\ sample.prelude + sample.steps <= Weight[4]
         /\ sample.sizes \subseteq Nat \ {0} /\ line \in Nat
         /\ Len(code) \in Nat
<1>1. sample \in Samples /\ line \in 1..sample.lines /\ code \in Seq(AllBytes)
  BY DEF BytesInv
<1>2. /\ sample.prelude \in Nat /\ sample.steps \in Nat /\ sample.lines \in Nat
      /\ sample.prelude + sample.steps <= Weight[4]
      /\ sample.sizes \subseteq Nat \ {0}
  BY <1>1, ChunkAssumption, Zenon
<1>3. sample.lines \in Nat
  BY <1>1, ChunkAssumption
<1> QED BY <1>1, <1>2, <1>3

LEMMA OpenFitsMore ==
  ASSUME NEW os, NEW n \in Nat, OpenFits(os, n), NEW m \in Nat, n <= m
  PROVE  OpenFits(os, m)
<1>1. os \in Seq(Opened)
  BY DEF OpenFits
<1>2. ASSUME NEW i \in 1..Len(os) PROVE os[i].at <= m
  <2>1. os[i].at \in Nat
    BY <1>1, OpenParts
  <2>2. os[i].at <= n
    BY DEF OpenFits
  <2> QED BY <2>1, <2>2
<1> QED BY <1>1, <1>2 DEF OpenFits

LEMMA OpenFitsPushed ==
  ASSUME NEW os, NEW n \in Nat, OpenFits(os, n), NEW x \in Opened, x.at <= n
  PROVE  OpenFits(Append(os, x), n)
<1>1. os \in Seq(Opened)
  BY DEF OpenFits
<1>2. /\ Append(os, x) \in Seq(Opened) /\ Len(Append(os, x)) = Len(os) + 1
      /\ \A i \in 1..Len(os) : Append(os, x)[i] = os[i]
      /\ Append(os, x)[Len(os) + 1] = x
  BY <1>1, AppendProperties
<1>3. ASSUME NEW i \in 1..(Len(os) + 1) PROVE Append(os, x)[i].at <= n
  <2>1. i \in 1..Len(os) \/ i = Len(os) + 1
    BY <1>1
  <2>2. CASE i \in 1..Len(os)
    <3>1. os[i].at <= n
      BY <2>2 DEF OpenFits
    <3> QED BY <1>2, <2>2, <3>1, Zenon
  <2>3. CASE i = Len(os) + 1
    BY <1>2, <2>3, Zenon
  <2> QED BY <2>1, <2>2, <2>3
<1> QED BY <1>2, <1>3 DEF OpenFits

LEMMA OpenFitsFront ==
  ASSUME NEW os, NEW n, OpenFits(os, n), os # <<>> PROVE OpenFits(Front(os), n)
<1>1. os \in Seq(Opened)
  BY DEF OpenFits
<1>2. Len(os) \in Nat /\ Len(os) > 0
  BY <1>1
<1>3. Front(os) = [i \in 1..(Len(os) - 1) |-> os[i]]
  BY <1>1 DEF Front
<1>4. \A i \in 1..(Len(os) - 1) : i \in 1..Len(os)
  BY <1>2
<1>5. \A i \in 1..(Len(os) - 1) : os[i] \in Opened /\ os[i].at <= n
  BY <1>1, <1>4, OpenParts DEF OpenFits
<1> DEFINE k == Len(os) - 1
           f == Front(os)
<1>6. k \in Nat /\ f = [i \in 1..k |-> os[i]] /\ \A i \in 1..k : os[i] \in Opened
  BY <1>2, <1>3, <1>5
<1> HIDE DEF k, f
<1>7. f \in [1..k -> Opened]
  BY <1>6
<1>8. f \in Seq(Opened) /\ Len(f) = k
  BY <1>6, <1>7
<1>9. \A i \in 1..k : f[i].at <= n
  <2> TAKE i \in 1..k
  <2>1. f[i] = os[i]
    BY <1>6
  <2>2. os[i].at <= n
    BY <1>5 DEF k
  <2> QED BY <2>1, <2>2, Zenon
<1> QED BY <1>8, <1>9 DEF OpenFits, f

\* The breaks of what is open are in its range.
LEMMA OpenFitsBreak ==
  ASSUME NEW os, NEW n, OpenFits(os, n), NEW k \in 1..Len(os), NEW b \in Nat
  PROVE  /\ OpenFits([os EXCEPT ![k].breaks = @ \union {b}], n)
         /\ Len([os EXCEPT ![k].breaks = @ \union {b}]) = Len(os)
         /\ \A i \in 1..Len(os) : i # k =>
              [os EXCEPT ![k].breaks = @ \union {b}][i] = os[i]
         /\ [os EXCEPT ![k].breaks = @ \union {b}][k]
              = [os[k] EXCEPT !.breaks = @ \union {b}]
         /\ [os[k] EXCEPT !.breaks = @ \union {b}] \in Opened
         /\ [os[k] EXCEPT !.breaks = @ \union {b}].kind = os[k].kind
         /\ [os[k] EXCEPT !.breaks = @ \union {b}].at = os[k].at
         /\ [os[k] EXCEPT !.breaks = @ \union {b}].breaks = os[k].breaks \union {b}
<1> DEFINE y == [os[k] EXCEPT !.breaks = @ \union {b}]
           new == [os EXCEPT ![k] = y]
<1>1. os \in Seq(Opened) /\ \A i \in 1..Len(os) : os[i].at <= n
  BY DEF OpenFits
<1>2. os[k] \in Opened
  BY <1>1, OpenParts
<1>3. /\ y \in Opened /\ y.kind = os[k].kind /\ y.at = os[k].at
      /\ y.breaks = os[k].breaks \union {b}
  BY <1>2 DEF Opened
<1>4. [os EXCEPT ![k].breaks = @ \union {b}] = new
  OBVIOUS
<1> HIDE DEF y
<1>5. /\ new \in Seq(Opened) /\ Len(new) = Len(os) /\ new[k] = y
      /\ \A i \in 1..Len(os) : i # k => new[i] = os[i]
  <2>1. new \in Seq(Opened) /\ Len(new) = Len(os)
    BY <1>1, <1>3
  <2>2. DOMAIN os = 1..Len(os)
    BY <1>1
  <2> QED BY <2>1, <2>2
<1> HIDE DEF new
<1>6. \A i \in 1..Len(os) : new[i].at <= n
  <2> TAKE i \in 1..Len(os)
  <2>1. os[i].at <= n /\ os[k].at <= n
    BY <1>1
  <2>2. CASE i = k
    BY <1>3, <1>5, <2>1, <2>2, Zenon
  <2>3. CASE i # k
    BY <1>5, <2>1, <2>3, Zenon
  <2> QED BY <2>2, <2>3
<1>7. OpenFits(new, n)
  BY <1>5, <1>6 DEF OpenFits
<1> QED BY <1>3, <1>4, <1>5, <1>7 DEF y

LEMMA EmitBytes ==
  ASSUME NEW opc \in AllBytes, NEW n \in 0..3, NEW v \in Nat, NEW us \in Seq(Upvalue)
  PROVE  /\ Bytes(opc, n, v, us) \in Seq(AllBytes) /\ Len(Bytes(opc, n, v, us)) > 0
         /\ Bytes(opc, n, v, us)[1] = opc /\ 1 \in 1..Len(Bytes(opc, n, v, us))
<1> DEFINE b == Bytes(opc, n, v, us)
           m == Len(UpvalueBytes(us))
<1>1. BytesRight(opc, n, v, us, b)
  BY BytesWritten
<1> HIDE DEF b
<1>2. b \in Seq(AllBytes) /\ Len(b) = 1 + n + m /\ m \in Nat /\ b[1] = opc
  BY <1>1 DEF BytesRight
<1> HIDE DEF m
<1> QED BY <1>2 DEF b

LEMMA StateWritten ==
  ASSUME StateInv, NEW bytes \in Seq(AllBytes), Len(bytes) > 0, Write(bytes),
         UNCHANGED <<sample, line>>, steps' \in Nat, constants' \in Nat,
         OpenFits(open', Len(code))
  PROVE  StateInv'
<1>1. BytesInv /\ TableInv
  BY DEF StateInv
<1>2. BytesInv' /\ TableInv' /\ Len(code') = Len(code) + Len(bytes)
  BY <1>1, WriteKeeps
<1>3. Len(code) \in Nat /\ Len(bytes) \in Nat
  BY <1>1, SampleNumbers
<1>4. OpenFits(open', Len(code'))
  <2>1. Len(code') \in Nat /\ Len(code) <= Len(code')
    BY <1>2, <1>3
  <2> QED BY <1>3, <2>1, OpenFitsMore
<1> QED BY <1>2, <1>4 DEF StateInv

\* The same number of bytes, of the same lines.
LEMMA StatePatched ==
  ASSUME StateInv, code' \in Seq(AllBytes), Len(code') = Len(code),
         UNCHANGED <<sample, line, lines, line_of>>, steps' \in Nat, constants' \in Nat,
         OpenFits(open', Len(code))
  PROVE  StateInv'
<1>1. BytesInv'
  BY DEF StateInv, BytesInv
<1>2. TableInv'
  <2>1. Table(lines, Len(code), line_of, line)
    BY DEF StateInv, TableInv
  <2>2. Table(lines', Len(code'), line_of', line')
    BY <2>1
  <2> QED BY <2>2 DEF TableInv
<1>3. OpenFits(open', Len(code'))
  OBVIOUS
<1> QED BY <1>1, <1>2, <1>3 DEF StateInv

LEMMA LaterLine ==
  ASSUME NEW table, NEW n, NEW of, NEW last \in Nat, Table(table, n, of, last)
  PROVE  Table(table, n, of, last + 1)
<1>1. table \in Seq(LineEntry)
  BY Zenon DEF Table
<1>2. ASSUME NEW i \in 1..Len(table) PROVE table[i].offset < n /\ table[i].line <= last + 1
  <2>1. table[i].offset < n /\ table[i].line <= last
    BY Zenon DEF Table
  <2>2. table[i].line \in Nat
    BY <1>1, Entries
  <2> QED BY <2>1, <2>2
<1> QED BY <1>1, <1>2, Zenon DEF Table

\* Two bytes of an operand, whatever number it is.
LEMMA OperandOfTwo ==
  ASSUME NEW v \in Int
  PROVE  LET w == write_multibyte_operand(2, v)
         IN /\ w[1] \in AllBytes /\ w[2] \in AllBytes
            /\ w[1] = Digit(v, 1) /\ w[2] = Digit(v, 2)
<1> DEFINE w == write_multibyte_operand(2, v)
<1>1. w[1] = Digit(v, 1) /\ w[2] = Digit(v, 2)
  BY DEF write_multibyte_operand, Digit
<1>2. Digit(v, 1) \in AllBytes
  BY Weights DEF Digit, AllBytes
<1>3. Digit(v, 2) \in AllBytes
  BY Weights DEF Digit, AllBytes
<1> QED BY <1>1, <1>2, <1>3

LEMMA Changed ==
  ASSUME NEW S, NEW s \in Seq(S), NEW k, NEW x \in S
  PROVE  /\ [s EXCEPT ![k] = x] \in Seq(S) /\ Len([s EXCEPT ![k] = x]) = Len(s)
         /\ \A i \in 1..Len(s) : [s EXCEPT ![k] = x][i] = IF i = k THEN x ELSE s[i]
<1> DEFINE n == Len(s)
           t == [s EXCEPT ![k] = x]
<1>1. n \in Nat /\ DOMAIN s = 1..n /\ \A i \in 1..n : s[i] \in S
  OBVIOUS
<1>2. t = [i \in 1..n |-> IF i = k THEN x ELSE s[i]]
  BY <1>1
<1> HIDE DEF t, n
<1>3. t \in [1..n -> S]
  BY <1>1, <1>2
<1>4. t \in Seq(S) /\ Len(t) = n
  BY <1>1, <1>3
<1> QED BY <1>2, <1>4 DEF t, n

LEMMA PatchedBytes ==
  ASSUME NEW c \in Seq(AllBytes), NEW o \in Nat, NEW v \in Int
  PROVE  /\ Patched(c, o, v) \in Seq(AllBytes) /\ Len(Patched(c, o, v)) = Len(c)
         /\ \A i \in 1..Len(c) :
              Patched(c, o, v)[i] = IF i = o + 1 THEN Digit(v, 1)
                                    ELSE IF i = o + 2 THEN Digit(v, 2) ELSE c[i]
<1> DEFINE x == write_multibyte_operand(2, v)[1]
           y == write_multibyte_operand(2, v)[2]
           d == [c EXCEPT ![o + 1] = x]
           e == [d EXCEPT ![o + 2] = y]
<1>1. x \in AllBytes /\ y \in AllBytes /\ x = Digit(v, 1) /\ y = Digit(v, 2)
  BY OperandOfTwo
<1>2. Patched(c, o, v) = e
  BY DEF Patched
<1> HIDE DEF x, y
<1>3. d \in Seq(AllBytes) /\ Len(d) = Len(c)
      /\ \A i \in 1..Len(c) : d[i] = IF i = o + 1 THEN x ELSE c[i]
  <2> DEFINE k == o + 1
  <2> HIDE DEF k
  <2>1. /\ [c EXCEPT ![k] = x] \in Seq(AllBytes) /\ Len([c EXCEPT ![k] = x]) = Len(c)
        /\ \A i \in 1..Len(c) : [c EXCEPT ![k] = x][i] = IF i = k THEN x ELSE c[i]
    BY <1>1, Changed
  <2> QED BY <2>1 DEF k
<1> HIDE DEF d
<1>4. e \in Seq(AllBytes) /\ Len(e) = Len(c)
      /\ \A i \in 1..Len(c) : e[i] = IF i = o + 2 THEN y ELSE d[i]
  <2>1. /\ e \in Seq(AllBytes) /\ Len(e) = Len(d)
        /\ \A i \in 1..Len(d) : e[i] = IF i = o + 2 THEN y ELSE d[i]
    BY <1>1, <1>3, Changed
  <2> QED BY <1>3, <2>1
<1> HIDE DEF e
<1>5. \A i \in 1..Len(c) : e[i] = IF i = o + 1 THEN Digit(v, 1)
                                  ELSE IF i = o + 2 THEN Digit(v, 2) ELSE c[i]
  BY <1>1, <1>3, <1>4
<1> QED BY <1>2, <1>4, <1>5

\* What the end of a loop makes of the code.
LEMMA BreaksBytes ==
  ASSUME NEW c \in Seq(AllBytes), NEW found \in SUBSET Nat
  PROVE  /\ BreaksPatched(c, found) \in Seq(AllBytes)
         /\ Len(BreaksPatched(c, found)) = Len(c)
<1> DEFINE n == Len(c)
           of(i) == {f \in found : i - 1 \in f..(f + 2)}
           at(i) == CHOOSE f \in of(i) : TRUE
           byte(i) == IF of(i) = {} THEN c[i]
                      ELSE IF i - 1 = at(i) THEN Jump
                      ELSE write_multibyte_operand(2, Distance(at(i) + 1, n))[i - 1 - at(i)]
<1>1. n \in Nat /\ DOMAIN c = 1..n
  OBVIOUS
<1>2. BreaksPatched(c, found) = [i \in 1..n |-> byte(i)]
  BY <1>1 DEF BreaksPatched
<1>3. ASSUME NEW i \in 1..n PROVE byte(i) \in AllBytes
  <2>1. CASE of(i) = {}
    BY <2>1
  <2>2. CASE of(i) # {}
    <3>1. at(i) \in of(i)
      BY <2>2
    <3> HIDE DEF at
    <3>2. at(i) \in Nat /\ i - 1 \in at(i)..(at(i) + 2)
      BY <3>1
    <3>3. CASE i - 1 = at(i)
      <4>1. Jump \in AllBytes
        BY Weights, ChunkAssumption DEF Jump, AllBytes
      <4> QED BY <2>2, <3>3, <4>1
    <3>4. CASE i - 1 # at(i)
      <4>1. Distance(at(i) + 1, n) \in Int
        BY <1>1, <3>2 DEF Distance
      <4>2. i - 1 - at(i) \in {1, 2}
        BY <3>2, <3>4
      <4> DEFINE v == Distance(at(i) + 1, n)
                 k == i - 1 - at(i)
      <4> HIDE DEF v, k
      <4>3. write_multibyte_operand(2, v)[1] \in AllBytes
            /\ write_multibyte_operand(2, v)[2] \in AllBytes
        BY <4>1, OperandOfTwo DEF v
      <4>4. write_multibyte_operand(2, v)[k] \in AllBytes
        BY <4>2, <4>3 DEF k
      <4>5. byte(i) = write_multibyte_operand(2, v)[k]
        BY <2>2, <3>4 DEF v, k
      <4> QED BY <4>4, <4>5
    <3> QED BY <3>3, <3>4
  <2> QED BY <2>1, <2>2
<1> HIDE DEF byte
<1> DEFINE d == [i \in 1..n |-> byte(i)]
<1>4. d \in [1..n -> AllBytes]
  BY <1>3
<1> HIDE DEF d
<1>5. d \in Seq(AllBytes) /\ Len(d) = n
  BY <1>1, <1>4
<1> QED BY <1>2, <1>5 DEF d

LEMMA InnermostFound ==
  ASSUME open \in Seq(Opened), InLoop
  PROVE  /\ Innermost \in 1..Len(open) /\ open[Innermost].kind = "loop"
         /\ \A j \in 1..Len(open) : open[j].kind = "loop" => j <= Innermost
<1> DEFINE n == Len(open)
           S == {m \in 0..n : \E i \in 1..n : open[i].kind = "loop" /\ m = n - i}
           P(i) == /\ open[i].kind = "loop"
                   /\ \A j \in DOMAIN open : open[j].kind = "loop" => j <= i
<1>1. n \in Nat /\ DOMAIN open = 1..n
  OBVIOUS
<1>2. PICK i \in 1..n : open[i].kind = "loop"
  BY <1>1 DEF InLoop
<1>3. n - i \in S
  BY <1>1, <1>2
<1>4. S \in SUBSET Nat
  BY <1>1
<1>5. PICK m \in S : \A k \in S : m <= k
  <2> HIDE DEF S
  <2> QED BY <1>3, <1>4, LeastNumber
<1>6. PICK k \in 1..n : open[k].kind = "loop" /\ m = n - k
  BY <1>5
<1>7. ASSUME NEW j \in 1..n, open[j].kind = "loop" PROVE j <= k
  <2>1. n - j \in 0..n
    <3> HIDE DEF n, S, P
    <3> QED BY <1>1, <1>7
  <2>2. \E l \in 1..n : open[l].kind = "loop" /\ n - j = n - l
    BY <1>7
  <2>3. n - j \in S
    BY <2>1, <2>2
  <2>4. m <= n - j
    BY <1>5, <2>3
  <2> QED BY <1>1, <1>6, <2>4
<1>8. k \in DOMAIN open /\ P(k)
  BY <1>1, <1>6, <1>7
<1>9. Innermost = CHOOSE x \in DOMAIN open : P(x)
  BY DEF Innermost
<1> HIDE DEF P
<1>10. Innermost \in DOMAIN open /\ P(Innermost)
  BY <1>8, <1>9
<1> QED BY <1>1, <1>10 DEF P

LEMMA StepCounts ==
  ASSUME StateInv, Step
  PROVE  /\ steps' \in Nat /\ steps' = steps + 1 /\ sample' = sample
         /\ steps < sample.steps /\ ~had_error
BY DEF Step, StateInv

LEMMA Listed ==
  ASSUME NEW us \in UpvalueLists PROVE us \in Seq(Upvalue)
BY ChunkAssumption DEF Upvalue

LEMMA EmitKeepsState ==
  ASSUME StateInv, Step, NEW opc \in AllBytes, NEW n \in 0..3, NEW v \in Nat,
         NEW us \in Seq(Upvalue), Write(Bytes(opc, n, v, us)), line' = line,
         constants' \in Nat, OpenFits(open', Len(code))
  PROVE  StateInv'
<1>1. Bytes(opc, n, v, us) \in Seq(AllBytes) /\ Len(Bytes(opc, n, v, us)) > 0
  BY EmitBytes
<1>2. steps' \in Nat /\ UNCHANGED <<sample, line>>
  BY StepCounts
<1> QED BY <1>1, <1>2, StateWritten

LEMMA LineKeepsState ==
  ASSUME StateInv, next_line PROVE StateInv'
<1>1. /\ BytesInv /\ TableInv /\ line' = line + 1 /\ line < sample.lines
      /\ UNCHANGED <<sample, code, lines, constants, open, steps, line_of>>
  BY DEF next_line, StateInv
<1>2. line \in 1..sample.lines /\ sample.lines \in Nat /\ line \in Nat
  BY <1>1, SampleNumbers DEF BytesInv
<1>3. BytesInv'
  <2>1. line + 1 \in 1..sample.lines
    BY <1>1, <1>2
  <2> QED BY <1>1, <2>1 DEF BytesInv
<1>4. TableInv'
  <2>1. Table(lines, Len(code), line_of, line)
    BY <1>1 DEF TableInv
  <2>2. Table(lines, Len(code), line_of, line + 1)
    BY <1>2, <2>1, LaterLine
  <2>3. Table(lines', Len(code'), line_of', line')
    BY <1>1, <2>2
  <2> QED BY <2>3 DEF TableInv
<1>5. steps' \in Nat /\ constants' \in Nat /\ OpenFits(open', Len(code'))
  BY <1>1 DEF StateInv
<1> QED BY <1>3, <1>4, <1>5 DEF StateInv

LEMMA SimpleKeepsState ==
  ASSUME StateInv, simple_instructions PROVE StateInv'
<1>1. PICK n \in sample.sizes :
        /\ Step /\ Write([i \in 1..n |-> Nil])
        /\ UNCHANGED <<constants, line, open>>
  BY DEF simple_instructions
<1> DEFINE b == [i \in 1..n |-> Nil]
<1>2. n \in Nat \ {0}
  BY SampleNumbers DEF StateInv
<1>3. Nil \in AllBytes
  BY Weights, ChunkAssumption DEF Nil, AllBytes
<1>4. b \in Seq(AllBytes) /\ Len(b) = n
  <2>1. b \in [1..n -> AllBytes]
    BY <1>3
  <2> HIDE DEF b
  <2> QED BY <1>2, <2>1
<1>5. Len(b) > 0
  BY <1>2, <1>4
<1>6. steps' \in Nat /\ UNCHANGED <<sample, line>> /\ constants' \in Nat
      /\ OpenFits(open', Len(code))
  BY <1>1, StepCounts DEF StateInv
<1> HIDE DEF b
<1>7. Write(b)
  BY <1>1 DEF b
<1> QED BY <1>4, <1>5, <1>6, <1>7, StateWritten

\* The opcode of a constant or a closure.
LEMMA VarLengths ==
  ASSUME NEW opc \in {Constant, Closure}, NEW index \in Nat, index < Weight[4]
  PROVE  /\ VarLength(opc, index) \in AllBytes /\ VarLength(opc, index) \in 0..6
         /\ Length(VarLength(opc, index)) \in 0..3
         /\ VarLength(opc, index) \notin {Jump, Loop, End}
         /\ index < Weight[Length(VarLength(opc, index)) + 1]
         /\ opc = Constant => VarLength(opc, index) \notin Closures
         /\ opc = Closure => VarLength(opc, index) \in Closures
         /\ index < Base => VarLength(opc, index) # ClosureLong
<1> DEFINE new == VarLength(opc, index)
<1>1. /\ opc = Constant => new \in {Constant, ConstantLong}
      /\ opc = Closure => new \in {Closure, ClosureLong}
      /\ index < Base => new = opc
      /\ ~(index < Base) => Length(new) = 3
  BY Opcodes
<1>2. new \in 0..6 /\ new \notin {Jump, Loop, End}
      /\ (opc = Constant => new \notin Closures) /\ (opc = Closure => new \in Closures)
  BY <1>1, Opcodes DEF Closures
<1>3. new \in AllBytes /\ Length(new) \in 0..3
  BY <1>2, Lengths
<1>4. index < Base => Length(new) = 1 /\ new # ClosureLong
  BY <1>1, Opcodes DEF Closures
<1>5. index < Weight[Length(new) + 1]
  <2>1. CASE index < Base
    <3>1. Length(new) + 1 = 2 /\ Weight[2] = Base
      BY <1>4, <2>1, Weights
    <3> QED BY <2>1, <3>1, Zenon
  <2>2. CASE ~(index < Base)
    <3>1. Length(new) + 1 = 4
      BY <1>1, <2>2
    <3> QED BY <3>1, Zenon
  <2> QED BY <2>1, <2>2
<1> QED BY <1>2, <1>3, <1>4, <1>5

LEMMA ConstantKeepsState ==
  ASSUME StateInv, emit_constant PROVE StateInv'
<1>1. PICK index \in {0, constants} :
        LET opc == VarLength(Constant, index)
        IN /\ Step /\ Write(Bytes(opc, Length(opc), index, <<>>))
           /\ constants' = IF index = constants THEN constants + 1 ELSE constants
           /\ UNCHANGED <<line, open>>
  BY DEF emit_constant, emit_instruction
<1> DEFINE opc == VarLength(Constant, index)
<1>2. constants \in Nat /\ index \in Nat /\ constants' \in Nat
      /\ OpenFits(open', Len(code))
  BY <1>1 DEF StateInv
<1>3. opc \in {Constant, ConstantLong}
  BY <1>2, Opcodes
<1>4. opc \in AllBytes /\ Length(opc) \in 0..3
  <2>1. opc \in 0..6
    BY <1>3, Opcodes
  <2> HIDE DEF opc
  <2> QED BY <2>1, Lengths
<1>5. Step /\ Write(Bytes(opc, Length(opc), index, <<>>)) /\ line' = line
  BY <1>1
<1> HIDE DEF opc
<1> QED BY <1>2, <1>4, <1>5, NoUpvalues, EmitKeepsState

LEMMA ClosureKeepsState ==
  ASSUME StateInv, emit_closure PROVE StateInv'
<1>1. PICK us \in UpvalueLists :
        LET opc == VarLength(Closure, constants)
        IN /\ Step /\ Write(Bytes(opc, Length(opc), constants, us))
           /\ constants' = constants + 1 /\ UNCHANGED <<line, open>>
  BY DEF emit_closure, emit_instruction
<1> DEFINE opc == VarLength(Closure, constants)
<1>2. constants \in Nat /\ constants' \in Nat /\ OpenFits(open', Len(code))
  BY <1>1 DEF StateInv
<1>3. opc \in Closures
  BY <1>2, Opcodes DEF Closures
<1>4. opc \in AllBytes /\ Length(opc) \in 0..3
  <2>1. opc \in 0..6
    BY <1>3, Opcodes
  <2> HIDE DEF opc
  <2> QED BY <2>1, Lengths
<1>5. Step /\ Write(Bytes(opc, Length(opc), constants, us)) /\ line' = line
  BY <1>1
<1> HIDE DEF opc
<1> QED BY <1>2, <1>4, <1>5, Listed, EmitKeepsState

\* The placeholder of a jump.
LEMMA MaxOperandNumber == MaxOperand \in Nat /\ MaxOperand + 1 = Weight[3]
BY Weights DEF MaxOperand

\* A jump or a loop begins at the end of the code.
LEMMA OpenNew ==
  ASSUME StateInv, NEW kind \in {"jump", "loop"}
  PROVE  OpenFits(Append(open, [kind |-> kind, at |-> Len(code), breaks |-> {}]),
                  Len(code))
<1> DEFINE n == Len(code)
           x == [kind |-> kind, at |-> n, breaks |-> {}]
<1>1. n \in Nat /\ OpenFits(open, n)
  BY SampleNumbers DEF StateInv
<1> HIDE DEF n
<1>2. x \in Opened /\ x.at = n
  BY <1>1 DEF Opened
<1> HIDE DEF x
<1>3. OpenFits(Append(open, x), n)
  <2>1. x.at <= n
    BY <1>1, <1>2
  <2> QED BY <1>1, <1>2, <2>1, OpenFitsPushed
<1> QED BY <1>3 DEF n, x

LEMMA JumpKeepsState ==
  ASSUME StateInv, emit_jump PROVE StateInv'
<1>1. /\ Step /\ Write(Bytes(Jump, 2, MaxOperand, <<>>)) /\ line' = line
      /\ open' = Append(open, [kind |-> "jump", at |-> Len(code), breaks |-> {}])
      /\ constants' = constants
  BY DEF emit_jump, emit_instruction
<1>2. OpenFits(open', Len(code)) /\ constants' \in Nat
  BY <1>1, OpenNew DEF StateInv
<1>3. Jump \in AllBytes
  BY Opcodes, Lengths
<1> DEFINE opc == Jump
           n == 2
           v == MaxOperand
           us == <<>>
<1>4. opc \in AllBytes /\ n \in 0..3 /\ v \in Nat /\ us \in Seq(Upvalue)
  BY <1>3, MaxOperandNumber, NoUpvalues
<1>5. Write(Bytes(opc, n, v, us))
  BY <1>1
<1> HIDE DEF opc, n, v, us
<1> QED BY <1>1, <1>2, <1>3, <1>4, <1>5, EmitKeepsState

LEMMA LoopKeepsState ==
  ASSUME StateInv, begin_loop PROVE StateInv'
<1>1. /\ Step /\ UNCHANGED <<code, lines, constants, line, line_of>>
      /\ open' = Append(open, [kind |-> "loop", at |-> Len(code), breaks |-> {}])
  BY DEF begin_loop
<1>2. OpenFits(open', Len(code)) /\ constants' \in Nat /\ code' \in Seq(AllBytes)
  BY <1>1, OpenNew DEF StateInv, BytesInv
<1>3. steps' \in Nat /\ UNCHANGED <<sample, line, lines, line_of>>
  BY <1>1, StepCounts
<1> QED BY <1>1, <1>2, <1>3, StatePatched

LEMMA BreakKeepsState ==
  ASSUME StateInv, break_statement PROVE StateInv'
<1>1. /\ InLoop /\ Step /\ Write(Bytes(End, 2, MaxOperand, <<>>)) /\ line' = line
      /\ open' = [open EXCEPT ![Innermost].breaks = @ \union {Len(code)}]
      /\ constants' = constants
  BY DEF break_statement
<1>2. Len(code) \in Nat /\ OpenFits(open, Len(code)) /\ constants \in Nat
      /\ open \in Seq(Opened)
  BY SampleNumbers DEF StateInv, OpenFits
<1>3. Innermost \in 1..Len(open)
  BY <1>1, <1>2, InnermostFound
<1>4. OpenFits(open', Len(code))
  BY <1>1, <1>2, <1>3, OpenFitsBreak
<1>5. End \in AllBytes
  BY OpcodesAreBytes DEF End
<1>6. constants' \in Nat
  BY <1>1, <1>2
<1> DEFINE opc == End
           n == 2
           v == MaxOperand
           us == <<>>
<1>7. opc \in AllBytes /\ n \in 0..3 /\ v \in Nat /\ us \in Seq(Upvalue)
  BY <1>5, MaxOperandNumber, NoUpvalues
<1>8. Write(Bytes(opc, n, v, us))
  BY <1>1
<1> HIDE DEF opc, n, v, us
<1> QED BY <1>1, <1>4, <1>5, <1>6, <1>7, <1>8, EmitKeepsState

\* An open jump, or a loop, starts in the code.
LEMMA LastOpen ==
  ASSUME StateInv, open # <<>>
  PROVE  /\ Last(open) \in Opened /\ Last(open).at \in Nat
         /\ Last(open).at <= Len(code) /\ Len(code) \in Nat
         /\ OpenFits(Front(open), Len(code))
<1> DEFINE n == Len(code)
           m == Len(open)
<1>1. n \in Nat /\ OpenFits(open, n) /\ open \in Seq(Opened)
  BY SampleNumbers DEF StateInv, OpenFits
<1>2. m \in Nat /\ m > 0 /\ Last(open) = open[m]
  BY <1>1 DEF Last
<1> HIDE DEF n
<1>3. open[m].at <= n /\ open[m] \in Opened
  <2> HIDE DEF m
  <2>1. m \in 1..m
    BY <1>2
  <2> USE DEF m
  <2> QED BY <1>1, <2>1 DEF OpenFits
<1>4. open[m].at \in Nat
  BY <1>3 DEF Opened
<1>5. OpenFits(Front(open), n)
  BY <1>1, OpenFitsFront
<1> HIDE DEF m
<1> QED BY <1>1, <1>2, <1>3, <1>4, <1>5 DEF n

LEMMA PatchKeepsState ==
  ASSUME StateInv, patch_jump PROVE StateInv'
<1> DEFINE o == Last(open).at + 1
           v == Distance(o, Len(code))
<1>1. /\ open # <<>> /\ Step /\ code' = Patched(code, o, v) /\ open' = Front(open)
      /\ UNCHANGED <<lines, constants, line, line_of>>
  BY DEF patch_jump
<1>2. o \in Nat /\ v \in Int /\ OpenFits(open', Len(code))
  <2>1. Last(open).at \in Nat /\ Len(code) \in Nat /\ OpenFits(Front(open), Len(code))
    BY <1>1, LastOpen
  <2> QED BY <1>1, <2>1 DEF Distance
<1> HIDE DEF o, v
<1>3. code \in Seq(AllBytes) /\ constants' \in Nat
  BY <1>1 DEF StateInv, BytesInv
<1>4. code' \in Seq(AllBytes) /\ Len(code') = Len(code)
  BY <1>1, <1>2, <1>3, PatchedBytes
<1>5. steps' \in Nat /\ UNCHANGED <<sample, line, lines, line_of>>
  BY <1>1, StepCounts
<1> QED BY <1>2, <1>3, <1>4, <1>5, StatePatched

LEMMA EndLoopKeepsState ==
  ASSUME StateInv, end_loop PROVE StateInv'
<1> DEFINE found == Placeholders[Last(open).at]
<1>1. /\ open # <<>> /\ Step /\ code' = BreaksPatched(code, found) /\ open' = Front(open)
      /\ UNCHANGED <<lines, constants, line, line_of>>
  BY DEF end_loop
<1>2. found \in SUBSET Nat /\ OpenFits(open', Len(code))
  <2> DEFINE at == Last(open).at
             n == Len(code)
  <2>1. at \in Nat /\ at <= n /\ n \in Nat /\ OpenFits(Front(open), n)
    BY <1>1, LastOpen
  <2> HIDE DEF at, n
  <2>2. at \in 0..n
    BY <2>1
  <2>3. Placeholders[at] \subseteq 0..(n - 1)
    BY <2>1, <2>2, PlaceholdersInCode DEF n
  <2>4. 0..(n - 1) \subseteq Nat
    BY <2>1
  <2> QED BY <1>1, <2>1, <2>3, <2>4 DEF at, n
<1> HIDE DEF found
<1>3. code \in Seq(AllBytes) /\ constants' \in Nat
  BY <1>1 DEF StateInv, BytesInv
<1>4. code' \in Seq(AllBytes) /\ Len(code') = Len(code)
  BY <1>1, <1>2, <1>3, BreaksBytes
<1>5. steps' \in Nat /\ UNCHANGED <<sample, line, lines, line_of>>
  BY <1>1, StepCounts
<1> QED BY <1>2, <1>3, <1>4, <1>5, StatePatched

\* The start of the innermost loop.
LEMMA InnermostStart ==
  ASSUME StateInv, InLoop
  PROVE  /\ open[Innermost].at \in Nat /\ open[Innermost].at <= Len(code)
         /\ Len(code) \in Nat
         /\ LoopOffset(open[Innermost].at) \in Nat
         /\ LoopOffset(open[Innermost].at) = Len(code) + 3 - open[Innermost].at
<1>1. OpenFits(open, Len(code)) /\ open \in Seq(Opened) /\ Len(code) \in Nat
  BY SampleNumbers DEF StateInv, OpenFits
<1>2. Innermost \in 1..Len(open)
  BY <1>1, InnermostFound
<1> DEFINE k == Innermost
           at == open[k].at
           n == Len(code)
<1> HIDE DEF k
<1>3. at \in Nat /\ at <= n
  <2>1. k \in 1..Len(open)
    BY <1>2 DEF k
  <2>2. at \in Nat
    BY <1>1, <2>1, OpenParts
  <2>3. at <= n
    BY <1>1, <2>1, Zenon DEF OpenFits
  <2> QED BY <2>2, <2>3
<1> HIDE DEF at, n
<1>4. n \in Nat
  BY <1>1 DEF n
<1>5. n - at + 2 + 1 \in Nat /\ n - at + 2 + 1 = n + 3 - at
  BY <1>3, <1>4
<1>6. LoopOffset(at) = n - at + 2 + 1
  BY DEF LoopOffset, n
<1> QED BY <1>3, <1>4, <1>5, <1>6 DEF at, n, k

LEMMA EmitLoopKeepsState ==
  ASSUME StateInv, emit_loop PROVE StateInv'
<1> DEFINE opc == Loop
           n == 2
           v == LoopOffset(open[Innermost].at)
           us == <<>>
<1>1. /\ InLoop /\ Step /\ Write(Bytes(opc, n, v, us))
      /\ UNCHANGED <<constants, line, open>>
  BY DEF emit_loop, emit_instruction
<1>2. opc \in AllBytes /\ n \in 0..3 /\ v \in Nat /\ us \in Seq(Upvalue)
  BY <1>1, InnermostStart, NoUpvalues, Opcodes, Lengths
<1> HIDE DEF opc, n, v, us
<1>3. constants' \in Nat /\ OpenFits(open', Len(code)) /\ line' = line
  BY <1>1 DEF StateInv
<1> QED BY <1>1, <1>2, <1>3, EmitKeepsState

LEMMA StateStep ==
  ASSUME StateInv, [Next]_vars PROVE StateInv'
<1>1. CASE UNCHANGED vars
  <2>1. BytesInv'
    BY <1>1 DEF StateInv, BytesInv, vars
  <2>2. TableInv'
    <3>1. Table(lines', Len(code'), line_of', line')
      BY <1>1 DEF StateInv, TableInv, vars
    <3> QED BY <3>1 DEF TableInv
  <2>3. steps' \in Nat /\ constants' \in Nat /\ OpenFits(open', Len(code'))
    BY <1>1 DEF StateInv, vars
  <2> QED BY <2>1, <2>2, <2>3 DEF StateInv
<1>2. CASE Next
  BY <1>2, LineKeepsState, SimpleKeepsState, ConstantKeepsState, ClosureKeepsState,
     JumpKeepsState, LoopKeepsState, BreakKeepsState, PatchKeepsState,
     EmitLoopKeepsState, EndLoopKeepsState DEF Next
<1> QED BY <1>1, <1>2

-----------------------------------------------------------------------------
(***************************************************************************)
(* The constants at the start of a function.                               *)
(***************************************************************************)
PreludeOpcode(i) == IF i < Base THEN Constant ELSE ConstantLong

\* The bytes of one of them.
PreludePart(i) ==
  <<PreludeOpcode(i)>> \o write_multibyte_operand(Length(PreludeOpcode(i)), i)
    \o <<Nil>>

LEMMA PreludeOpcodes ==
  ASSUME NEW i \in Nat
  PROVE  /\ PreludeOpcode(i) \in 0..6 /\ PreludeOpcode(i) \in AllBytes
         /\ PreludeOpcode(i) \notin Closures
         /\ PreludeOpcode(i) \notin {Jump, Loop, End}
         /\ Length(PreludeOpcode(i)) = IF i < Base THEN 1 ELSE 3
         /\ i < Weight[4] => i < Weight[Length(PreludeOpcode(i)) + 1]
<1> DEFINE opc == PreludeOpcode(i)
<1>1. opc = IF i < Base THEN Constant ELSE ConstantLong
  BY DEF PreludeOpcode
<1>2. opc \in 0..6 /\ opc \notin {Jump, Loop, End} /\ opc \notin Closures
      /\ Length(opc) = IF i < Base THEN 1 ELSE 3
  BY <1>1, Opcodes
<1> HIDE DEF opc
<1>3. opc \in AllBytes
  BY <1>2, Lengths
<1>4. ASSUME i < Weight[4] PROVE i < Weight[Length(opc) + 1]
  <2>1. CASE i < Base
    <3>1. Length(opc) + 1 = 2 /\ Weight[2] = Base
      BY <1>2, <2>1, Weights
    <3> QED BY <2>1, <3>1, Zenon
  <2>2. CASE ~(i < Base)
    <3>1. Length(opc) + 1 = 4
      BY <1>2, <2>2
    <3> QED BY <1>4, <3>1, Zenon
  <2> QED BY <2>1, <2>2
<1> QED BY <1>2, <1>3, <1>4 DEF opc

PartRight(i, b) ==
  LET n == Length(PreludeOpcode(i))
  IN /\ b \in Seq(AllBytes) /\ Len(b) = n + 2 /\ b[1] = PreludeOpcode(i)
     /\ \A k \in 1..n : b[1 + k] = Digit(i, k)
     /\ b[n + 2] = Nil

LEMMA PreludeParts ==
  ASSUME NEW i \in Nat PROVE PartRight(i, PreludePart(i))
<1> DEFINE opc == PreludeOpcode(i)
           n == Length(opc)
           w == write_multibyte_operand(n, i)
           a == <<opc>> \o w
           c == <<Nil>>
           b == a \o c
<1>1. opc \in AllBytes /\ n \in {1, 3}
  BY PreludeOpcodes
<1> HIDE DEF opc, n
<1>2. w \in Seq(AllBytes) /\ Len(w) = n /\ \A k \in 1..n : w[k] = Digit(i, k)
  <2>1. n \in 0..3
    BY <1>1
  <2> QED BY <2>1, WrittenOperand
<1> HIDE DEF w
<1>3. /\ a \in Seq(AllBytes) /\ Len(a) = 1 + n /\ a[1] = opc
      /\ \A k \in 1..n : a[1 + k] = w[k]
  BY <1>1, <1>2, Prefixed
<1> HIDE DEF a
<1>4. c \in Seq(AllBytes) /\ Len(c) = 1 /\ c[1] = Nil
  BY OpcodesAreBytes DEF Nil
<1> HIDE DEF c
<1>5. /\ b \in Seq(AllBytes) /\ Len(b) = n + 2
      /\ \A k \in 1..(1 + n) : b[k] = a[k]
      /\ b[n + 2] = c[1]
  <2>1. Len(b) = Len(a) + Len(c) /\ b \in Seq(AllBytes)
    BY <1>3, <1>4, ConcatProperties
  <2>2. \A k \in 1..Len(b) : b[k] = IF k <= Len(a) THEN a[k] ELSE c[k - Len(a)]
    BY <1>3, <1>4, ConcatProperties
  <2>3. n + 2 \in 1..Len(b) /\ Len(b) = n + 2 /\ 1..(1 + n) \subseteq 1..Len(b)
    <3> HIDE DEF b
    <3> QED BY <1>1, <1>3, <1>4, <2>1
  <2>4. \A k \in 1..(1 + n) : k <= Len(a)
    <3> HIDE DEF b
    <3> QED BY <1>1, <1>3
  <2>5. ~(n + 2 <= Len(a)) /\ n + 2 - Len(a) = 1
    <3> HIDE DEF b
    <3> QED BY <1>1, <1>3
  <2> HIDE DEF b
  <2>6. \A k \in 1..(1 + n) : b[k] = a[k]
    BY <2>2, <2>3, <2>4, Zenon
  <2>7. b[n + 2] = c[n + 2 - Len(a)]
    BY <1>1, <2>2, <2>3, <2>5
  <2>8. b[n + 2] = c[1]
    BY <2>5, <2>7
  <2> QED BY <2>1, <2>3, <2>6, <2>8
<1> HIDE DEF b
<1>6. b[1] = opc /\ \A k \in 1..n : b[1 + k] = Digit(i, k)
  BY <1>1, <1>2, <1>3, <1>5
<1>7. PreludePart(i) = b
  BY DEF PreludePart, b, a, w, n, opc, c
<1>8. b \in Seq(AllBytes) /\ Len(b) = n + 2 /\ b[1] = opc
      /\ (\A k \in 1..n : b[1 + k] = Digit(i, k)) /\ b[n + 2] = Nil
  BY <1>4, <1>5, <1>6
<1>9. PartRight(i, b)
  BY <1>8, Zenon DEF PartRight, n, opc
<1> QED BY <1>7, <1>9

\* Where the code of a constant is, and what there is.
PreludePair(i) ==
  {Emitted(PreludeOffset(i), PreludeOpcode(i), i, <<>>),
   Emitted(PreludeOffset(i) + 1 + Length(PreludeOpcode(i)), Nil, 0, <<>>)}

LEMMA PreludeOffsets ==
  ASSUME NEW i \in Nat
  PROVE  /\ PreludeOffset(i) \in Nat /\ PreludeOffset(0) = 0
         /\ PreludeOffset(i + 1) = PreludeOffset(i) + Length(PreludeOpcode(i)) + 2
<1>1. Length(PreludeOpcode(i)) = IF i < Base THEN 1 ELSE 3
  BY PreludeOpcodes
<1>2. Base \in Nat /\ Base >= 8
  BY ChunkAssumption
<1>3. PreludeOffset(i) \in Nat /\ PreludeOffset(0) = 0
  BY <1>2 DEF PreludeOffset
<1>4. PreludeOffset(i + 1) = PreludeOffset(i) + (IF i < Base THEN 3 ELSE 5)
  BY <1>2 DEF PreludeOffset
<1> QED BY <1>1, <1>3, <1>4

\* One more of them.
LEMMA PreludeMore ==
  ASSUME NEW m \in Nat
  PROVE  /\ PreludeInstructions(m + 1) = PreludeInstructions(m) \union PreludePair(m)
         /\ PreludeInstructions(0) = {}
<1> DEFINE P(i) == LET opc == IF i < Base THEN Constant ELSE ConstantLong
                   IN {Emitted(PreludeOffset(i), opc, i, <<>>),
                       Emitted(PreludeOffset(i) + 1 + Length(opc), Nil, 0, <<>>)}
<1>1. \A n : PreludeInstructions(n) = UNION {P(i) : i \in 0..(n - 1)}
  BY DEF PreludeInstructions
<1>2. P(m) = PreludePair(m)
  BY DEF PreludePair, PreludeOpcode
<1> HIDE DEF P
<1>3. 0..(m + 1 - 1) = (0..(m - 1)) \union {m}
  OBVIOUS
<1>4. UNION {P(i) : i \in (0..(m - 1)) \union {m}}
        = (UNION {P(i) : i \in 0..(m - 1)}) \union P(m)
  <2> DEFINE S == 0..(m - 1)
  <2> HIDE DEF S
  <2>1. UNION {P(i) : i \in S \union {m}} = (UNION {P(i) : i \in S}) \union P(m)
    OBVIOUS
  <2> QED BY <2>1 DEF S
<1>5. 0..(0 - 1) = {}
  OBVIOUS
<1>6. PreludeInstructions(0) = UNION {P(i) : i \in 0..(0 - 1)}
  BY <1>1, Zenon
<1>7. PreludeInstructions(m + 1) = UNION {P(i) : i \in 0..(m + 1 - 1)}
  BY DEF PreludeInstructions, P
<1>8. PreludeInstructions(m) = UNION {P(i) : i \in 0..(m - 1)}
  BY <1>1, Zenon
<1>9. PreludeInstructions(m + 1) = PreludeInstructions(m) \union P(m)
  BY <1>3, <1>4, <1>7, <1>8, Zenon
<1>10. PreludeInstructions(0) = {}
  <2>1. UNION {P(i) : i \in {}} = {}
    BY Zenon
  <2> QED BY <1>5, <1>6, <2>1, Zenon
<1> QED BY <1>2, <1>9, <1>10

\* The parts of the prelude are where they should be.
PartsPlaced(n, c) ==
  /\ c \in Seq(AllBytes) /\ Len(c) = PreludeOffset(n)
  /\ \A i \in 0..(n - 1) : \A k \in 1..(Length(PreludeOpcode(i)) + 2) :
       c[PreludeOffset(i) + k] = PreludePart(i)[k]

LEMMA PreludePlaced ==
  ASSUME NEW n \in Nat PROVE PartsPlaced(n, PreludeCode(n))
<1> DEFINE ss == [i \in 1..n |-> PreludePart(i - 1)]
           c == PreludeCode(n)
<1>1. c = FlattenSeq(ss)
  BY DEF PreludeCode, PreludePart, PreludeOpcode
<1>2. \A i \in 1..n : i - 1 \in Nat
  OBVIOUS
<1>3. \A i \in 1..n : /\ PreludePart(i - 1) \in Seq(AllBytes)
                      /\ Len(PreludePart(i - 1)) = Length(PreludeOpcode(i - 1)) + 2
  BY <1>2, PreludeParts DEF PartRight
<1>4. ss \in Seq(Seq(AllBytes)) /\ Len(ss) = n
  <2>1. ss \in [1..n -> Seq(AllBytes)]
    BY <1>3
  <2> HIDE DEF ss
  <2> QED BY <2>1
<1>5. \A i \in 1..n : ss[i] = PreludePart(i - 1)
  OBVIOUS
<1> HIDE DEF ss
<1>6. PICK p \in [0..n -> Nat] : Parts(p, ss, c)
  BY <1>1, <1>4, FlattenedParts
<1>7. c \in Seq(AllBytes)
  BY <1>1, <1>4, FlattenedParts
<1> HIDE DEF c
<1>8. p[0] = 0 /\ p[n] = Len(c)
      /\ \A i \in 1..n : /\ p[i] = p[i - 1] + Len(ss[i])
                         /\ \A k \in 1..Len(ss[i]) : c[p[i - 1] + k] = ss[i][k]
  BY <1>4, <1>6 DEF Parts
<1> DEFINE S == {m \in Nat : m <= n => p[m] = PreludeOffset(m)}
<1>9. 0 \in S
  BY <1>8, PreludeOffsets
<1>10. ASSUME NEW m \in Nat, m \in S PROVE m + 1 \in S
  <2> SUFFICES ASSUME m + 1 <= n PROVE p[m + 1] = PreludeOffset(m + 1)
    OBVIOUS
  <2> DEFINE k == m + 1
  <2>1. k \in 1..n /\ k - 1 = m /\ m <= n
    OBVIOUS
  <2> HIDE DEF k
  <2>2. p[k] = p[k - 1] + Len(ss[k]) /\ ss[k] = PreludePart(k - 1)
    BY <1>5, <1>8, <2>1
  <2>3. Len(ss[k]) = Length(PreludeOpcode(m)) + 2
    BY <1>3, <2>1, <2>2
  <2>4. p[m] = PreludeOffset(m)
    BY <1>10, <2>1
  <2>5. Length(PreludeOpcode(m)) \in Nat /\ PreludeOffset(m) \in Nat
    <3> HIDE DEF S
    <3>1. Length(PreludeOpcode(m)) = IF m < Base THEN 1 ELSE 3
      BY PreludeOpcodes
    <3>2. PreludeOffset(m) \in Nat
      BY PreludeOffsets
    <3> QED BY <3>1, <3>2
  <2>6. PreludeOffset(m + 1) = PreludeOffset(m) + Length(PreludeOpcode(m)) + 2
    BY PreludeOffsets
  <2>7. p[k] = PreludeOffset(m + 1)
    BY <2>1, <2>2, <2>3, <2>4, <2>5, <2>6
  <2> QED BY <2>7 DEF k
<1>11. Nat \subseteq S
  <2> HIDE DEF S
  <2> QED BY <1>9, <1>10, SetInduction
<1>12. \A m \in 0..n : p[m] = PreludeOffset(m)
  BY <1>11
<1>13. ASSUME NEW i \in 0..(n - 1), NEW k \in 1..(Length(PreludeOpcode(i)) + 2)
       PROVE  c[PreludeOffset(i) + k] = PreludePart(i)[k]
  <2> DEFINE j == i + 1
  <2>1. j \in 1..n /\ j - 1 = i /\ i \in 0..n
    OBVIOUS
  <2> HIDE DEF j
  <2>2. ss[j] = PreludePart(i) /\ Len(ss[j]) = Length(PreludeOpcode(i)) + 2
    BY <1>3, <1>5, <2>1
  <2>3. c[p[i] + k] = ss[j][k]
    BY <1>8, <2>1, <2>2
  <2> QED BY <1>12, <2>1, <2>2, <2>3
<1>14. Len(c) = PreludeOffset(n)
  BY <1>8, <1>12
<1>15. PartsPlaced(n, c)
  BY <1>7, <1>13, <1>14, Zenon DEF PartsPlaced
<1> QED BY <1>15 DEF c

\* An instruction without upvalues stands where its bytes are.
StandsPlainly(c, o, opc, v) ==
  LET e == Emitted(o, opc, v, <<>>)
  IN /\ IsEmitted(e, o, opc, v, <<>>) /\ Stands(c, e)
     /\ After(e) = o + 1 + Length(opc)

LEMMA PlainStands ==
  ASSUME NEW o \in Nat, NEW opc \in 0..6, NEW v \in Nat, opc \notin Closures,
         opc \notin {Jump, Loop} => v < Weight[Length(opc) + 1],
         NEW c, c[o + 1] = opc, \A k \in 1..Length(opc) : c[o + 1 + k] = Digit(v, k)
  PROVE  StandsPlainly(c, o, opc, v)
<1> DEFINE us == <<>>
           e == Emitted(o, opc, v, us)
           n == Length(opc)
           b == Bytes(opc, n, v, us)
<1>1. us \in Seq(Upvalue) /\ Len(UpvalueBytes(us)) = 0 /\ (opc \notin Closures => us = <<>>)
  BY NoUpvalues
<1> HIDE DEF us
<1>2. IsEmitted(e, o, opc, v, us)
  BY <1>1, EmittedRight
<1> HIDE DEF e
<1>3. n \in 0..3 /\ opc \in AllBytes
  BY Lengths
<1>4. BytesRight(opc, n, v, us, b)
  <2> HIDE DEF n
  <2> QED BY <1>1, <1>3, BytesWritten
<1>5. Written(e) = b /\ e.offset = o /\ e.opcode = opc /\ After(e) = o + Len(Written(e))
  BY <1>2 DEF IsEmitted
<1> HIDE DEF b
<1>6. Len(b) = 1 + n /\ b[1] = opc /\ \A k \in 1..n : b[1 + k] = Digit(v, k)
  <2> DEFINE m == Len(UpvalueBytes(us))
  <2>1. Len(b) = 1 + n + m /\ b[1] = opc /\ \A k \in 1..n : b[1 + k] = Digit(v, k)
    BY <1>4 DEF BytesRight
  <2>2. m = 0
    BY <1>1
  <2> HIDE DEF m, n
  <2> QED BY <1>3, <2>1, <2>2
<1>7. ASSUME NEW k \in 1..Len(b) PROVE c[o + k] = b[k]
  <2>1. CASE k = 1
    BY <1>6, <2>1
  <2>2. CASE k # 1
    <3> DEFINE j == k - 1
    <3> HIDE DEF n
    <3>1. j \in 1..n /\ k = 1 + j
      BY <1>3, <1>6, <1>7, <2>2
    <3> HIDE DEF j
    <3>2. b[k] = Digit(v, j) /\ c[o + 1 + j] = Digit(v, j)
      BY <1>6, <3>1 DEF n
    <3>3. o + 1 + j = o + k
      BY <1>3, <3>1
    <3> QED BY <3>2, <3>3
  <2> QED BY <2>1, <2>2
<1>8. Stands(c, e)
  <2>1. CASE opc = Jump
    BY <1>5, <2>1 DEF Stands
  <2>2. CASE opc # Jump
    BY <1>5, <1>7, <2>2, Zenon DEF Stands
  <2> QED BY <2>1, <2>2
<1>9. After(e) = o + 1 + n
  <2> HIDE DEF n
  <2> QED BY <1>3, <1>5, <1>6
<1> QED BY <1>2, <1>8, <1>9, Zenon DEF StandsPlainly, e, us, n

LEMMA PreludePairFills ==
  ASSUME NEW i \in Nat, i < Weight[4], NEW c,
         \A k \in 1..(Length(PreludeOpcode(i)) + 2) :
           c[PreludeOffset(i) + k] = PreludePart(i)[k]
  PROVE  Fills(c, PreludePair(i), PreludeOffset(i), PreludeOffset(i + 1))
<1> DEFINE o == PreludeOffset(i)
           opc == PreludeOpcode(i)
           n == Length(opc)
           b == PreludePart(i)
           x == Emitted(o, opc, i, <<>>)
           q == o + 1 + n
           y == Emitted(q, Nil, 0, <<>>)
<1>1. o \in Nat /\ PreludeOffset(i + 1) = o + n + 2
  BY PreludeOffsets
<1>2. opc \in 0..6 /\ opc \notin Closures /\ opc \notin {Jump, Loop, End}
      /\ i < Weight[n + 1] /\ n \in {1, 3}
  BY PreludeOpcodes
<1>3. PartRight(i, b)
  BY PreludeParts
<1>4. b[1] = opc /\ (\A k \in 1..n : b[1 + k] = Digit(i, k)) /\ b[n + 2] = Nil
  BY <1>3, Zenon DEF PartRight
<1>5. \A k \in 1..(n + 2) : c[o + k] = b[k]
  OBVIOUS
<1> HIDE DEF b
<1>6. c[o + 1] = opc /\ (\A k \in 1..n : c[o + 1 + k] = Digit(i, k)) /\ c[q + 1] = Nil
  <2> HIDE DEF n, o, opc
  <2>1. 1 \in 1..(n + 2) /\ n + 2 \in 1..(n + 2) /\ o + (n + 2) = q + 1
        /\ \A k \in 1..n : 1 + k \in 1..(n + 2) /\ o + (1 + k) = o + 1 + k
    BY <1>1, <1>2
  <2>2. c[o + (n + 2)] = Nil
    BY <1>4, <1>5, <2>1, Zenon
  <2>3. c[o + 1] = opc
    BY <1>4, <1>5, <2>1, Zenon
  <2>4. ASSUME NEW k \in 1..n PROVE c[o + 1 + k] = Digit(i, k)
    <3>1. c[o + (1 + k)] = Digit(i, k)
      BY <1>4, <1>5, <2>1, Zenon
    <3>2. o + (1 + k) = o + 1 + k
      BY <2>1
    <3> QED BY <3>1, <3>2
  <2>5. c[q + 1] = Nil
    <3>1. o + (n + 2) = q + 1
      BY <2>1
    <3> HIDE DEF q
    <3> QED BY <2>2, <3>1
  <2> QED BY <2>3, <2>4, <2>5
<1>7. IsInstruction(x) /\ Stands(c, x) /\ x.offset = o /\ After(x) = q
  <2>1. \A k \in 1..Length(opc) : c[o + 1 + k] = Digit(i, k)
    BY <1>6
  <2>2. opc \notin {Jump, Loop} => i < Weight[Length(opc) + 1]
    BY <1>2
  <2> HIDE DEF n, o, opc
  <2>3. StandsPlainly(c, o, opc, i)
    <3>1. o \in Nat /\ opc \in 0..6 /\ opc \notin Closures /\ i \in Nat
      BY <1>1, <1>2
    <3>2. c[o + 1] = opc
      BY <1>6, Zenon
    <3> QED BY <2>1, <2>2, <3>1, <3>2, PlainStands, Zenon
  <2>4. IsEmitted(x, o, opc, i, <<>>) /\ Stands(c, x) /\ After(x) = o + 1 + n
    BY <2>3, Zenon DEF StandsPlainly, n
  <2> QED BY <2>4, Zenon DEF IsEmitted, q
<1>8. IsInstruction(y) /\ Stands(c, y) /\ y.offset = q /\ After(y) = o + n + 2
  <2>1. q \in Nat /\ q + 1 = o + n + 2
    <3> HIDE DEF n, o
    <3> QED BY <1>1, <1>2
  <2> HIDE DEF q
  <2>2. LET e == Emitted(q, Nil, 0, <<>>)
        IN /\ IsInstruction(e) /\ e.offset = q /\ e.opcode = Nil /\ After(e) = q + 1
           /\ Len(Written(e)) = 1 /\ Written(e)[1] = Nil
           /\ \A d : d[q + 1] = Nil => Stands(d, e)
    BY <2>1, NilEmitted
  <2> QED BY <1>6, <2>1, <2>2
<1> HIDE DEF x, y
<1>9. Fills(c, {x}, o, q)
  <2>1. Fills(c, {x}, x.offset, After(x))
    BY <1>7, FillsOne
  <2> QED BY <1>7, <2>1
<1>10. Fills(c, {y}, q, o + n + 2)
  <2>1. Fills(c, {y}, y.offset, After(y))
    BY <1>8, FillsOne
  <2> QED BY <1>8, <2>1
<1>11. Fills(c, {x} \union {y}, o, o + n + 2)
  <2> DEFINE t == o + n + 2
  <2> HIDE DEF t, q
  <2>1. Fills(c, {x}, o, q) /\ Fills(c, {y}, q, t)
    BY <1>9, <1>10 DEF t
  <2>2. Fills(c, {x} \union {y}, o, t)
    BY <2>1, FillsJoin
  <2> QED BY <2>2 DEF t
<1>12. PreludePair(i) = {x} \union {y}
  BY DEF PreludePair, x, y, o, opc, n, q
<1> QED BY <1>1, <1>11, <1>12

\* The prelude is its instructions, one after the other.
LEMMA PreludeFills ==
  ASSUME NEW n \in Nat, n <= Weight[4], NEW c, PartsPlaced(n, c)
  PROVE  Fills(c, PreludeInstructions(n), 0, Len(c))
<1> DEFINE S == {m \in Nat : m <= n =>
                   Fills(c, PreludeInstructions(m), 0, PreludeOffset(m))}
<1>1. 0 \in S
  <2>1. Fills(c, {}, 0, 0)
    BY FillsNone
  <2>2. PreludeInstructions(0) = {} /\ PreludeOffset(0) = 0
    BY PreludeMore, PreludeOffsets
  <2> QED BY <2>1, <2>2
<1>2. ASSUME NEW m \in Nat, m \in S PROVE m + 1 \in S
  <2> DEFINE k == m + 1
             a == PreludeOffset(m)
             t == PreludeOffset(k)
  <2>1. k \in Nat
    OBVIOUS
  <2>2. ASSUME k <= n PROVE Fills(c, PreludeInstructions(k), 0, t)
    <3>1. m \in 0..(n - 1) /\ m <= n /\ m < Weight[4]
      <4>1. Weight[4] \in Nat
        BY Weights
      <4> DEFINE w == Weight[4]
      <4> HIDE DEF w
      <4>2. w \in Nat /\ n <= w
        BY <4>1 DEF w
      <4>3. m < w
        BY <2>2, <4>2
      <4> QED BY <2>2, <4>3 DEF w
    <3>2. Fills(c, PreludeInstructions(m), 0, a)
      BY <1>2, <3>1
    <3>3. \A j \in 1..(Length(PreludeOpcode(m)) + 2) : c[a + j] = PreludePart(m)[j]
      BY <3>1, Zenon DEF PartsPlaced
    <3>4. Fills(c, PreludePair(m), a, t)
      BY <3>1, <3>3, PreludePairFills
    <3> HIDE DEF a, t
    <3>5. Fills(c, PreludeInstructions(m) \union PreludePair(m), 0, t)
      BY <3>2, <3>4, FillsJoin
    <3>6. PreludeInstructions(m) \union PreludePair(m) = PreludeInstructions(k)
      BY PreludeMore
    <3> QED BY <3>5, <3>6
  <2> QED BY <2>1, <2>2
<1>3. n \in S
  <2> HIDE DEF S
  <2> QED BY <1>1, <1>2, SetInduction
<1>4. n <= n /\ Len(c) = PreludeOffset(n)
  BY DEF PartsPlaced
<1> QED BY <1>3, <1>4

\* There are no jumps and no closures.
LEMMA PreludePlain ==
  ASSUME NEW n \in Nat, NEW e \in PreludeInstructions(n)
  PROVE  e.opcode \in {Constant, ConstantLong, Nil}
<1>1. PICK i \in 0..(n - 1) : \E o, opc, q :
        opc \in {Constant, ConstantLong}
        /\ e \in {Emitted(o, opc, i, <<>>), Emitted(q, Nil, 0, <<>>)}
  BY DEF PreludeInstructions
<1> QED BY <1>1 DEF Emitted

LEMMA InitState ==
  ASSUME Init PROVE StateInv
<1> DEFINE n == sample.prelude
<1>1. /\ sample \in Samples /\ code = PreludeCode(n) /\ constants = n /\ line = 1
      /\ lines = IF code = <<>> THEN <<>> ELSE <<[offset |-> 0, line |-> 1]>>
      /\ line_of = [i \in DOMAIN code |-> 1] /\ open = <<>> /\ steps = 0
  BY DEF Init
<1>2. n \in Nat /\ sample.lines \in Nat \ {0}
  BY <1>1, ChunkAssumption
<1>3. PartsPlaced(n, code)
  BY <1>1, <1>2, PreludePlaced
<1> HIDE DEF n
<1>4. code \in Seq(AllBytes)
  BY <1>3 DEF PartsPlaced
<1>5. Len(code) \in Nat /\ DOMAIN code = 1..Len(code)
  BY <1>4
<1>6. line_of \in Seq(Nat) /\ Len(line_of) = Len(code)
      /\ \A o \in 1..Len(code) : line_of[o] = 1
  <2> DEFINE m == Len(code)
  <2>1. line_of \in [1..m -> Nat]
    BY <1>1, <1>5
  <2>2. \A o \in 1..m : line_of[o] = 1
    BY <1>1, <1>5
  <2> HIDE DEF m
  <2>3. m \in Nat
    BY <1>5 DEF m
  <2>4. line_of \in Seq(Nat) /\ Len(line_of) = m
    BY <2>1, <2>3
  <2> QED BY <2>2, <2>4 DEF m
<1>7. BytesInv
  <2>1. line \in 1..sample.lines
    BY <1>1, <1>2
  <2> QED BY <1>1, <1>4, <1>6, <2>1 DEF BytesInv
<1>8. TableInv
  <2>1. CASE code = <<>>
    <3>1. Len(code) = 0 /\ lines = <<>>
      BY <1>1, <2>1
    <3>2. Table(<<>>, 0, line_of, line)
      BY <1>1 DEF Table
    <3> QED BY <3>1, <3>2 DEF TableInv
  <2>2. CASE code # <<>>
    <3> DEFINE x == [offset |-> 0, line |-> 1]
               t == <<x>>
               m == Len(code)
    <3>1. lines = t /\ m > 0 /\ m \in Nat
      BY <1>1, <1>4, <2>2
    <3>2. x \in LineEntry /\ x.offset = 0 /\ x.line = 1
      BY DEF LineEntry
    <3> HIDE DEF x
    <3>3. t \in Seq(LineEntry) /\ Len(t) = 1 /\ t[1] = x
      BY <3>2
    <3> HIDE DEF t
    <3>4. \A o \in 0..(m - 1) : line_of[o + 1] = 1
      <4> HIDE DEF m
      <4>1. ASSUME NEW o \in 0..(m - 1) PROVE o + 1 \in 1..m
        BY <3>1
      <4> USE DEF m
      <4> QED BY <1>6, <4>1
    <3> HIDE DEF m
    <3>5. \A i \in 1..Len(t) : t[i] = x
      BY <3>3
    <3>6. \A i \in 1..Len(t) : t[i].offset < m /\ t[i].line <= 1
      BY <3>1, <3>2, <3>5
    <3>7. m > 0 => Len(t) > 0 /\ t[1].offset = 0
      BY <3>2, <3>3
    <3>8. 2..Len(t) = {}
      BY <3>3
    <3>9. \A i \in 1..Len(t), o \in 0..(m - 1) :
            Covers(t, i, o) => line_of[o + 1] = t[i].line
      BY <3>2, <3>4, <3>5
    <3>10. \A i \in 2..Len(t) : t[i].offset > t[i - 1].offset /\ t[i].line > t[i - 1].line
      BY <3>8
    <3>11. Table(t, m, line_of, 1)
      BY <3>3, <3>6, <3>7, <3>9, <3>10, Zenon DEF Table
    <3> QED BY <1>1, <3>1, <3>11 DEF TableInv, m
  <2> QED BY <2>1, <2>2
<1>9. steps \in Nat /\ constants \in Nat /\ OpenFits(open, Len(code))
  <2>1. <<>> \in Seq(Opened) /\ Len(<<>>) = 0
    OBVIOUS
  <2> QED BY <1>1, <1>2, <2>1 DEF OpenFits
<1> QED BY <1>7, <1>8, <1>9 DEF StateInv

\* Whatever closures there are, the bytes and the table of lines are right.
THEOREM StateKept == Spec => []StateInv
<1>1. Init => StateInv
  BY InitState
<1>2. StateInv /\ [Next]_vars => StateInv'
  BY StateStep
<1> QED BY <1>1, <1>2, PTL DEF Spec

\* Everything written fits into bytes, and the table of lines goes up.
THEOREM TypeCorrect == Spec => []TypeOK
<1>1. StateInv => TypeOK
  BY TypeRight DEF StateInv
<1> QED BY <1>1, StateKept, PTL

\* The line of a byte is the one it was written for, in functions of any
\* length: the binary search of get_line always ends at the entry.
THEOREM LinesKept == Spec => []LinesFound
<1>1. StateInv => LinesFound
  BY LinesRight DEF StateInv
<1> QED BY <1>1, StateKept, PTL

-----------------------------------------------------------------------------
(***************************************************************************)
(* Jumps that are patched: what is not patched stays as it is.             *)
(***************************************************************************)
Repaired(c, d, es, P) ==
  /\ Fills(c, es, 0, Len(c)) /\ Len(d) = Len(c)
  /\ \A p \in P : JumpAt(d, es, p, Jump)
  /\ \A o \in 1..Len(c) : d[o] = c[o] \/ \E p \in P : o \in (p + 1)..(p + 3)

LEMMA RepairedJump ==
  ASSUME NEW c, NEW d, NEW es, NEW P, Repaired(c, d, es, P), NEW p \in P
  PROVE  \E f \in es : /\ f.offset = p /\ f.opcode = Jump /\ After(f) = p + 3
                       /\ IsInstruction(f) /\ d[p + 1] = Jump /\ p \in Nat
<1>1. PICK f \in es : f.offset = p /\ f.opcode = Jump /\ d[p + 1] = Jump
  BY Zenon DEF Repaired, JumpAt
<1>2. Fills(c, es, 0, Len(c))
  BY Zenon DEF Repaired
<1>3. IsInstruction(f) /\ f.offset \in Nat
  BY <1>2, FillsApart
<1>4. After(f) = f.offset + 3
  <2>1. f.opcode \in {Jump, Loop} => After(f) = f.offset + 3
    BY <1>3, InstructionWritten
  <2> QED BY <1>1, <2>1
<1> QED BY <1>1, <1>3, <1>4

LEMMA RepairedApart ==
  ASSUME NEW c, NEW d, NEW es, NEW P, Repaired(c, d, es, P), NEW e \in es, e.offset \notin P
  PROVE  \A o \in (e.offset + 1)..After(e) : d[o] = c[o]
<1> DEFINE n == Len(c)
<1>1. Fills(c, es, 0, n)
  BY Zenon DEF Repaired
<1>2. \A o \in 1..n : d[o] = c[o] \/ \E p \in P : o \in (p + 1)..(p + 3)
  BY Zenon DEF Repaired
<1> HIDE DEF n
<1>3. n \in Nat /\ e.offset \in Nat /\ After(e) \in Nat /\ After(e) <= n
  <2>1. n \in Nat
    BY <1>1, Zenon DEF Fills
  <2>2. e.offset \in Nat /\ After(e) \in Nat /\ After(e) <= n
    BY <1>1, FillsApart
  <2> QED BY <2>1, <2>2
<1> SUFFICES ASSUME NEW o \in (e.offset + 1)..After(e), d[o] # c[o] PROVE FALSE
  OBVIOUS
<1>4. o \in 1..n
  BY <1>3
<1>5. PICK p \in P : o \in (p + 1)..(p + 3)
  BY <1>2, <1>4
<1>6. PICK f \in es : f.offset = p /\ After(f) = p + 3 /\ p \in Nat
  BY RepairedJump
<1>7. f # e
  BY <1>6
<1>8. After(f) <= e.offset \/ After(e) <= f.offset
  BY <1>1, <1>7, FillsApart
<1> QED BY <1>3, <1>5, <1>6, <1>8

\* The first byte, above all.
LEMMA RepairedFirst ==
  ASSUME NEW c, NEW d, NEW es, NEW P, Repaired(c, d, es, P), NEW e \in es, e.offset \notin P
  PROVE  d[e.offset + 1] = c[e.offset + 1]
<1>1. Fills(c, es, 0, Len(c))
  BY Zenon DEF Repaired
<1>2. e.offset \in Nat /\ After(e) \in Nat /\ e.offset < After(e)
  BY <1>1, FillsApart
<1>3. e.offset + 1 \in (e.offset + 1)..After(e)
  BY <1>2
<1> QED BY <1>3, RepairedApart

LEMMA RepairedFills ==
  ASSUME NEW c, NEW d, NEW es, NEW P, Repaired(c, d, es, P)
  PROVE  Fills(d, es, 0, Len(d))
<1> DEFINE n == Len(c)
<1>1. Fills(c, es, 0, n) /\ Len(d) = n
  BY Zenon DEF Repaired
<1>2. ASSUME NEW e \in es, e.opcode = Jump PROVE d[e.offset + 1] \in {Jump, End}
  <2>1. CASE e.offset \in P
    <3>1. d[e.offset + 1] = Jump
      BY <2>1, RepairedJump
    <3> QED BY <3>1
  <2>2. CASE e.offset \notin P
    <3>1. d[e.offset + 1] = c[e.offset + 1]
      BY <2>2, RepairedFirst
    <3>2. IsInstruction(e) /\ Stands(c, e)
      BY <1>1, FillsApart
    <3> QED BY <1>2, <3>1, <3>2, FirstByte
  <2> QED BY <2>1, <2>2
<1>3. ASSUME NEW o \in (0 + 1)..n
      PROVE  d[o] = c[o] \/ \E e \in es : e.opcode = Jump /\ o \in (e.offset + 1)..After(e)
  <2> SUFFICES ASSUME d[o] # c[o]
               PROVE  \E e \in es : e.opcode = Jump /\ o \in (e.offset + 1)..After(e)
    OBVIOUS
  <2>1. o \in 1..n
    OBVIOUS
  <2>2. PICK p \in P : o \in (p + 1)..(p + 3)
    BY <2>1, Zenon DEF Repaired
  <2>3. PICK f \in es : f.offset = p /\ f.opcode = Jump /\ After(f) = p + 3
    BY RepairedJump
  <2> QED BY <2>2, <2>3
<1> HIDE DEF n
<1>4. Fills(d, es, 0, n)
  BY <1>1, <1>2, <1>3, FillsKept
<1> QED BY <1>1, <1>4

\* Jumps that are not patched go where they went.
LEMMA RepairedLand ==
  ASSUME NEW c, NEW d, NEW es, NEW P, Repaired(c, d, es, P), NEW ts, AllLand(c, es, ts),
         \A t \in ts : t[1] \notin P
  PROVE  AllLand(d, es, ts)
<1>1. Fills(c, es, 0, Len(c))
  BY Zenon DEF Repaired
<1>2. ASSUME NEW t \in ts PROVE Lands(d, es, t)
  <2>1. Lands(c, es, t)
    BY Zenon DEF AllLand
  <2>2. PICK e \in es : e.offset = t[1] /\ e.opcode \in {Jump, Loop}
    BY <2>1, Zenon DEF Lands
  <2>3. \A o \in (e.offset + 1)..After(e) : d[o] = c[o]
    BY <2>2, RepairedApart
  <2>4. e.offset \in Nat /\ After(e) = e.offset + 3
    <3>1. IsInstruction(e) /\ e.offset \in Nat
      BY <1>1, FillsApart
    <3>2. e.opcode \in {Jump, Loop} => After(e) = e.offset + 3
      BY <3>1, InstructionWritten
    <3> QED BY <2>2, <3>1, <3>2
  <2>5. t[1] \in Nat /\ \A o \in (t[1] + 1)..(t[1] + 3) : d[o] = c[o]
    BY <2>2, <2>3, <2>4
  <2>6. d[t[1] + 1] = c[t[1] + 1] /\ d[t[1] + 2] = c[t[1] + 2]
        /\ d[t[1] + 3] = c[t[1] + 3]
    BY <2>5
  <2> QED BY <2>1, <2>6, LandsKept
<1>3. ts \subseteq Nat \X Nat
  BY Zenon DEF AllLand
<1> QED BY <1>2, <1>3 DEF AllLand

\* What is open, and not patched, is so still.
LEMMA RepairedOpen ==
  ASSUME NEW c, NEW d, NEW es, NEW P, Repaired(c, d, es, P), NEW os, NEW ts,
         OpenRight(c, es, os, ts),
         \A i \in 1..Len(os) : /\ os[i].kind = "jump" => os[i].at \notin P
                               /\ \A b \in os[i].breaks : b \notin P
  PROVE  OpenRight(d, es, os, ts)
<1>1. Len(d) = Len(c) /\ os \in Seq(Opened)
  BY Zenon DEF Repaired, OpenRight
<1>2. ASSUME NEW at, NEW opc, JumpAt(c, es, at, opc), at \notin P
      PROVE  d[at + 1] = c[at + 1]
  <2>1. PICK e \in es : e.offset = at
    BY <1>2, Zenon DEF JumpAt
  <2> QED BY <1>2, <2>1, RepairedFirst
<1>3. ASSUME NEW i \in 1..Len(os)
      PROVE  /\ os[i].kind = "jump" => d[os[i].at + 1] = c[os[i].at + 1]
             /\ \A b \in os[i].breaks : d[b + 1] = c[b + 1]
  <2>1. ASSUME os[i].kind = "jump" PROVE d[os[i].at + 1] = c[os[i].at + 1]
    <3>1. Waits(c, es, ts, os[i])
      BY <2>1, Zenon DEF OpenRight
    <3>2. JumpAt(c, es, os[i].at, Jump)
      BY <3>1, Zenon DEF Waits
    <3> QED BY <1>2, <2>1, <3>2
  <2>2. ASSUME NEW b \in os[i].breaks PROVE d[b + 1] = c[b + 1]
    <3>1. CASE os[i].kind = "loop"
      <4>1. Loops(c, es, os[i])
        BY <3>1, Zenon DEF OpenRight
      <4>2. JumpAt(c, es, b, End)
        BY <4>1, Zenon DEF Loops
      <4> QED BY <1>2, <4>2
    <3>2. CASE os[i].kind = "jump"
      <4>1. Waits(c, es, ts, os[i])
        BY <3>2, Zenon DEF OpenRight
      <4> QED BY <4>1, Zenon DEF Waits
    <3>3. os[i].kind \in {"jump", "loop"}
      BY <1>1, OpenParts
    <3> QED BY <3>1, <3>2, <3>3
  <2> QED BY <2>1, <2>2
<1> QED BY <1>1, <1>3, OpenKept

-----------------------------------------------------------------------------
(***************************************************************************)
(* The jumps, one step after the other, of any code.                       *)
(***************************************************************************)
Jumps(c, es, os, ts) ==
  AllLand(c, es, ts) /\ OpenRight(c, es, os, ts) /\ EndsRight(c, es, os)

\* More code, without a placeholder.
LEMMA JumpsExtended ==
  ASSUME NEW c, NEW d, NEW es, NEW fs, Extended(c, d, es, fs), NEW os, NEW ts,
         Jumps(c, es, os, ts), \A e \in fs : d[e.offset + 1] # End,
         \A e \in fs : e.opcode = ClosureLong => \A i \in 1..Len(os) : os[i].kind # "loop"
  PROVE  Jumps(d, es \union fs, os, ts)
<1>1. AllLand(c, es, ts) /\ OpenRight(c, es, os, ts) /\ EndsRight(c, es, os)
  BY Zenon DEF Jumps
<1>2. AllLand(d, es \union fs, ts)
  BY <1>1, AllLandExtended
<1>3. OpenRight(d, es \union fs, os, ts)
  BY <1>1, OpenExtended
<1>4. EndsRight(d, es \union fs, os)
  BY <1>1, EndsExtended
<1> QED BY <1>2, <1>3, <1>4, Zenon DEF Jumps

\* A jump is begun: the instruction is written, and noted.
LEMMA JumpBegun ==
  ASSUME NEW c, NEW d, NEW es, NEW e, Extended(c, d, es, {e}), NEW os, NEW ts,
         Jumps(c, es, os, ts), e.offset = Len(c), e.opcode = Jump,
         d[Len(c) + 1] = Jump, NEW x \in Opened, x.kind = "jump", x.at = Len(c),
         x.breaks = {}
  PROVE  Jumps(d, es \union {e}, Append(os, x), ts)
<1> DEFINE n == Len(c)
           fs == es \union {e}
<1>1. Fills(c, es, 0, n) /\ n \in Nat /\ Len(d) \in Nat /\ n < Len(d)
  BY ExtendedFills DEF Extended
<1>2. Jump # ClosureLong /\ Jump # End
  BY Opcodes DEF Closures
<1>3. Jumps(d, fs, os, ts)
  <2>1. \A f \in {e} : d[f.offset + 1] # End /\ f.opcode # ClosureLong
    BY <1>2
  <2> QED BY <2>1, JumpsExtended
<1>4. AllLand(d, fs, ts) /\ OpenRight(d, fs, os, ts) /\ EndsRight(d, fs, os)
      /\ AllLand(c, es, ts) /\ OpenRight(c, es, os, ts)
  BY <1>3, Zenon DEF Jumps
<1>5. Waits(d, fs, ts, x)
  <2>1. JumpAt(d, fs, x.at, Jump)
    BY DEF JumpAt
  <2>2. ASSUME NEW t \in ts PROVE t[1] # x.at
    <3>1. Lands(c, es, t)
      BY <1>4, Zenon DEF AllLand
    <3>2. t[1] \in Nat /\ t[1] + 3 <= n
      BY <1>1, <3>1, LandInCode
    <3> HIDE DEF n
    <3>3. t[1] # n
      BY <1>1, <3>2
    <3> QED BY <3>3 DEF n
  <2> QED BY <2>1, <2>2, Zenon DEF Waits
<1>6. ASSUME NEW i \in 1..Len(os) PROVE Nested(os[i], x)
  <2>1. /\ os[i].at \in Nat /\ os[i].at <= n
        /\ os[i].kind = "jump" => os[i].at < n
    BY <1>1, <1>4, OpenInCode
  <2> QED BY <2>1 DEF Nested
<1>7. x.at <= Len(d) /\ (x.kind = "loop" => Loops(d, fs, x))
      /\ (x.kind = "jump" => Waits(d, fs, ts, x))
  <2> HIDE DEF fs
  <2>1. n <= Len(d)
    <3> DEFINE m == Len(d)
    <3> HIDE DEF n, m
    <3>1. n \in Nat /\ m \in Nat /\ n < m
      BY <1>1 DEF m
    <3>2. n <= m
      BY <3>1
    <3> QED BY <3>2 DEF m
  <2> QED BY <1>5, <2>1
<1> HIDE DEF n, fs
<1>8. OpenRight(d, fs, Append(os, x), ts)
  BY <1>4, <1>6, <1>7, OpenPushed
<1>9. EndsRight(d, fs, Append(os, x))
  <2>1. os \in Seq(Opened)
    BY <1>4, Zenon DEF OpenRight
  <2> QED BY <1>4, <2>1, EndsPushed
<1>10. Jumps(d, fs, Append(os, x), ts)
  BY <1>4, <1>8, <1>9, Zenon DEF Jumps
<1> QED BY <1>10 DEF fs

\* A loop starts where the next instruction will be.
LEMMA LoopBegun ==
  ASSUME NEW c, NEW es, Fills(c, es, 0, Len(c)), NEW os, NEW ts, Jumps(c, es, os, ts),
         NEW x \in Opened, x.kind = "loop", x.at = Len(c), x.breaks = {}
  PROVE  Jumps(c, es, Append(os, x), ts)
<1> DEFINE n == Len(c)
<1>1. n \in Nat
  BY Zenon DEF Fills
<1>2. AllLand(c, es, ts) /\ OpenRight(c, es, os, ts) /\ EndsRight(c, es, os)
  BY Zenon DEF Jumps
<1>3. ASSUME NEW e \in es, e.offset >= n PROVE e.opcode # ClosureLong
  <2>1. e.offset \in Nat /\ After(e) \in Nat /\ e.offset < After(e) /\ After(e) <= n
    BY FillsApart
  <2> HIDE DEF n
  <2> QED BY <1>1, <1>3, <2>1
<1>4. Loops(c, es, x)
  BY <1>3 DEF Loops
<1>5. ASSUME NEW i \in 1..Len(os) PROVE Nested(os[i], x)
  <2>1. /\ os[i].at \in Nat /\ os[i].at <= n
        /\ os[i].kind = "jump" => os[i].at < n
        /\ \A b \in os[i].breaks : b \in Nat /\ b < n
    BY <1>2, OpenInCode
  <2> QED BY <2>1 DEF Nested
<1>6. x.at <= Len(c) /\ (x.kind = "jump" => Waits(c, es, ts, x))
  <2> HIDE DEF n
  <2>1. n <= n
    BY <1>1
  <2> QED BY <2>1 DEF n
<1>7. OpenRight(c, es, Append(os, x), ts)
  BY <1>2, <1>4, <1>5, <1>6, OpenPushed
<1>8. EndsRight(c, es, Append(os, x))
  <2>1. os \in Seq(Opened)
    BY <1>2, Zenon DEF OpenRight
  <2> QED BY <1>2, <2>1, EndsPushed
<1> QED BY <1>2, <1>7, <1>8, Zenon DEF Jumps

\* A break of loop k.
WithBreak(os, k, b, new) ==
  /\ new \in Seq(Opened) /\ Len(new) = Len(os)
  /\ \A i \in 1..Len(os) : i # k => new[i] = os[i]
  /\ new[k].kind = os[k].kind /\ new[k].at = os[k].at
  /\ new[k].breaks = os[k].breaks \union {b}

LEMMA BreakAdded ==
  ASSUME NEW c, NEW d, NEW es, NEW e, Extended(c, d, es, {e}), NEW os, NEW ts,
         Jumps(c, es, os, ts), e.offset = Len(c), e.opcode = Jump,
         d[Len(c) + 1] = End, NEW k \in 1..Len(os), os[k].kind = "loop",
         \A j \in 1..Len(os) : os[j].kind = "loop" => j <= k,
         NEW new, WithBreak(os, k, Len(c), new)
  PROVE  Jumps(d, es \union {e}, new, ts)
<1> DEFINE n == Len(c)
           fs == es \union {e}
<1>1. AllLand(c, es, ts) /\ OpenRight(c, es, os, ts) /\ EndsRight(c, es, os)
  BY Zenon DEF Jumps
<1>2. AllLand(d, fs, ts)
  BY <1>1, AllLandExtended
<1>3. OpenRight(d, fs, os, ts)
  <2>1. \A f \in {e} : f.opcode # ClosureLong
    BY Opcodes DEF Closures
  <2> QED BY <1>1, <2>1, OpenExtended
<1>4. os \in Seq(Opened) /\ Len(os) \in Nat /\ new \in Seq(Opened) /\ Len(new) = Len(os)
  <2>1. os \in Seq(Opened)
    BY <1>1, Zenon DEF OpenRight
  <2>2. new \in Seq(Opened) /\ Len(new) = Len(os)
    BY Zenon DEF WithBreak
  <2> QED BY <2>1, <2>2
<1>5. /\ \A i \in 1..Len(os) : i # k => new[i] = os[i]
      /\ new[k].kind = "loop" /\ new[k].at = os[k].at
      /\ new[k].breaks = os[k].breaks \union {n}
  BY Zenon DEF WithBreak
<1>6. \A i \in 1..Len(os) : new[i].kind = os[i].kind /\ new[i].at = os[i].at
  BY <1>5
<1>7. os[k].at \in Nat /\ os[k].at <= n /\ n \in Nat
  <2>1. Fills(c, es, 0, Len(c))
    BY Zenon DEF Extended
  <2> QED BY <1>1, <2>1, OpenInCode
<1>8. Loops(d, fs, new[k])
  <2>1. Loops(d, fs, os[k])
    BY <1>3, Zenon DEF OpenRight
  <2>2. /\ os[k].at = Len(d) \/ \E f \in fs : f.offset = os[k].at
        /\ \A b \in os[k].breaks : b >= os[k].at /\ JumpAt(d, fs, b, End)
        /\ \A f \in fs : f.offset >= os[k].at => f.opcode # ClosureLong
    BY <2>1, Zenon DEF Loops
  <2>3. JumpAt(d, fs, n, End)
    BY DEF JumpAt
  <2>4. n >= os[k].at
    <3> HIDE DEF n
    <3> QED BY <1>7
  <2>5. \A b \in new[k].breaks : b >= new[k].at /\ JumpAt(d, fs, b, End)
    BY <1>5, <2>2, <2>3, <2>4
  <2>6. new[k].at = Len(d) \/ \E f \in fs : f.offset = new[k].at
    BY <1>5, <2>2
  <2>7. \A f \in fs : f.offset >= new[k].at => f.opcode # ClosureLong
    BY <1>5, <2>2
  <2> QED BY <2>5, <2>6, <2>7, Zenon DEF Loops
<1>9. ASSUME NEW i \in 1..Len(new)
      PROVE  /\ new[i].at <= Len(d)
             /\ new[i].kind = "jump" => Waits(d, fs, ts, new[i])
             /\ new[i].kind = "loop" => Loops(d, fs, new[i])
  <2>1. /\ os[i].at <= Len(d)
        /\ os[i].kind = "jump" => Waits(d, fs, ts, os[i])
        /\ os[i].kind = "loop" => Loops(d, fs, os[i])
    BY <1>3, <1>4, Zenon DEF OpenRight
  <2>2. CASE i = k
    <3>1. new[i].kind = "loop" /\ new[i].at = os[i].at
      BY <1>5, <2>2
    <3>2. "loop" # "jump"
      OBVIOUS
    <3> QED BY <1>8, <2>1, <2>2, <3>1, <3>2, Zenon
  <2>3. CASE i # k
    <3>1. new[i] = os[i]
      BY <1>4, <1>5, <2>3
    <3> QED BY <2>1, <3>1, Zenon
  <2> QED BY <2>2, <2>3
<1>10. ASSUME NEW i \in 1..Len(new), NEW j \in 1..Len(new), i < j
       PROVE  Nested(new[i], new[j])
  <2>1. Nested(os[i], os[j])
    BY <1>3, <1>4, <1>10, Zenon DEF OpenRight
  <2>2. i \in 1..Len(os) /\ j \in 1..Len(os)
    BY <1>4
  <2>3. CASE i # k
    <3>1. new[i] = os[i]
      BY <1>5, <2>2, <2>3
    <3> QED BY <1>6, <2>1, <2>2, <3>1 DEF Nested
  <2>4. CASE i = k
    <3>1. os[j].kind # "loop"
      <4>1. ~(j <= k)
        BY <1>10, <2>2, <2>4
      <4> QED BY <2>2, <4>1
    <3>2. os[i].at <= os[j].at /\ os[i].kind = "loop"
      BY <2>1, <2>4 DEF Nested
    <3>3. new[i].at <= new[j].at /\ new[i].kind = "loop" /\ new[j].kind # "loop"
      BY <1>6, <2>2, <3>1, <3>2
    <3>4. new[i].kind # "jump"
      BY <3>3
    <3> QED BY <3>3, <3>4, Zenon DEF Nested
  <2> QED BY <2>3, <2>4
<1>11. OpenRight(d, fs, new, ts)
  BY <1>4, <1>9, <1>10, Zenon DEF OpenRight
<1>12. EndsRight(d, fs, new)
  <2> SUFFICES ASSUME NEW f \in fs, d[f.offset + 1] = End
               PROVE  \E i \in 1..Len(new) : new[i].kind = "loop" /\ f.offset \in new[i].breaks
    BY Zenon DEF EndsRight
  <2>1. CASE f = e
    <3>1. f.offset \in new[k].breaks /\ new[k].kind = "loop" /\ k \in 1..Len(new)
      BY <1>4, <1>5, <2>1
    <3> QED BY <3>1, Zenon
  <2>2. CASE f # e
    <3>1. f \in es
      BY <2>2
    <3>2. Fills(c, es, 0, n) /\ \A o \in 1..n : d[o] = c[o]
      BY Zenon DEF Extended
    <3>3. f.offset \in Nat /\ After(f) \in Nat /\ f.offset < After(f) /\ After(f) <= n
      BY <3>1, <3>2, FillsApart
    <3>4. d[f.offset + 1] = c[f.offset + 1]
      <4> HIDE DEF n
      <4>1. f.offset + 1 \in 1..n
        BY <1>7, <3>3
      <4> QED BY <3>2, <4>1
    <3>5. PICK i \in 1..Len(os) : os[i].kind = "loop" /\ f.offset \in os[i].breaks
      BY <1>1, <3>1, <3>4, Zenon DEF EndsRight
    <3>6. i \in 1..Len(new) /\ new[i].kind = "loop" /\ f.offset \in new[i].breaks
      BY <1>4, <1>5, <1>6, <3>5
    <3> QED BY <3>6, Zenon
  <2> QED BY <2>1, <2>2
<1>13. Jumps(d, fs, new, ts)
  BY <1>2, <1>11, <1>12, Zenon DEF Jumps
<1> QED BY <1>13 DEF fs

\* A jump back to the start of a loop.
LEMMA LoopBack ==
  ASSUME NEW c, NEW d, NEW es, NEW e, Extended(c, d, es, {e}), NEW os, NEW ts,
         Jumps(c, es, os, ts), e.offset = Len(c), e.opcode = Loop, d[Len(c) + 1] = Loop,
         NEW at \in Nat, at <= Len(c), NEW v, v = Len(c) + 3 - at, v < Weight[3],
         d[Len(c) + 2] = Digit(v, 1), d[Len(c) + 3] = Digit(v, 2)
  PROVE  Jumps(d, es \union {e}, os, ts \union {<<Len(c), at>>})
<1> DEFINE n == Len(c)
           fs == es \union {e}
           t == <<n, at>>
<1>1. Jumps(d, fs, os, ts)
  <2>1. \A f \in {e} : d[f.offset + 1] # End /\ f.opcode # ClosureLong
    BY Opcodes DEF Closures
  <2> QED BY <2>1, JumpsExtended
<1>2. AllLand(d, fs, ts) /\ OpenRight(d, fs, os, ts) /\ EndsRight(d, fs, os)
      /\ OpenRight(c, es, os, ts)
  BY <1>1, Zenon DEF Jumps
<1>3. Fills(c, es, 0, n) /\ n \in Nat
  BY ExtendedFills DEF Extended
<1>4. Lands(d, fs, t)
  <2>1. t[1] = n /\ t[2] = at
    OBVIOUS
  <2> HIDE DEF n, t
  <2>2. v \in Nat
    BY <1>3 DEF n
  <2>3. Way(Loop, t) = v
    BY <2>1 DEF Way, n
  <2>4. e \in fs /\ e.offset = t[1] /\ e.opcode \in {Jump, Loop} /\ d[t[1] + 1] = e.opcode
    BY <2>1 DEF n
  <2>5. /\ Way(e.opcode, t) \in Nat /\ Way(e.opcode, t) < Weight[3]
        /\ d[t[1] + 2] = Digit(Way(e.opcode, t), 1)
        /\ d[t[1] + 3] = Digit(Way(e.opcode, t), 2)
    BY <2>1, <2>2, <2>3 DEF n
  <2> HIDE DEF fs
  <2> QED BY <2>4, <2>5, Zenon DEF Lands
<1>5. AllLand(d, fs, {t})
  <2>1. t \in Nat \X Nat
    BY <1>3
  <2> HIDE DEF t, fs
  <2> QED BY <1>4, <2>1 DEF AllLand
<1>6. AllLand(d, fs, ts \union {t})
  BY <1>2, <1>5, AllLandMore
<1>7. OpenRight(d, fs, os, ts \union {t})
  <2>1. ASSUME NEW i \in 1..Len(os), os[i].kind = "jump" PROVE n # os[i].at
    <3>1. os[i].at \in Nat /\ os[i].at < n
      BY <1>2, <1>3, <2>1, OpenInCode
    <3> HIDE DEF n
    <3> QED BY <1>3, <3>1
  <2>2. \A u \in {t}, i \in 1..Len(os) : os[i].kind = "jump" => u[1] # os[i].at
    BY <2>1
  <2> HIDE DEF t, fs
  <2> QED BY <1>2, <2>2, OpenMoreTargets
<1>8. Jumps(d, fs, os, ts \union {t})
  BY <1>2, <1>6, <1>7, Zenon DEF Jumps
<1> QED BY <1>8 DEF fs, t, n

\* The innermost jump or loop is done with: its jumps are patched, and now go
\* where us says.
PatchesLast(es, os, ts, P, d, us) ==
  /\ os # <<>> /\ (Last(os).kind = "loop" => Last(os).breaks \subseteq P)
  /\ \A t \in ts : t[1] \notin P
  /\ \A i \in 1..(Len(os) - 1) : /\ os[i].kind = "jump" => os[i].at \notin P
                                 /\ \A b \in os[i].breaks : b \notin P
  /\ AllLand(d, es, us) /\ \A u \in us : u[1] \in P

LEMMA LastPatched ==
  ASSUME NEW c, NEW d, NEW es, NEW P, Repaired(c, d, es, P), NEW os, NEW ts,
         Jumps(c, es, os, ts), NEW us, PatchesLast(es, os, ts, P, d, us)
  PROVE  Jumps(d, es, Front(os), ts \union us)
<1> DEFINE fs == Front(os)
<1>1. AllLand(c, es, ts) /\ OpenRight(c, es, os, ts) /\ EndsRight(c, es, os)
  BY Zenon DEF Jumps
<1>2. /\ os # <<>> /\ (Last(os).kind = "loop" => Last(os).breaks \subseteq P)
      /\ \A t \in ts : t[1] \notin P
      /\ \A i \in 1..(Len(os) - 1) : /\ os[i].kind = "jump" => os[i].at \notin P
                                     /\ \A b \in os[i].breaks : b \notin P
      /\ AllLand(d, es, us) /\ \A u \in us : u[1] \in P
  BY Zenon DEF PatchesLast
<1>3. /\ OpenRight(c, es, fs, ts) /\ Len(os) \in Nat /\ Len(os) > 0
      /\ fs \in Seq(Opened) /\ Len(fs) = Len(os) - 1
      /\ Last(os) = os[Len(os)]
      /\ \A i \in 1..(Len(os) - 1) : fs[i] = os[i]
  <2>1. /\ OpenRight(c, es, fs, ts) /\ Len(os) \in Nat /\ Len(os) > 0
        /\ fs \in Seq(Opened) /\ Len(fs) = Len(os) - 1
        /\ Last(os) = os[Len(os)]
        /\ \A i \in 1..(Len(os) - 1) : fs[i] = os[i] /\ Nested(os[i], Last(os))
    BY <1>1, <1>2, OpenFront
  <2> QED BY <2>1, Zenon
<1> HIDE DEF fs
<1>4. \A i \in 1..Len(fs) : /\ fs[i].kind = "jump" => fs[i].at \notin P
                            /\ \A b \in fs[i].breaks : b \notin P
  BY <1>2, <1>3
<1>5. AllLand(d, es, ts)
  BY <1>1, <1>2, RepairedLand
<1>6. AllLand(d, es, ts \union us)
  BY <1>2, <1>5, AllLandMore
<1>7. OpenRight(d, es, fs, ts)
  BY <1>3, <1>4, RepairedOpen
<1>8. OpenRight(d, es, fs, ts \union us)
  <2>1. \A u \in us, i \in 1..Len(fs) : fs[i].kind = "jump" => u[1] # fs[i].at
    BY <1>2, <1>4, Zenon
  <2> QED BY <1>7, <2>1, OpenMoreTargets
<1>9. EndsRight(d, es, fs)
  <2> SUFFICES ASSUME NEW e \in es, d[e.offset + 1] = End
               PROVE  \E i \in 1..Len(fs) : fs[i].kind = "loop" /\ e.offset \in fs[i].breaks
    BY Zenon DEF EndsRight
  <2>1. e.offset \notin P
    <3> SUFFICES ASSUME e.offset \in P PROVE FALSE
      BY Zenon
    <3>1. d[e.offset + 1] = Jump
      BY RepairedJump
    <3> QED BY <3>1, Opcodes
  <2>2. c[e.offset + 1] = End
    BY <2>1, RepairedFirst
  <2>3. PICK i \in 1..Len(os) : os[i].kind = "loop" /\ e.offset \in os[i].breaks
    BY <1>1, <2>2, Zenon DEF EndsRight
  <2>4. i # Len(os)
    BY <1>2, <1>3, <2>1, <2>3
  <2>5. i \in 1..(Len(os) - 1)
    BY <1>3, <2>4
  <2>6. i \in 1..Len(fs) /\ fs[i] = os[i]
    BY <1>3, <2>5
  <2> QED BY <2>3, <2>6
<1> QED BY <1>6, <1>8, <1>9, Zenon DEF Jumps, fs

\* The bytes of a patched jump.
JumpBytes(c, d, at, v) ==
  /\ Len(d) = Len(c)
  /\ \A i \in 1..Len(c) : d[i] = IF i = at + 2 THEN Digit(v, 1)
                                 ELSE IF i = at + 3 THEN Digit(v, 2) ELSE c[i]

LEMMA JumpPatched ==
  ASSUME NEW c, NEW es, Fills(c, es, 0, Len(c)), NEW os, NEW ts, Jumps(c, es, os, ts),
         os # <<>>, Last(os).kind = "jump", NEW at, at = Last(os).at,
         NEW d, NEW v, v = Len(c) - (at + 3), JumpBytes(c, d, at, v)
  PROVE  /\ Fills(d, es, 0, Len(d))
         /\ v < Weight[3] => Jumps(d, es, Front(os), ts \union {<<at, Len(c)>>})
<1> DEFINE n == Len(c)
           P == {at}
           t == <<at, n>>
<1>1. AllLand(c, es, ts) /\ OpenRight(c, es, os, ts) /\ EndsRight(c, es, os)
  BY Zenon DEF Jumps
<1>2. /\ Len(os) \in Nat /\ Len(os) > 0 /\ os \in Seq(Opened)
      /\ Last(os) = os[Len(os)]
      /\ \A i \in 1..(Len(os) - 1) : Nested(os[i], Last(os))
  <2>1. os \in Seq(Opened)
    BY <1>1, Zenon DEF OpenRight
  <2> QED BY <1>1, <2>1, OpenFront
<1>3. Waits(c, es, ts, Last(os))
  <2>1. Len(os) \in 1..Len(os)
    BY <1>2
  <2>2. os[Len(os)].kind = "jump"
    BY <1>2
  <2>3. Waits(c, es, ts, os[Len(os)])
    BY <1>1, <2>1, <2>2, Zenon DEF OpenRight
  <2> QED BY <1>2, <2>3
<1>4. JumpAt(c, es, at, Jump) /\ \A u \in ts : u[1] # at
  BY <1>3, Zenon DEF Waits
<1>5. at \in Nat /\ at + 3 <= n /\ n \in Nat
  BY <1>4, JumpInCode
<1>6. PICK e \in es : e.offset = at /\ e.opcode = Jump /\ c[at + 1] = Jump
  BY <1>4, Zenon DEF JumpAt
<1>7. /\ Len(d) = n /\ d[at + 1] = Jump
      /\ d[at + 2] = Digit(v, 1) /\ d[at + 3] = Digit(v, 2)
      /\ \A o \in 1..n : d[o] = c[o] \/ o \in (at + 1)..(at + 3)
  <2>1. Len(d) = n /\ \A i \in 1..n : d[i] = IF i = at + 2 THEN Digit(v, 1)
                                 ELSE IF i = at + 3 THEN Digit(v, 2) ELSE c[i]
    BY Zenon DEF JumpBytes
  <2> HIDE DEF n
  <2>2. at + 1 \in 1..n /\ at + 2 \in 1..n /\ at + 3 \in 1..n
        /\ at + 1 # at + 2 /\ at + 1 # at + 3 /\ at + 3 # at + 2
    BY <1>5
  <2>3. ASSUME NEW o \in 1..n PROVE d[o] = c[o] \/ o \in (at + 1)..(at + 3)
    BY <1>5, <2>1
  <2> QED BY <1>6, <2>1, <2>2, <2>3
<1>8. Repaired(c, d, es, P)
  <2>1. JumpAt(d, es, at, Jump)
    BY <1>6, <1>7 DEF JumpAt
  <2>2. \A p \in P : JumpAt(d, es, p, Jump)
    BY <2>1
  <2>3. \A o \in 1..n : d[o] = c[o] \/ \E p \in P : o \in (p + 1)..(p + 3)
    BY <1>7
  <2> QED BY <1>7, <2>2, <2>3 DEF Repaired
<1>9. Fills(d, es, 0, Len(d))
  BY <1>8, RepairedFills
<1>10. ASSUME v < Weight[3] PROVE Jumps(d, es, Front(os), ts \union {t})
  <2>1. Lands(d, es, t)
    <3>1. t[1] = at /\ t[2] = n
      OBVIOUS
    <3>2. v \in Nat /\ Jump # Loop
      BY <1>5, Opcodes
    <3> HIDE DEF n, t
    <3>3. Way(Jump, t) = v
      BY <3>1, <3>2 DEF Way, n
    <3>4. e \in es /\ e.offset = t[1] /\ e.opcode \in {Jump, Loop} /\ d[t[1] + 1] = e.opcode
      BY <1>6, <1>7, <3>1
    <3>5. /\ Way(e.opcode, t) \in Nat /\ Way(e.opcode, t) < Weight[3]
          /\ d[t[1] + 2] = Digit(Way(e.opcode, t), 1)
          /\ d[t[1] + 3] = Digit(Way(e.opcode, t), 2)
      BY <1>6, <1>7, <1>10, <3>1, <3>2, <3>3
    <3> QED BY <3>4, <3>5, Zenon DEF Lands
  <2>2. AllLand(d, es, {t})
    <3>1. t \in Nat \X Nat
      BY <1>5
    <3> HIDE DEF t
    <3> QED BY <2>1, <3>1 DEF AllLand
  <2>3. ASSUME NEW i \in 1..(Len(os) - 1)
        PROVE  /\ os[i].kind = "jump" => os[i].at \notin P
               /\ \A b \in os[i].breaks : b \notin P
    <3>0. i \in 1..Len(os)
      BY <1>2
    <3>1. os[i].kind = "jump" => os[i].at < at
      BY <1>2, Zenon DEF Nested
    <3>2. os[i].at \in Nat /\ os[i].kind \in {"jump", "loop"}
      BY <1>2, <3>0, OpenParts
    <3>3. ASSUME NEW b \in os[i].breaks PROVE b # at
      <4>1. CASE os[i].kind = "loop"
        <5>1. Loops(c, es, os[i])
          BY <1>1, <3>0, <4>1, Zenon DEF OpenRight
        <5>2. JumpAt(c, es, b, End)
          BY <5>1, Zenon DEF Loops
        <5>3. c[b + 1] = End
          BY <5>2, Zenon DEF JumpAt
        <5> QED BY <1>6, <5>3, Opcodes
      <4>2. CASE os[i].kind = "jump"
        <5>1. Waits(c, es, ts, os[i])
          BY <1>1, <3>0, <4>2, Zenon DEF OpenRight
        <5> QED BY <5>1, Zenon DEF Waits
      <4> QED BY <3>2, <4>1, <4>2
    <3>4. os[i].kind = "jump" => os[i].at # at
      BY <1>5, <3>1, <3>2
    <3> QED BY <3>3, <3>4
  <2>4. PatchesLast(es, os, ts, P, d, {t})
    <3>1. (Last(os).kind = "loop" => Last(os).breaks \subseteq P)
          /\ \A u \in ts : u[1] \notin P
      BY <1>4
    <3>2. \A u \in {t} : u[1] \in P
      OBVIOUS
    <3> HIDE DEF P, t
    <3> QED BY <2>2, <2>3, <3>1, <3>2, Zenon DEF PatchesLast
  <2> HIDE DEF P, t
  <2> QED BY <1>8, <2>4, LastPatched
<1> QED BY <1>9, <1>10

\* The bytes at the end of a loop, when its placeholders stand apart.
BreakBytes(c, d, found) ==
  /\ Len(d) = Len(c)
  /\ \A f \in found : /\ d[f + 1] = Jump
                      /\ d[f + 2] = Digit(Len(c) - (f + 3), 1)
                      /\ d[f + 3] = Digit(Len(c) - (f + 3), 2)
  /\ \A i \in 1..Len(c) : d[i] = c[i] \/ \E f \in found : i \in (f + 1)..(f + 3)

LEMMA BreaksChanged ==
  ASSUME NEW c \in Seq(AllBytes), NEW found \in SUBSET Nat,
         \A f \in found : f + 3 <= Len(c),
         \A f, g \in found : f = g \/ f + 3 <= g \/ g + 3 <= f
  PROVE  BreakBytes(c, BreaksPatched(c, found), found)
<1> DEFINE n == Len(c)
           d == BreaksPatched(c, found)
           of(i) == {f \in found : i - 1 \in f..(f + 2)}
           at(i) == CHOOSE f \in of(i) : TRUE
           byte(i) == IF of(i) = {} THEN c[i]
                      ELSE IF i - 1 = at(i) THEN Jump
                      ELSE write_multibyte_operand(2, Distance(at(i) + 1, n))[i - 1 - at(i)]
<1>1. n \in Nat /\ DOMAIN c = 1..n
  OBVIOUS
<1>2. d = [i \in 1..n |-> byte(i)]
  BY <1>1 DEF BreaksPatched
<1>3. Len(d) = n
  BY BreaksBytes
<1> HIDE DEF d
<1>4. \A i \in 1..n : d[i] = byte(i)
  BY <1>2
<1>5. ASSUME NEW f \in found, NEW k \in 1..3
      PROVE  /\ d[f + k] = IF k = 1 THEN Jump
                           ELSE write_multibyte_operand(2, Distance(f + 1, n))[k - 1]
  <2> DEFINE i == f + k
  <2>1. i \in 1..n /\ f \in Nat /\ i - 1 \in f..(f + 2)
    <3> HIDE DEF n
    <3>1. f + 3 <= n
      BY DEF n
    <3> QED BY <1>1, <3>1
  <2>2. ASSUME NEW g \in of(i) PROVE g = f
    <3>1. g \in Nat /\ i - 1 \in g..(g + 2)
      OBVIOUS
    <3>2. f = g \/ f + 3 <= g \/ g + 3 <= f
      OBVIOUS
    <3> QED BY <3>1, <3>2
  <2>3. f \in of(i)
    BY <2>1
  <2> HIDE DEF of
  <2>4. at(i) = f /\ of(i) # {}
    <3>1. at(i) \in of(i)
      BY <2>3
    <3> HIDE DEF at
    <3> QED BY <2>2, <2>3, <3>1
  <2> HIDE DEF at, i
  <2>5. d[i] = IF i - 1 = f THEN Jump
               ELSE write_multibyte_operand(2, Distance(f + 1, n))[i - 1 - f]
    BY <1>4, <2>1, <2>4
  <2> HIDE DEF n
  <2>6. (i - 1 = f <=> k = 1) /\ i - 1 - f = k - 1
    BY <2>1 DEF i
  <2>7. d[i] = IF k = 1 THEN Jump
               ELSE write_multibyte_operand(2, Distance(f + 1, n))[k - 1]
    BY <2>5, <2>6
  <2> QED BY <2>7 DEF i
<1>6. ASSUME NEW f \in found
      PROVE  /\ d[f + 1] = Jump /\ d[f + 2] = Digit(n - (f + 3), 1)
             /\ d[f + 3] = Digit(n - (f + 3), 2)
  <2> DEFINE v == Distance(f + 1, n)
  <2> HIDE DEF byte
  <2>1. v \in Int /\ v = n - (f + 3)
    <3> HIDE DEF n
    <3> QED BY <1>1 DEF Distance
  <2> HIDE DEF v
  <2>2. write_multibyte_operand(2, v)[1] = Digit(v, 1)
        /\ write_multibyte_operand(2, v)[2] = Digit(v, 2)
    BY <2>1, OperandOfTwo
  <2>3. d[f + 1] = Jump
    BY <1>5
  <2>4. d[f + 2] = write_multibyte_operand(2, v)[2 - 1]
    BY <1>5 DEF v
  <2>5. d[f + 3] = write_multibyte_operand(2, v)[3 - 1]
    BY <1>5 DEF v
  <2>6. 2 - 1 = 1 /\ 3 - 1 = 2
    OBVIOUS
  <2> QED BY <2>1, <2>2, <2>3, <2>4, <2>5, <2>6
<1>7. ASSUME NEW i \in 1..n, d[i] # c[i] PROVE \E f \in found : i \in (f + 1)..(f + 3)
  <2>1. of(i) # {}
    BY <1>4, <1>7
  <2>2. PICK f \in found : i - 1 \in f..(f + 2)
    BY <2>1
  <2>3. f \in Nat /\ i \in Nat
    BY <1>1
  <2>4. i \in (f + 1)..(f + 3)
    <3> HIDE DEF n, of, at, byte
    <3> QED BY <2>2, <2>3
  <2> QED BY <2>4
<1> HIDE DEF n
<1>8. BreakBytes(c, d, found)
  BY <1>3, <1>6, <1>7, Zenon DEF BreakBytes, n
<1> QED BY <1>8 DEF d

\* What is known of the breaks of the innermost loop: they are all of the
\* placeholders behind its start.
LastLoop(c, es, x) ==
  /\ Loops(c, es, x) /\ x \in Opened
  /\ x.breaks = {s \in Starts(es) : s >= x.at /\ c[s + 1] = End}
  /\ \A b \in x.breaks : b \in Nat /\ b + 3 <= Len(c)
  /\ \A a, b \in x.breaks : a = b \/ a + 3 <= b \/ b + 3 <= a

LEMMA LastLoopFound ==
  ASSUME NEW c, NEW es, Fills(c, es, 0, Len(c)), NEW os, NEW ts, Jumps(c, es, os, ts),
         os # <<>>, Last(os).kind = "loop"
  PROVE  LastLoop(c, es, Last(os))
<1> DEFINE x == Last(os)
<1>1. OpenRight(c, es, os, ts) /\ EndsRight(c, es, os) /\ os \in Seq(Opened)
  BY Zenon DEF Jumps, OpenRight
<1>2. /\ Len(os) \in Nat /\ Len(os) > 0 /\ x = os[Len(os)]
      /\ \A i \in 1..(Len(os) - 1) : Nested(os[i], x)
  BY <1>1, OpenFront
<1>3. Len(os) \in 1..Len(os)
  BY <1>2
<1>4. Loops(c, es, x) /\ x \in Opened /\ x.at \in Nat
  <2>1. os[Len(os)] \in Opened /\ os[Len(os)].at \in Nat
    BY <1>1, <1>3, OpenParts
  <2>2. os[Len(os)].kind = "loop"
    BY <1>2
  <2>3. Loops(c, es, os[Len(os)])
    BY <1>1, <1>3, <2>2, Zenon DEF OpenRight
  <2> QED BY <1>2, <2>1, <2>3
<1> HIDE DEF x
<1>5. ASSUME NEW b \in x.breaks
      PROVE  /\ b >= x.at /\ b \in Nat /\ b + 3 <= Len(c) /\ c[b + 1] = End
             /\ \E e \in es : e.offset = b /\ e.opcode = Jump /\ After(e) = b + 3
  <2>1. b >= x.at /\ JumpAt(c, es, b, End)
    BY <1>4, Zenon DEF Loops
  <2>2. PICK e \in es : e.offset = b /\ e.opcode = Jump /\ c[b + 1] = End
    BY <2>1, Zenon DEF JumpAt
  <2>3. b \in Nat /\ b + 3 <= Len(c)
    BY <2>1, JumpInCode
  <2>4. After(e) = b + 3
    <3>1. IsInstruction(e)
      BY FillsApart
    <3>2. e.opcode \in {Jump, Loop} => After(e) = e.offset + 3
      BY <3>1, InstructionWritten
    <3> QED BY <2>2, <3>2
  <2> QED BY <2>1, <2>2, <2>3, <2>4
<1>6. ASSUME NEW a \in x.breaks, NEW b \in x.breaks
      PROVE  a = b \/ a + 3 <= b \/ b + 3 <= a
  <2>1. PICK e \in es : e.offset = a /\ After(e) = a + 3
    BY <1>5
  <2>2. PICK f \in es : f.offset = b /\ After(f) = b + 3
    BY <1>5
  <2>3. f = e \/ After(e) <= f.offset \/ After(f) <= e.offset
    BY FillsApart
  <2> QED BY <2>1, <2>2, <2>3
<1>7. ASSUME NEW e \in es, e.offset >= x.at, c[e.offset + 1] = End
      PROVE  e.offset \in x.breaks
  <2>1. PICK i \in 1..Len(os) : os[i].kind = "loop" /\ e.offset \in os[i].breaks
    BY <1>1, <1>7, Zenon DEF EndsRight
  <2>2. CASE i = Len(os)
    BY <1>2, <2>1, <2>2
  <2>3. CASE i # Len(os)
    <3>1. i \in 1..(Len(os) - 1)
      BY <1>2, <2>3
    <3>2. Nested(os[i], x) /\ x.kind = "loop"
      BY <1>2, <3>1 DEF x
    <3>3. e.offset < x.at
      BY <2>1, <3>2, Zenon DEF Nested
    <3>4. e.offset \in Nat
      BY FillsApart
    <3> QED BY <1>4, <1>7, <3>3, <3>4
  <2> QED BY <2>2, <2>3
<1>8. x.breaks = {s \in Starts(es) : s >= x.at /\ c[s + 1] = End}
  <2>1. ASSUME NEW b \in x.breaks PROVE b \in Starts(es) /\ b >= x.at /\ c[b + 1] = End
    BY <1>5 DEF Starts
  <2>2. ASSUME NEW s \in Starts(es), s >= x.at, c[s + 1] = End PROVE s \in x.breaks
    <3>1. PICK e \in es : s = e.offset
      BY DEF Starts
    <3> QED BY <1>7, <2>2, <3>1
  <2> QED BY <2>1, <2>2
<1>9. \A b \in x.breaks : b \in Nat /\ b + 3 <= Len(c)
  BY <1>5
<1>10. LastLoop(c, es, x)
  BY <1>4, <1>6, <1>8, <1>9, Zenon DEF LastLoop
<1> QED BY <1>10 DEF x

\* The breaks of a loop go to its end.
LEMMA LoopEnded ==
  ASSUME NEW c, NEW es, Fills(c, es, 0, Len(c)), NEW os, NEW ts, Jumps(c, es, os, ts),
         os # <<>>, Last(os).kind = "loop", NEW d, BreakBytes(c, d, Last(os).breaks)
  PROVE  /\ Fills(d, es, 0, Len(d))
         /\ (\A b \in Last(os).breaks : Len(c) - (b + 3) < Weight[3]) =>
              Jumps(d, es, Front(os), ts \union {<<b, Len(c)>> : b \in Last(os).breaks})
<1> DEFINE n == Len(c)
           x == Last(os)
           P == x.breaks
           us == {<<b, n>> : b \in P}
<1>1. AllLand(c, es, ts) /\ OpenRight(c, es, os, ts) /\ EndsRight(c, es, os)
      /\ os \in Seq(Opened)
  BY Zenon DEF Jumps, OpenRight
<1>2. /\ Len(os) \in Nat /\ Len(os) > 0 /\ x = os[Len(os)]
      /\ \A i \in 1..(Len(os) - 1) : Nested(os[i], x)
  BY <1>1, OpenFront
<1>3. LastLoop(c, es, x)
  BY LastLoopFound
<1>4. /\ Loops(c, es, x) /\ x \in Opened /\ n \in Nat
      /\ \A b \in P : b \in Nat /\ b + 3 <= n
  BY <1>3 DEF LastLoop, Fills
<1>5. ASSUME NEW b \in P
      PROVE  /\ b >= x.at /\ c[b + 1] = End
             /\ \E e \in es : e.offset = b /\ e.opcode = Jump
  <2>1. b >= x.at /\ JumpAt(c, es, b, End)
    BY <1>4, Zenon DEF Loops
  <2> QED BY <2>1, Zenon DEF JumpAt
<1>6. /\ Len(d) = n
      /\ \A f \in P : /\ d[f + 1] = Jump /\ d[f + 2] = Digit(n - (f + 3), 1)
                      /\ d[f + 3] = Digit(n - (f + 3), 2)
      /\ \A i \in 1..n : d[i] = c[i] \/ \E f \in P : i \in (f + 1)..(f + 3)
  BY Zenon DEF BreakBytes
<1>7. x.kind = "loop" /\ x.at \in Nat
  BY <1>4 DEF Opened
<1> HIDE DEF x, P, n
<1>8. Repaired(c, d, es, P)
  <2>1. ASSUME NEW p \in P PROVE JumpAt(d, es, p, Jump)
    BY <1>5, <1>6, Zenon DEF JumpAt
  <2> QED BY <1>6, <2>1, Zenon DEF Repaired, n
<1>9. Fills(d, es, 0, Len(d))
  BY <1>8, RepairedFills
<1>10. ASSUME \A b \in P : n - (b + 3) < Weight[3]
       PROVE  Jumps(d, es, Front(os), ts \union us)
  <2>1. ASSUME NEW b \in P PROVE Lands(d, es, <<b, n>>)
    <3> DEFINE t == <<b, n>>
               v == n - (b + 3)
    <3>1. t[1] = b /\ t[2] = n
      OBVIOUS
    <3>2. v \in Nat /\ Jump # Loop /\ v < Weight[3]
      BY <1>4, <1>10, Opcodes
    <3> HIDE DEF t
    <3>3. Way(Jump, t) = v
      BY <3>1, <3>2 DEF Way
    <3> HIDE DEF v
    <3>4. PICK e \in es : e.offset = b /\ e.opcode = Jump
      BY <1>5
    <3>5. e.offset = t[1] /\ e.opcode \in {Jump, Loop} /\ d[t[1] + 1] = e.opcode
      BY <1>6, <3>1, <3>4
    <3>6. /\ Way(e.opcode, t) \in Nat /\ Way(e.opcode, t) < Weight[3]
          /\ d[t[1] + 2] = Digit(Way(e.opcode, t), 1)
          /\ d[t[1] + 3] = Digit(Way(e.opcode, t), 2)
      BY <1>6, <3>1, <3>2, <3>3, <3>4 DEF v
    <3>7. Lands(d, es, t)
      BY <3>5, <3>6, Zenon DEF Lands
    <3> QED BY <3>7 DEF t
  <2>2. AllLand(d, es, us)
    <3>1. us \subseteq Nat \X Nat
      BY <1>4
    <3>2. \A u \in us : Lands(d, es, u)
      BY <2>1
    <3> HIDE DEF us
    <3> QED BY <3>1, <3>2, Zenon DEF AllLand
  <2>3. ASSUME NEW t \in ts PROVE t[1] \notin P
    <3>1. Lands(c, es, t)
      BY <1>1, Zenon DEF AllLand
    <3>2. c[t[1] + 1] \in {Jump, Loop}
      BY <3>1, Zenon DEF Lands
    <3>3. ASSUME t[1] \in P PROVE FALSE
      <4>1. c[t[1] + 1] = End
        BY <1>5, <3>3, Zenon
      <4> QED BY <3>2, <4>1, Opcodes
    <3> QED BY <3>3
  <2>4. ASSUME NEW i \in 1..(Len(os) - 1)
        PROVE  /\ os[i].kind = "jump" => os[i].at \notin P
               /\ \A b \in os[i].breaks : b \notin P
    <3>1. i \in 1..Len(os)
      BY <1>2
    <3>2. os[i].at \in Nat /\ os[i].breaks \in SUBSET Nat
      BY <1>1, <3>1, OpenParts
    <3>3. /\ os[i].kind = "jump" => os[i].at < x.at
          /\ \A b \in os[i].breaks : b < x.at
      <4>1. Nested(os[i], x)
        BY <1>2
      <4> QED BY <1>7, <4>1, Zenon DEF Nested
    <3>4. ASSUME NEW b \in Nat, b < x.at PROVE b \notin P
      <4>1. ~(b >= x.at)
        BY <1>7, <3>4
      <4> QED BY <1>5, <4>1
    <3> QED BY <3>2, <3>3, <3>4
  <2>5. PatchesLast(es, os, ts, P, d, us)
    <3>1. \A u \in us : u[1] \in P
      OBVIOUS
    <3>2. Last(os).kind = "loop" => Last(os).breaks \subseteq P
      BY DEF P, x
    <3> HIDE DEF us
    <3> QED BY <2>2, <2>3, <2>4, <3>1, <3>2, Zenon DEF PatchesLast
  <2> HIDE DEF us
  <2> QED BY <1>8, <2>5, LastPatched
<1> QED BY <1>9, <1>10 DEF P, n, x

-----------------------------------------------------------------------------
(***************************************************************************)
(* Every step keeps the program and its jumps.                             *)
(***************************************************************************)
Inv == StateInv /\ ProgramInv /\ JumpInv

LEMMA JumpsNow ==
  ASSUME JumpInv, ~had_error PROVE Jumps(code, instructions, open, targets)
BY DEF JumpInv, Jumps

LEMMA JumpsNext ==
  ASSUME ~had_error' => Jumps(code', instructions', open', targets') PROVE JumpInv'
BY DEF JumpInv, Jumps

\* Writing the bytes of an instruction.
LEMMA OneMore ==
  ASSUME StateInv, ProgramInv, Step, line' = line,
         NEW bytes \in Seq(AllBytes), Len(bytes) > 0, Write(bytes),
         NEW e, IsInstruction(e), e.offset = Len(code),
         After(e) = Len(code) + Len(bytes),
         \/ e.opcode = Jump /\ bytes[1] \in {Jump, End}
         \/ e.opcode # Jump /\ Written(e) = bytes
  PROVE  /\ Extended(code, code', instructions, {e})
         /\ \A i \in 1..Len(bytes) : code'[Len(code) + i] = bytes[i]
<1> DEFINE n == Len(code)
           m == Len(bytes)
<1>1. /\ Len(code') = n + m
      /\ \A i \in 1..n : code'[i] = code[i]
      /\ \A i \in 1..m : code'[n + i] = bytes[i]
  <2>1. UNCHANGED <<sample, line>>
    BY DEF Step
  <2> QED BY <2>1, WriteKeeps DEF StateInv
<1>2. n \in Nat /\ m \in Nat /\ m > 0 /\ n < n + m
  <2>1. n \in Nat /\ m \in Nat /\ m > 0
    BY SampleNumbers DEF StateInv
  <2> HIDE DEF n, m
  <2> QED BY <2>1
<1> HIDE DEF m
<1>3. Stands(code', e)
  <2>1. CASE e.opcode = Jump
    <3>1. bytes[1] \in {Jump, End} /\ 1 \in 1..m
      BY <1>2, <2>1
    <3>2. code'[n + 1] = bytes[1]
      BY <1>1, <3>1
    <3> QED BY <2>1, <3>1, <3>2 DEF Stands
  <2>2. CASE e.opcode # Jump
    <3>1. Written(e) = bytes
      BY <2>2
    <3>2. \A k \in 1..Len(Written(e)) : code'[e.offset + k] = Written(e)[k]
      BY <1>1, <3>1 DEF m
    <3> QED BY <2>2, <3>2, Zenon DEF Stands
  <2> QED BY <2>1, <2>2
<1>4. Fills(code', {e}, n, n + m)
  <2>1. Fills(code', {e}, e.offset, After(e))
    BY <1>3, FillsOne
  <2> QED BY <2>1 DEF m
<1>5. Fills(code, instructions, 0, n)
  BY DEF ProgramInv
<1>6. Extended(code, code', instructions, {e})
  <2>1. Fills(code', {e}, n, Len(code')) /\ n < Len(code')
    BY <1>1, <1>2, <1>4
  <2> QED BY <1>1, <1>5, <2>1, Zenon DEF Extended, n
<1> QED BY <1>1, <1>6 DEF m

\* What emit_instruction writes, and where.
Emits(c, d, es, e, opc, v, us) ==
  /\ Extended(c, d, es, {e}) /\ IsEmitted(e, Len(c), opc, v, us)
  /\ d[Len(c) + 1] = opc
  /\ \A k \in 1..Length(opc) : d[Len(c) + 1 + k] = Digit(v, k)

LEMMA Emission ==
  ASSUME StateInv, ProgramInv, Step, line' = line, NEW opc \in 0..6, NEW v \in Nat,
         NEW us \in Seq(Upvalue), opc \notin Closures => us = <<>>,
         opc \notin {Jump, Loop} => v < Weight[Length(opc) + 1],
         Write(Bytes(opc, Length(opc), v, us))
  PROVE  Emits(code, code', instructions, Emitted(Len(code), opc, v, us), opc, v, us)
<1> DEFINE o == Len(code)
           e == Emitted(o, opc, v, us)
           n == Length(opc)
           b == Bytes(opc, n, v, us)
<1>1. o \in Nat
  BY SampleNumbers DEF StateInv
<1>2. IsEmitted(e, o, opc, v, us)
  <2> HIDE DEF o
  <2> QED BY <1>1, EmittedRight
<1> HIDE DEF e
<1>3. /\ IsInstruction(e) /\ e.offset = o /\ e.opcode = opc /\ Written(e) = b
      /\ After(e) = o + Len(Written(e))
  BY <1>2 DEF IsEmitted
<1>4. n \in 0..3 /\ opc \in AllBytes /\ Write(b)
  BY Lengths
<1>5. BytesRight(opc, n, v, us, b)
  <2> HIDE DEF n
  <2> QED BY <1>4, BytesWritten
<1>6. b \in Seq(AllBytes) /\ Len(b) > 0 /\ b[1] = opc
  <2> HIDE DEF n
  <2> QED BY <1>4, EmitBytes
<1> HIDE DEF b
<1>7. Len(b) = 1 + n + Len(UpvalueBytes(us)) /\ Len(UpvalueBytes(us)) \in Nat
      /\ \A k \in 1..n : b[1 + k] = Digit(v, k)
  BY <1>5 DEF BytesRight
<1>8. (e.opcode = Jump /\ b[1] \in {Jump, End}) \/ (e.opcode # Jump /\ Written(e) = b)
  BY <1>3, <1>6
<1>9. After(e) = Len(code) + Len(b) /\ e.offset = Len(code)
  BY <1>3
<1>10. /\ Extended(code, code', instructions, {e})
       /\ \A i \in 1..Len(b) : code'[Len(code) + i] = b[i]
  <2> HIDE DEF o
  <2> QED BY <1>3, <1>4, <1>6, <1>8, <1>9, OneMore
<1>11. code'[o + 1] = opc /\ \A k \in 1..n : code'[o + 1 + k] = Digit(v, k)
  <2> DEFINE m == Len(UpvalueBytes(us))
             l == Len(b)
  <2>1. \A i \in 1..l : code'[o + i] = b[i]
    BY <1>10
  <2>2. l = 1 + n + m /\ m \in Nat
    BY <1>7
  <2> HIDE DEF m, l, n, o
  <2>3. 1 \in 1..l /\ \A k \in 1..n : 1 + k \in 1..l /\ o + (1 + k) = o + 1 + k
    BY <1>1, <1>4, <2>2
  <2>4. code'[o + 1] = opc
    BY <1>6, <2>1, <2>3
  <2>5. ASSUME NEW k \in 1..n PROVE code'[o + 1 + k] = Digit(v, k)
    <3>1. code'[o + (1 + k)] = b[1 + k]
      BY <2>1, <2>3
    <3> QED BY <1>7, <2>3, <3>1
  <2> QED BY <2>4, <2>5
<1>12. Emits(code, code', instructions, e, opc, v, us)
  BY <1>2, <1>10, <1>11, Zenon DEF Emits, o, n
<1> QED BY <1>12 DEF e, o

\* The program with some instructions more.
LEMMA ProgramExtended ==
  ASSUME StateInv, ProgramInv, Step, NEW fs, Extended(code, code', instructions, fs),
         instructions' = instructions \union fs, constants' \in {constants, constants + 1},
         Known(instructions \union fs, constants')
  PROVE  ProgramInv'
<1>1. Fills(code', instructions \union fs, 0, Len(code'))
  BY ExtendedFills
<1>2. steps \in Nat /\ constants \in Nat /\ constants <= sample.prelude + steps
      /\ sample.prelude \in Nat
  BY SampleNumbers DEF ProgramInv, StateInv
<1>3. steps' = steps + 1 /\ sample' = sample
  BY DEF Step
<1>4. steps' \in Nat /\ constants' \in Nat
  BY <1>2, <1>3
<1>5. constants' <= sample'.prelude + steps'
  <2> DEFINE p == sample.prelude
  <2>1. constants' <= p + (steps + 1)
    <3> HIDE DEF p
    <3>1. p \in Nat /\ constants <= p + steps
      BY <1>2 DEF p
    <3> QED BY <1>2, <3>1
  <2> QED BY <1>3, <2>1
<1>6. Fills(code', instructions', 0, Len(code')) /\ Known(instructions', constants')
  BY <1>1
<1> QED BY <1>4, <1>5, <1>6 DEF ProgramInv

\* Other instructions than closures.
LEMMA KnownMore ==
  ASSUME NEW es, NEW fs, NEW n \in Nat, Known(es, n), NEW m \in {n, n + 1},
         \A e \in fs : e.opcode \notin Closures,
         \A e \in es : e.operand \in Nat
  PROVE  Known(es \union fs, m)
<1>1. ASSUME NEW e \in es \union fs, e.opcode \in Closures PROVE e.operand < m /\ e \in es
  <2>1. e \in es
    BY <1>1
  <2>2. e.operand < n /\ e.operand \in Nat
    BY <1>1, <2>1 DEF Known
  <2> QED BY <2>1, <2>2
<1> QED BY <1>1 DEF Known

LEMMA OperandsAreNumbers ==
  ASSUME ProgramInv PROVE \A e \in instructions : e.operand \in Nat
<1>1. ASSUME NEW e \in instructions PROVE e.operand \in Nat
  <2>1. IsInstruction(e)
    BY FillsApart DEF ProgramInv
  <2> QED BY <2>1, InstructionParts
<1> QED BY <1>1

\* An instruction that is neither a jump nor opens anything.
LEMMA PlainKeeps ==
  ASSUME Inv, Step, line' = line, NEW opc \in 0..6, NEW v \in Nat,
         NEW us \in Seq(Upvalue), opc \notin Closures => us = <<>>,
         opc \notin {Jump, Loop}, v < Weight[Length(opc) + 1],
         emit_instruction(opc, Length(opc), v, us),
         constants' \in {constants, constants + 1},
         LET e == Emitted(Len(code), opc, v, us)
         IN Known(instructions \union {e}, constants'),
         opc = ClosureLong => ~InLoop, UNCHANGED <<open, targets>>
  PROVE  ProgramInv' /\ JumpInv'
<1> DEFINE e == Emitted(Len(code), opc, v, us)
<1>1. StateInv /\ ProgramInv /\ JumpInv /\ ~had_error
  BY DEF Inv, Step
<1>2. Write(Bytes(opc, Length(opc), v, us)) /\ instructions' = instructions \union {e}
  BY DEF emit_instruction
<1>3. Emits(code, code', instructions, e, opc, v, us)
  BY <1>1, <1>2, Emission
<1>4. Known(instructions \union {e}, constants')
  OBVIOUS
<1> HIDE DEF e
<1>5. /\ Extended(code, code', instructions, {e}) /\ e.offset = Len(code)
      /\ e.opcode = opc /\ code'[Len(code) + 1] = opc
  BY <1>3 DEF Emits, IsEmitted
<1>6. ProgramInv'
  BY <1>1, <1>2, <1>4, <1>5, ProgramExtended
<1>7. Jumps(code', instructions \union {e}, open, targets)
  <2>1. Jumps(code, instructions, open, targets)
    BY <1>1, JumpsNow
  <2>2. \A f \in {e} : code'[f.offset + 1] # End
    <3>1. opc # End
      BY Lengths
    <3> QED BY <1>5, <3>1
  <2>3. \A f \in {e} : f.opcode = ClosureLong =>
          \A i \in 1..Len(open) : open[i].kind # "loop"
    <3>1. open \in Seq(Opened)
      BY <1>1 DEF StateInv, OpenFits
    <3>2. DOMAIN open = 1..Len(open)
      BY <3>1
    <3> QED BY <1>5, <3>2 DEF InLoop
  <2> QED BY <1>5, <2>1, <2>2, <2>3, JumpsExtended
<1>8. Jumps(code', instructions', open', targets')
  BY <1>2, <1>7
<1> QED BY <1>6, <1>8, JumpsNext

\* An index that the function can have, so that it can be written.
LEMMA IndexFits ==
  ASSUME Inv, Step, NEW index \in {0, constants}
  PROVE  index \in Nat /\ index < Weight[4] /\ constants \in Nat /\ constants < Weight[4]
<1> DEFINE w == Weight[4]
           p == sample.prelude
           s == sample.steps
<1>1. constants \in Nat /\ steps \in Nat /\ constants <= p + steps /\ steps < s
      /\ p \in Nat /\ s \in Nat /\ p + s <= w /\ w \in Nat
  BY SampleNumbers, Weights DEF Inv, StateInv, ProgramInv, Step
<1> HIDE DEF w, p, s
<1>2. constants < w /\ 0 < w
  BY <1>1
<1> QED BY <1>1, <1>2 DEF w

LEMMA ConstantKeeps ==
  ASSUME Inv, emit_constant PROVE ProgramInv' /\ JumpInv'
<1>1. PICK index \in {0, constants} :
        LET opc == VarLength(Constant, index)
        IN /\ Step /\ emit_instruction(opc, Length(opc), index, <<>>)
           /\ constants' = IF index = constants THEN constants + 1 ELSE constants
           /\ UNCHANGED <<line, open, targets>>
  BY DEF emit_constant
<1> DEFINE opc == VarLength(Constant, index)
           us == <<>>
           e == Emitted(Len(code), opc, index, us)
<1>2. index \in Nat /\ index < Weight[4] /\ constants \in Nat
  BY <1>1, IndexFits
<1>3. /\ opc \in 0..6 /\ opc \notin {Jump, Loop, End}
      /\ index < Weight[Length(opc) + 1] /\ opc \notin Closures
  BY <1>2, VarLengths
<1>4. us \in Seq(Upvalue)
  BY NoUpvalues
<1>5. Step /\ emit_instruction(opc, Length(opc), index, us) /\ UNCHANGED <<line, open, targets>>
      /\ constants' \in {constants, constants + 1}
  BY <1>1
<1> HIDE DEF opc, us
<1>6. opc \notin Closures => us = <<>>
  BY DEF us
<1>7. Known(instructions \union {e}, constants')
  <2>1. e.opcode = opc
    BY DEF Emitted
  <2>2. \A f \in {e} : f.opcode \notin Closures
    BY <1>3, <2>1
  <2>3. Known(instructions, constants) /\ \A f \in instructions : f.operand \in Nat
    BY OperandsAreNumbers DEF Inv, ProgramInv
  <2> DEFINE n == constants
             m == constants'
             es == instructions
             fs == {e}
  <2>4. m \in {n, n + 1} /\ n \in Nat
    BY <1>2, <1>5
  <2>5. Known(es, n) /\ (\A f \in es : f.operand \in Nat)
        /\ \A f \in fs : f.opcode \notin Closures
    BY <2>2, <2>3
  <2> HIDE DEF n, m, es, fs
  <2>6. Known(es \union fs, m)
    BY <2>4, <2>5, KnownMore
  <2> QED BY <2>6 DEF es, fs, m
<1>8. opc = ClosureLong => ~InLoop
  BY <1>3 DEF Closures
<1>9. LET f == Emitted(Len(code), opc, index, us)
      IN Known(instructions \union {f}, constants')
  BY <1>7
<1> QED BY <1>2, <1>3, <1>4, <1>5, <1>6, <1>8, <1>9, PlainKeeps

LEMMA ClosureKeeps ==
  ASSUME LongClosures = FALSE, Inv, emit_closure PROVE ProgramInv' /\ JumpInv'
<1>1. PICK us \in UpvalueLists :
        LET opc == VarLength(Closure, constants)
        IN /\ LongClosures \/ ~InLoop \/ constants < Base
           /\ Step /\ emit_instruction(opc, Length(opc), constants, us)
           /\ constants' = constants + 1 /\ UNCHANGED <<line, open, targets>>
  BY DEF emit_closure
<1> DEFINE opc == VarLength(Closure, constants)
           v == constants
           e == Emitted(Len(code), opc, v, us)
<1>2. v \in Nat /\ v < Weight[4]
  BY <1>1, IndexFits
<1>3. /\ opc \in 0..6 /\ opc \notin {Jump, Loop, End}
      /\ v < Weight[Length(opc) + 1] /\ opc \in Closures
      /\ v < Base => opc # ClosureLong
  BY <1>2, VarLengths
<1>4. us \in Seq(Upvalue)
  BY Listed
<1>5. Step /\ emit_instruction(opc, Length(opc), v, us) /\ UNCHANGED <<line, open, targets>>
      /\ constants' = v + 1 /\ (~InLoop \/ v < Base)
  BY <1>1
<1> HIDE DEF opc
<1>6. Known(instructions \union {e}, constants')
  <2>1. e.opcode = opc /\ e.operand = v
    BY DEF Emitted
  <2>2. Known(instructions, v) /\ \A f \in instructions : f.operand \in Nat
    BY OperandsAreNumbers DEF Inv, ProgramInv
  <2> HIDE DEF e, v
  <2> DEFINE es == instructions \union {e}
  <2>3. ASSUME NEW f \in es, f.opcode \in Closures
        PROVE  /\ f.operand < v + 1
               /\ \A g \in es : g.opcode \in Closures /\ g.operand = f.operand => g = f
    <3>1. \A g \in instructions : g.opcode \in Closures => g.operand < v /\ g.operand \in Nat
      BY <2>2 DEF Known
    <3>2. CASE f = e
      <4>1. f.operand = v /\ v < v + 1
        BY <1>2, <2>1, <3>2
      <4>2. ASSUME NEW g \in es, g.opcode \in Closures, g.operand = f.operand PROVE g = f
        <5>1. CASE g \in instructions
          <6>1. g.operand < v /\ g.operand = v
            BY <3>1, <4>1, <4>2, <5>1
          <6> QED BY <1>2, <6>1
        <5>2. CASE g \notin instructions
          BY <3>2, <5>2
        <5> QED BY <5>1, <5>2
      <4> QED BY <4>1, <4>2
    <3>3. CASE f \in instructions
      <4>1. f.operand < v /\ f.operand \in Nat
        BY <2>3, <3>1, <3>3
      <4>2. ASSUME NEW g \in es, g.opcode \in Closures, g.operand = f.operand PROVE g = f
        <5>1. g # e
          BY <1>2, <2>1, <4>1, <4>2
        <5>2. g \in instructions
          BY <5>1
        <5> QED BY <2>2, <2>3, <3>3, <4>2, <5>2 DEF Known
      <4> QED BY <1>2, <4>1, <4>2
    <3> QED BY <3>2, <3>3
  <2>4. Known(es, v + 1)
    BY <2>3 DEF Known
  <2> QED BY <1>5, <2>4 DEF v
<1>7. opc \notin Closures => us = <<>>
  BY <1>3
<1>8. opc = ClosureLong => ~InLoop
  BY <1>3, <1>5
<1>9. LET f == Emitted(Len(code), opc, v, us)
      IN Known(instructions \union {f}, constants')
  BY <1>6
<1>10. constants' \in {constants, constants + 1}
  BY <1>5
<1> QED BY <1>2, <1>3, <1>4, <1>5, <1>7, <1>8, <1>9, <1>10, PlainKeeps

LEMMA SimpleKeeps ==
  ASSUME Inv, simple_instructions PROVE ProgramInv' /\ JumpInv'
<1>1. PICK m \in sample.sizes :
        /\ Step /\ Write([i \in 1..m |-> Nil])
        /\ instructions' = instructions \union
             {Emitted(Len(code) + i, Nil, 0, <<>>) : i \in 0..(m - 1)}
        /\ UNCHANGED <<constants, line, open, had_error, targets>>
  BY DEF simple_instructions
<1> DEFINE n == Len(code)
           b == [i \in 1..m |-> Nil]
           fs == {Emitted(n + i, Nil, 0, <<>>) : i \in 0..(m - 1)}
<1>2. StateInv /\ ProgramInv /\ JumpInv /\ ~had_error /\ Write(b)
      /\ instructions' = instructions \union fs
  BY <1>1 DEF Inv, Step
<1>3. m \in Nat /\ m > 0 /\ n \in Nat
  BY <1>2, SampleNumbers DEF StateInv
<1>4. b \in Seq(AllBytes) /\ Len(b) = m /\ \A i \in 1..m : b[i] = Nil
  <2>1. b \in [1..m -> AllBytes]
    BY OpcodesAreBytes DEF Nil
  <2>2. \A i \in 1..m : b[i] = Nil
    OBVIOUS
  <2> HIDE DEF b
  <2> QED BY <1>3, <2>1, <2>2
<1> HIDE DEF b
<1>5. /\ Len(code') = n + m
      /\ \A i \in 1..n : code'[i] = code[i]
      /\ \A i \in 1..m : code'[n + i] = b[i]
  <2>1. UNCHANGED <<sample, line>> /\ Len(b) > 0
    BY <1>1, <1>3, <1>4 DEF Step
  <2>2. /\ Len(code') = Len(code) + Len(b)
        /\ \A i \in 1..Len(code) : code'[i] = code[i]
        /\ \A i \in 1..Len(b) : code'[Len(code) + i] = b[i]
    BY <1>2, <1>4, <2>1, WriteKeeps DEF StateInv
  <2> QED BY <1>4, <2>2
<1>6. \A i \in 1..m : code'[n + i] = Nil
  BY <1>4, <1>5
<1>7. Fills(code', fs, n, n + m)
  <2> HIDE DEF n
  <2> QED BY <1>3, <1>6, FillsNils DEF n
<1>8. Extended(code, code', instructions, fs)
  <2>1. Fills(code, instructions, 0, n)
    BY <1>2 DEF ProgramInv
  <2>2. n < n + m
    <3> HIDE DEF n
    <3> QED BY <1>3
  <2>3. Fills(code', fs, n, Len(code')) /\ n < Len(code')
    BY <1>5, <1>7, <2>2
  <2> HIDE DEF fs
  <2> QED BY <1>5, <2>1, <2>3, Zenon DEF Extended, n
<1>9. ASSUME NEW f \in fs PROVE f.opcode = Nil /\ code'[f.offset + 1] = Nil
  <2>1. PICK i \in 0..(m - 1) : f = Emitted(n + i, Nil, 0, <<>>)
    OBVIOUS
  <2>2. f.offset = n + i /\ f.opcode = Nil
    BY <2>1 DEF Emitted
  <2> HIDE DEF n, fs
  <2>3. i + 1 \in 1..m /\ n + i + 1 = n + (i + 1)
    BY <1>3
  <2>4. code'[n + (i + 1)] = Nil
    BY <1>6, <2>3
  <2> QED BY <2>2, <2>3, <2>4
<1> HIDE DEF fs, n
<1>10. Nil \notin Closures /\ Nil # End /\ Nil # ClosureLong
  BY Opcodes DEF Closures
<1>11. Known(instructions \union fs, constants')
  <2> DEFINE k == constants
             es == instructions
  <2>1. Known(es, k) /\ (\A f \in es : f.operand \in Nat) /\ k \in Nat
        /\ \A f \in fs : f.opcode \notin Closures
    BY <1>2, <1>9, <1>10, OperandsAreNumbers DEF ProgramInv
  <2> HIDE DEF k, es
  <2>2. k \in {k, k + 1}
    OBVIOUS
  <2>3. Known(es \union fs, k)
    BY <2>1, <2>2, KnownMore
  <2> QED BY <1>1, <2>3 DEF k, es
<1>12. ProgramInv'
  <2>1. constants' \in {constants, constants + 1} /\ Step
    BY <1>1
  <2> QED BY <1>2, <1>8, <1>11, <2>1, ProgramExtended
<1>13. Jumps(code', instructions \union fs, open, targets)
  <2>1. Jumps(code, instructions, open, targets)
    BY <1>2, JumpsNow
  <2>2. \A f \in fs : code'[f.offset + 1] # End /\ f.opcode # ClosureLong
    BY <1>9, <1>10
  <2> QED BY <1>8, <2>1, <2>2, JumpsExtended
<1>14. Jumps(code', instructions', open', targets')
  BY <1>1, <1>2, <1>13
<1> QED BY <1>12, <1>14, JumpsNext

LEMMA JumpKeeps ==
  ASSUME Inv, emit_jump PROVE ProgramInv' /\ JumpInv'
<1> DEFINE opc == Jump
           n == 2
           v == MaxOperand
           us == <<>>
           o == Len(code)
           e == Emitted(o, opc, v, us)
           x == [kind |-> "jump", at |-> o, breaks |-> {}]
<1>1. /\ Step /\ Write(Bytes(opc, n, v, us)) /\ instructions' = instructions \union {e}
      /\ open' = Append(open, x) /\ UNCHANGED <<constants, line, had_error, targets>>
  BY DEF emit_jump, emit_instruction
<1>2. StateInv /\ ProgramInv /\ JumpInv /\ ~had_error /\ o \in Nat
  BY <1>1, SampleNumbers DEF Inv, Step, StateInv
<1>3. opc \in 0..6 /\ v \in Nat /\ us \in Seq(Upvalue) /\ opc \notin Closures
      /\ opc \in {Jump, Loop} /\ Length(opc) = n /\ opc # End
  BY Opcodes, MaxOperandNumber, NoUpvalues
<1>4. e.opcode = Jump /\ e.offset = o
  BY DEF Emitted
<1> HIDE DEF opc, n, v, us
<1>5. Emits(code, code', instructions, e, opc, v, us)
  <2>1. Write(Bytes(opc, Length(opc), v, us)) /\ line' = line /\ Step
    BY <1>1, <1>3
  <2>2. opc \notin Closures => us = <<>>
    BY DEF us
  <2>3. opc \notin {Jump, Loop} => v < Weight[Length(opc) + 1]
    BY <1>3
  <2>4. Emits(code, code', instructions, Emitted(Len(code), opc, v, us), opc, v, us)
    BY <1>2, <1>3, <2>1, <2>2, <2>3, Emission
  <2> QED BY <2>4 DEF o
<1> HIDE DEF e
<1>6. Extended(code, code', instructions, {e}) /\ code'[o + 1] = Jump
  BY <1>5, Zenon DEF Emits, opc, o
<1>7. Known(instructions \union {e}, constants')
  <2> DEFINE k == constants
             es == instructions
             fs == {e}
  <2>1. Known(es, k) /\ (\A f \in es : f.operand \in Nat) /\ k \in Nat
        /\ \A f \in fs : f.opcode \notin Closures
    BY <1>2, <1>3, <1>4, OperandsAreNumbers DEF ProgramInv, opc
  <2> HIDE DEF k, es, fs
  <2>2. k \in {k, k + 1}
    OBVIOUS
  <2>3. Known(es \union fs, k)
    BY <2>1, <2>2, KnownMore
  <2> QED BY <1>1, <2>3 DEF k, es, fs
<1>8. ProgramInv'
  <2>1. constants' \in {constants, constants + 1} /\ Step
    BY <1>1
  <2> QED BY <1>1, <1>2, <1>6, <1>7, <2>1, ProgramExtended
<1>9. x \in Opened /\ x.kind = "jump" /\ x.at = Len(code) /\ x.breaks = {}
  BY <1>2 DEF Opened
<1> HIDE DEF x, o
<1>10. Jumps(code', instructions \union {e}, Append(open, x), targets)
  <2>1. Jumps(code, instructions, open, targets)
    BY <1>2, JumpsNow
  <2>2. e.offset = Len(code) /\ code'[Len(code) + 1] = Jump
    BY <1>4, <1>6 DEF o
  <2> QED BY <1>4, <1>6, <1>9, <2>1, <2>2, JumpBegun
<1>11. Jumps(code', instructions', open', targets')
  BY <1>1, <1>10
<1> QED BY <1>8, <1>11, JumpsNext

\* A program that stays as it is, one step later.
LEMMA ProgramSame ==
  ASSUME StateInv, ProgramInv, Step, Fills(code', instructions', 0, Len(code')),
         UNCHANGED <<constants, instructions>>
  PROVE  ProgramInv'
<1>1. steps \in Nat /\ constants \in Nat /\ constants <= sample.prelude + steps
      /\ sample.prelude \in Nat /\ Known(instructions, constants)
  BY SampleNumbers DEF ProgramInv, StateInv
<1>2. steps' = steps + 1 /\ sample' = sample
  BY DEF Step
<1>3. constants' <= sample'.prelude + steps' /\ steps' \in Nat
  <2> DEFINE p == sample.prelude
  <2>1. constants <= p + (steps + 1)
    <3> HIDE DEF p
    <3>1. p \in Nat /\ constants <= p + steps
      BY <1>1 DEF p
    <3> QED BY <1>1, <3>1
  <2> QED BY <1>1, <1>2, <2>1
<1>4. Known(instructions', constants') /\ constants' \in Nat
  BY <1>1
<1> QED BY <1>3, <1>4 DEF ProgramInv

LEMMA LoopKeeps ==
  ASSUME Inv, begin_loop PROVE ProgramInv' /\ JumpInv'
<1> DEFINE n == Len(code)
           x == [kind |-> "loop", at |-> n, breaks |-> {}]
<1>1. /\ Step /\ open' = Append(open, x)
      /\ UNCHANGED <<code, lines, constants, line, had_error, line_of,
                     instructions, targets>>
  BY DEF begin_loop
<1>2. StateInv /\ ProgramInv /\ JumpInv /\ ~had_error /\ n \in Nat
  BY <1>1, SampleNumbers DEF Inv, Step, StateInv
<1>3. Fills(code, instructions, 0, n)
  BY <1>2 DEF ProgramInv
<1>4. ProgramInv'
  <2>1. Fills(code', instructions', 0, Len(code'))
    BY <1>1, <1>3
  <2> QED BY <1>1, <1>2, <2>1, ProgramSame
<1>5. x \in Opened /\ x.kind = "loop" /\ x.at = n /\ x.breaks = {}
  BY <1>2 DEF Opened
<1> HIDE DEF x
<1>6. Jumps(code, instructions, Append(open, x), targets)
  <2>1. Jumps(code, instructions, open, targets)
    BY <1>2, JumpsNow
  <2> QED BY <1>3, <1>5, <2>1, LoopBegun
<1>7. Jumps(code', instructions', open', targets')
  BY <1>1, <1>6
<1> QED BY <1>4, <1>7, JumpsNext

\* A placeholder of three bytes.
LEMMA PlaceholderWritten ==
  ASSUME StateInv, ProgramInv, Step, line' = line, Write(Bytes(End, 2, MaxOperand, <<>>))
  PROVE  LET e == Emitted(Len(code), Jump, 0, <<>>)
         IN /\ Extended(code, code', instructions, {e}) /\ e.offset = Len(code)
            /\ e.opcode = Jump /\ code'[Len(code) + 1] = End
<1> DEFINE o == Len(code)
           us == <<>>
           e == Emitted(o, Jump, 0, us)
           opc == End
           n == 2
           v == MaxOperand
           b == Bytes(opc, n, v, us)
<1>1. o \in Nat /\ Write(b)
  BY SampleNumbers DEF StateInv
<1>2. us \in Seq(Upvalue) /\ Len(UpvalueBytes(us)) = 0
  BY NoUpvalues
<1>3. Jump \in 0..6 /\ Jump \notin Closures /\ 0 \in Nat /\ Jump \in {Jump, Loop}
  BY Opcodes
<1>4. IsEmitted(e, o, Jump, 0, us)
  <2>1. Jump \notin Closures => us = <<>>
    OBVIOUS
  <2> HIDE DEF us, o
  <2> QED BY <1>1, <1>2, <1>3, <2>1, EmittedRight
<1> HIDE DEF e
<1>5. IsInstruction(e) /\ e.offset = o /\ e.opcode = Jump
  BY <1>4 DEF IsEmitted
<1>6. After(e) = o + 3
  <2>1. e.opcode \in {Jump, Loop} => After(e) = e.offset + 3
    BY <1>5, InstructionWritten
  <2> QED BY <1>5, <2>1
<1>7. opc \in AllBytes /\ n \in 0..3 /\ v \in Nat
  BY OpcodesAreBytes, MaxOperandNumber DEF End
<1> HIDE DEF us
<1>8. b \in Seq(AllBytes) /\ Len(b) > 0 /\ b[1] = End /\ Len(b) = 3
  <2>1. BytesRight(opc, n, v, us, b)
    <3> HIDE DEF opc, n, v
    <3> QED BY <1>2, <1>7, BytesWritten
  <2>2. b \in Seq(AllBytes) /\ b[1] = opc /\ Len(b) = 1 + n + Len(UpvalueBytes(us))
    BY <2>1, Zenon DEF BytesRight
  <2> HIDE DEF b
  <2>3. Len(b) = 3
    BY <1>2, <2>2
  <2>4. Len(b) > 0
    BY <2>3
  <2> QED BY <2>2, <2>3, <2>4, Zenon
<1> HIDE DEF b
<1>9. /\ Extended(code, code', instructions, {e})
      /\ \A i \in 1..Len(b) : code'[Len(code) + i] = b[i]
  <2>1. e.offset = Len(code) /\ After(e) = Len(code) + Len(b)
    BY <1>5, <1>6, <1>8
  <2>2. b[1] \in {Jump, End}
    BY <1>8
  <2> QED BY <1>1, <1>5, <1>8, <2>1, <2>2, OneMore
<1>10. code'[o + 1] = End
  <2>1. 1 \in 1..Len(b)
    BY <1>8
  <2> QED BY <1>8, <1>9, <2>1
<1> QED BY <1>5, <1>9, <1>10 DEF e, o, us

LEMMA BreakNoted ==
  ASSUME NEW os, NEW n, OpenFits(os, n), NEW k \in 1..Len(os), NEW b \in Nat
  PROVE  WithBreak(os, k, b, [os EXCEPT ![k].breaks = @ \union {b}])
<1> DEFINE new == [os EXCEPT ![k].breaks = @ \union {b}]
           x == os[k]
           y == [x EXCEPT !.breaks = @ \union {b}]
<1>1. /\ OpenFits(new, n) /\ Len(new) = Len(os)
      /\ \A i \in 1..Len(os) : i # k => new[i] = os[i]
  BY OpenFitsBreak
<1>2. new[k] = y /\ y.kind = x.kind /\ y.at = x.at /\ y.breaks = x.breaks \union {b}
  BY OpenFitsBreak
<1> HIDE DEF new, y
<1>3. new \in Seq(Opened)
  BY <1>1 DEF OpenFits
<1>4. WithBreak(os, k, b, new)
  BY <1>1, <1>2, <1>3 DEF WithBreak
<1> QED BY <1>4 DEF new

LEMMA BreakKeeps ==
  ASSUME Inv, break_statement PROVE ProgramInv' /\ JumpInv'
<1> DEFINE n == Len(code)
           e == Emitted(n, Jump, 0, <<>>)
           k == Innermost
           new == [open EXCEPT ![k].breaks = @ \union {n}]
<1>1. /\ InLoop /\ Step /\ Write(Bytes(End, 2, MaxOperand, <<>>))
      /\ instructions' = instructions \union {e} /\ open' = new
      /\ UNCHANGED <<constants, line, had_error, targets>>
  BY DEF break_statement
<1>2. StateInv /\ ProgramInv /\ JumpInv /\ ~had_error /\ n \in Nat
      /\ OpenFits(open, n) /\ open \in Seq(Opened)
  BY <1>1, SampleNumbers DEF Inv, Step, StateInv, OpenFits
<1>3. Extended(code, code', instructions, {e}) /\ e.offset = n
      /\ e.opcode = Jump /\ code'[n + 1] = End
  <2>1. line' = line
    BY <1>1
  <2> QED BY <1>1, <1>2, <2>1, PlaceholderWritten
<1> HIDE DEF e
<1>4. ProgramInv'
  <2>1. Known(instructions \union {e}, constants')
    <3> DEFINE c == constants
               es == instructions
               fs == {e}
    <3>1. Jump \notin Closures
      BY Opcodes
    <3>2. Known(es, c) /\ (\A f \in es : f.operand \in Nat) /\ c \in Nat
          /\ \A f \in fs : f.opcode \notin Closures
      BY <1>2, <1>3, <3>1, OperandsAreNumbers DEF ProgramInv
    <3> HIDE DEF c, es, fs
    <3>3. c \in {c, c + 1}
      OBVIOUS
    <3>4. Known(es \union fs, c)
      BY <3>2, <3>3, KnownMore
    <3> QED BY <1>1, <3>4 DEF c, es, fs
  <2>2. constants' \in {constants, constants + 1} /\ Step
    BY <1>1
  <2> QED BY <1>1, <1>2, <1>3, <2>1, <2>2, ProgramExtended
<1>5. /\ k \in 1..Len(open) /\ open[k].kind = "loop"
      /\ \A j \in 1..Len(open) : open[j].kind = "loop" => j <= k
  BY <1>1, <1>2, InnermostFound
<1> HIDE DEF k
<1>6. WithBreak(open, k, n, new)
  <2> HIDE DEF n
  <2> QED BY <1>2, <1>5, BreakNoted
<1> HIDE DEF new
<1>7. Jumps(code', instructions \union {e}, new, targets)
  <2>1. Jumps(code, instructions, open, targets)
    BY <1>2, JumpsNow
  <2>2. e.offset = Len(code) /\ code'[Len(code) + 1] = End /\ WithBreak(open, k, Len(code), new)
    BY <1>3, <1>6
  <2> QED BY <1>3, <1>5, <2>1, <2>2, BreakAdded
<1>8. Jumps(code', instructions', open', targets')
  BY <1>1, <1>7
<1> QED BY <1>4, <1>8, JumpsNext

\* A distance that is not too far can be written.
LEMMA NotTooFar ==
  ASSUME NEW v \in Int, ~TooFar(v) PROVE v < Weight[3]
<1> DEFINE w == Weight[3]
<1>1. w \in Nat /\ MaxOperand = w - 1
  BY Weights DEF MaxOperand
<1>2. ~(v > MaxOperand)
  BY DEF TooFar
<1> HIDE DEF w
<1>3. v < w
  BY <1>1, <1>2
<1> QED BY <1>3 DEF w

LEMMA EmitLoopKeeps ==
  ASSUME Inv, emit_loop PROVE ProgramInv' /\ JumpInv'
<1> DEFINE opc == Loop
           n == 2
           at == open[Innermost].at
           v == LoopOffset(at)
           us == <<>>
           o == Len(code)
           e == Emitted(o, opc, v, us)
<1>1. /\ InLoop /\ Step /\ Write(Bytes(opc, n, v, us))
      /\ instructions' = instructions \union {e} /\ had_error' = TooFar(v)
      /\ targets' = targets \union {<<o, at>>} /\ UNCHANGED <<constants, line, open>>
  BY DEF emit_loop, emit_instruction
<1>2. StateInv /\ ProgramInv /\ JumpInv /\ ~had_error
  BY <1>1 DEF Inv, Step
<1>3. at \in Nat /\ at <= o /\ o \in Nat /\ v \in Nat /\ v = o + 3 - at
  BY <1>1, <1>2, InnermostStart
<1> HIDE DEF v, at
<1>4. opc \in 0..6 /\ us \in Seq(Upvalue) /\ opc \notin Closures
      /\ opc \in {Jump, Loop} /\ Length(opc) = n /\ opc # End
  BY Opcodes, NoUpvalues
<1>5. e.opcode = Loop /\ e.offset = o
  BY DEF Emitted
<1> HIDE DEF opc, n, us
<1>6. Emits(code, code', instructions, e, opc, v, us)
  <2>1. Write(Bytes(opc, Length(opc), v, us)) /\ line' = line /\ Step
    BY <1>1, <1>4
  <2>2. opc \notin Closures => us = <<>>
    BY DEF us
  <2>3. opc \notin {Jump, Loop} => v < Weight[Length(opc) + 1]
    BY <1>4
  <2>4. Emits(code, code', instructions, Emitted(Len(code), opc, v, us), opc, v, us)
    BY <1>2, <1>3, <1>4, <2>1, <2>2, <2>3, Emission
  <2> QED BY <2>4 DEF o
<1> HIDE DEF e
<1>7. Extended(code, code', instructions, {e}) /\ code'[o + 1] = Loop
  BY <1>6, Zenon DEF Emits, opc, o
<1>8. code'[o + 2] = Digit(v, 1) /\ code'[o + 3] = Digit(v, 2)
  <2>1. \A k \in 1..n : code'[o + 1 + k] = Digit(v, k)
    BY <1>4, <1>6 DEF Emits
  <2>2. 1 \in 1..n /\ 2 \in 1..n
    BY DEF n
  <2>3. code'[o + 1 + 1] = Digit(v, 1) /\ code'[o + 1 + 2] = Digit(v, 2)
    BY <2>1, <2>2
  <2> HIDE DEF o
  <2>4. o + 1 + 1 = o + 2 /\ o + 1 + 2 = o + 3
    BY <1>3
  <2> QED BY <2>3, <2>4
<1>9. Known(instructions \union {e}, constants')
  <2> DEFINE k == constants
             es == instructions
             fs == {e}
  <2>1. Known(es, k) /\ (\A f \in es : f.operand \in Nat) /\ k \in Nat
        /\ \A f \in fs : f.opcode \notin Closures
    BY <1>2, <1>4, <1>5, OperandsAreNumbers DEF ProgramInv, opc
  <2> HIDE DEF k, es, fs
  <2>2. k \in {k, k + 1}
    OBVIOUS
  <2>3. Known(es \union fs, k)
    BY <2>1, <2>2, KnownMore
  <2> QED BY <1>1, <2>3 DEF k, es, fs
<1>10. ProgramInv'
  <2>1. constants' \in {constants, constants + 1} /\ Step
    BY <1>1
  <2> QED BY <1>1, <1>2, <1>7, <1>9, <2>1, ProgramExtended
<1>11. ASSUME ~had_error' PROVE Jumps(code', instructions', open', targets')
  <2>1. v < Weight[3]
    BY <1>1, <1>3, <1>11, NotTooFar
  <2>2. Jumps(code, instructions, open, targets)
    BY <1>2, JumpsNow
  <2>3. /\ e.offset = Len(code) /\ code'[Len(code) + 1] = Loop
        /\ code'[Len(code) + 2] = Digit(v, 1) /\ code'[Len(code) + 3] = Digit(v, 2)
        /\ v = Len(code) + 3 - at /\ at <= Len(code)
    BY <1>3, <1>5, <1>7, <1>8
  <2>4. Jumps(code', instructions \union {e}, open, targets \union {<<Len(code), at>>})
    BY <1>3, <1>5, <1>7, <2>1, <2>2, <2>3, LoopBack
  <2> QED BY <1>1, <2>4
<1> QED BY <1>10, <1>11, JumpsNext

LEMMA PatchKeeps ==
  ASSUME Inv, patch_jump PROVE ProgramInv' /\ JumpInv'
<1> DEFINE at == Last(open).at
           n == Len(code)
           v == Distance(at + 1, n)
           t == <<at, n>>
<1>1. /\ open # <<>> /\ Last(open).kind = "jump" /\ Step
      /\ code' = Patched(code, at + 1, v) /\ had_error' = TooFar(v)
      /\ targets' = targets \union {t} /\ open' = Front(open)
      /\ UNCHANGED <<constants, instructions>>
  BY DEF patch_jump
<1>2. StateInv /\ ProgramInv /\ JumpInv /\ ~had_error /\ code \in Seq(AllBytes)
  BY <1>1 DEF Inv, Step, StateInv, BytesInv
<1>3. at \in Nat /\ n \in Nat
  BY <1>1, <1>2, LastOpen
<1> HIDE DEF at
<1>4. v \in Int /\ v = n - (at + 3)
  <2> HIDE DEF n
  <2> QED BY <1>3 DEF Distance
<1> HIDE DEF v
<1>5. JumpBytes(code, code', at, v)
  <2> DEFINE o == at + 1
  <2>1. o \in Nat /\ o + 1 = at + 2 /\ o + 2 = at + 3 /\ code' = Patched(code, o, v)
    BY <1>1, <1>3
  <2> HIDE DEF o
  <2>2. /\ Len(Patched(code, o, v)) = Len(code)
        /\ \A i \in 1..Len(code) :
             Patched(code, o, v)[i] = IF i = o + 1 THEN Digit(v, 1)
                                      ELSE IF i = o + 2 THEN Digit(v, 2) ELSE code[i]
    BY <1>2, <1>4, <2>1, PatchedBytes
  <2>3. /\ Len(code') = Len(code)
        /\ \A i \in 1..Len(code) :
             code'[i] = IF i = at + 2 THEN Digit(v, 1)
                        ELSE IF i = at + 3 THEN Digit(v, 2) ELSE code[i]
    BY <2>1, <2>2
  <2> QED BY <2>3, Zenon DEF JumpBytes
<1>6. /\ Fills(code', instructions, 0, Len(code'))
      /\ v < Weight[3] => Jumps(code', instructions, Front(open), targets \union {t})
  <2>1. Fills(code, instructions, 0, Len(code)) /\ Jumps(code, instructions, open, targets)
    BY <1>2, JumpsNow DEF ProgramInv
  <2>2. at = Last(open).at /\ v = Len(code) - (at + 3)
    BY <1>4 DEF at
  <2> QED BY <1>1, <1>5, <2>1, <2>2, JumpPatched
<1>7. ProgramInv'
  BY <1>1, <1>2, <1>6, ProgramSame
<1>8. ASSUME ~had_error' PROVE Jumps(code', instructions', open', targets')
  <2>1. v < Weight[3]
    BY <1>1, <1>4, <1>8, NotTooFar
  <2> HIDE DEF t
  <2> QED BY <1>1, <1>6, <2>1
<1> QED BY <1>7, <1>8, JumpsNext

LEMMA EndLoopKeeps ==
  ASSUME Inv, end_loop PROVE ProgramInv' /\ JumpInv'
<1> DEFINE x == Last(open)
           n == Len(code)
           found == Placeholders[x.at]
           us == {<<b, n>> : b \in x.breaks}
<1>1. /\ open # <<>> /\ x.kind = "loop" /\ Step
      /\ code' = BreaksPatched(code, found)
      /\ had_error' = \E f \in found : TooFar(Distance(f + 1, n))
      /\ targets' = targets \union us /\ open' = Front(open)
      /\ UNCHANGED <<constants, instructions>>
  BY DEF end_loop
<1>2. StateInv /\ ProgramInv /\ JumpInv /\ ~had_error /\ code \in Seq(AllBytes)
  BY <1>1 DEF Inv, Step, StateInv, BytesInv
<1>3. x.at \in Nat /\ x.at <= n /\ n \in Nat
  BY <1>1, <1>2, LastOpen
<1>4. Fills(code, instructions, 0, n) /\ Known(instructions, constants)
      /\ Jumps(code, instructions, open, targets)
  BY <1>2, JumpsNow DEF ProgramInv
<1>5. LastLoop(code, instructions, x)
  BY <1>1, <1>4, LastLoopFound
<1> HIDE DEF x, us
<1>6. /\ Loops(code, instructions, x)
      /\ x.breaks = {s \in Starts(instructions) : s >= x.at /\ code[s + 1] = End}
      /\ \A b \in x.breaks : b \in Nat /\ b + 3 <= n
      /\ \A a, b \in x.breaks : a = b \/ a + 3 <= b \/ b + 3 <= a
  BY <1>5, Zenon DEF LastLoop
<1>7. found = x.breaks
  <2> DEFINE at == x.at
  <2>1. (at = n \/ \E e \in instructions : e.offset = at)
        /\ \A e \in instructions : e.offset >= at => e.opcode # ClosureLong
    BY <1>6 DEF Loops
  <2> HIDE DEF at
  <2>2. at \in Nat /\ at <= n
    BY <1>3 DEF at
  <2>3. Placeholders[at]
          = {s \in Starts(instructions) : s >= at /\ Byte(s) = End}
    BY <1>2, <1>4, <2>1, <2>2, AllPlaceholders
  <2>4. \A s : Byte(s) = code[s + 1]
    BY DEF Byte
  <2> QED BY <1>6, <2>3, <2>4 DEF at
<1> HIDE DEF found
<1>8. BreakBytes(code, code', x.breaks)
  <2>1. found \in SUBSET Nat /\ (\A f \in found : f + 3 <= Len(code))
        /\ \A f, g \in found : f = g \/ f + 3 <= g \/ g + 3 <= f
    BY <1>6, <1>7
  <2>2. BreakBytes(code, BreaksPatched(code, found), found)
    BY <1>2, <2>1, BreaksChanged
  <2> QED BY <1>1, <1>7, <2>2
<1>9. /\ Fills(code', instructions, 0, Len(code'))
      /\ (\A b \in x.breaks : n - (b + 3) < Weight[3]) =>
           Jumps(code', instructions, Front(open), targets \union us)
  BY <1>1, <1>4, <1>8, LoopEnded DEF x, us
<1>10. ProgramInv'
  BY <1>1, <1>2, <1>9, ProgramSame
<1>11. ASSUME ~had_error' PROVE Jumps(code', instructions', open', targets')
  <2>1. ASSUME NEW b \in x.breaks PROVE n - (b + 3) < Weight[3]
    <3> DEFINE v == Distance(b + 1, n)
    <3>1. ~TooFar(v)
      BY <1>1, <1>7, <1>11
    <3>2. b \in Nat
      BY <1>6
    <3>3. v \in Int /\ v = n - (b + 3)
      <4> HIDE DEF n
      <4> QED BY <1>3, <3>2 DEF Distance
    <3> HIDE DEF v
    <3>4. v < Weight[3]
      BY <3>1, <3>3, NotTooFar
    <3> QED BY <3>3, <3>4
  <2> QED BY <1>1, <1>9, <2>1
<1> QED BY <1>10, <1>11, JumpsNext

LEMMA LineKeeps ==
  ASSUME ProgramInv, JumpInv, next_line PROVE ProgramInv' /\ JumpInv'
<1>1. UNCHANGED <<sample, code, constants, open, had_error, steps, instructions, targets>>
  BY DEF next_line
<1> QED BY <1>1 DEF ProgramInv, JumpInv

LEMMA InvStep ==
  ASSUME LongClosures = FALSE, Inv, [Next]_vars PROVE Inv'
<1>1. StateInv'
  BY StateStep DEF Inv
<1>2. ProgramInv' /\ JumpInv'
  <2>1. CASE UNCHANGED vars
    BY <2>1 DEF Inv, ProgramInv, JumpInv, vars
  <2>2. CASE next_line
    BY <2>2, LineKeeps DEF Inv
  <2>3. CASE simple_instructions
    BY <2>3, SimpleKeeps
  <2>4. CASE emit_constant
    BY <2>4, ConstantKeeps
  <2>5. CASE emit_closure
    BY <2>5, ClosureKeeps
  <2>6. CASE emit_jump
    BY <2>6, JumpKeeps
  <2>7. CASE begin_loop
    BY <2>7, LoopKeeps
  <2>8. CASE break_statement
    BY <2>8, BreakKeeps
  <2>9. CASE patch_jump
    BY <2>9, PatchKeeps
  <2>10. CASE emit_loop
    BY <2>10, EmitLoopKeeps
  <2>11. CASE end_loop
    BY <2>11, EndLoopKeeps
  <2> QED BY <2>1, <2>2, <2>3, <2>4, <2>5, <2>6, <2>7, <2>8, <2>9, <2>10, <2>11 DEF Next
<1> QED BY <1>1, <1>2 DEF Inv

LEMMA InitProgram ==
  ASSUME Init PROVE ProgramInv /\ JumpInv
<1> DEFINE n == sample.prelude
<1>1. /\ sample \in Samples /\ code = PreludeCode(n) /\ constants = n
      /\ instructions = PreludeInstructions(n) /\ targets = {} /\ open = <<>> /\ steps = 0
  BY DEF Init
<1>2. n \in Nat /\ n <= Weight[4]
  <2> DEFINE w == Weight[4]
             s == sample.steps
  <2>1. n \in Nat /\ s \in Nat /\ n + s <= w /\ w \in Nat
    BY <1>1, ChunkAssumption, Weights
  <2> HIDE DEF n, s, w
  <2>2. n <= w
    BY <2>1
  <2> QED BY <2>1, <2>2 DEF w
<1>3. PartsPlaced(n, code)
  BY <1>1, <1>2, PreludePlaced
<1>4. Fills(code, instructions, 0, Len(code))
  BY <1>1, <1>2, <1>3, PreludeFills
<1>5. \A e \in instructions : e.opcode \in {Constant, ConstantLong, Nil}
  BY <1>1, <1>2, PreludePlain
<1> HIDE DEF n
<1>6. ProgramInv
  <2>1. Known(instructions, constants)
    BY <1>5, Opcodes DEF Known
  <2>2. n <= n + 0
    BY <1>2
  <2> QED BY <1>1, <1>2, <1>4, <2>1, <2>2 DEF ProgramInv, n
<1>7. Jumps(code, instructions, open, targets)
  <2>1. AllLand(code, instructions, targets)
    BY <1>1 DEF AllLand
  <2>2. OpenRight(code, instructions, open, targets)
    <3>1. open \in Seq(Opened) /\ Len(open) = 0 /\ 1..Len(open) = {}
      BY <1>1
    <3> QED BY <3>1 DEF OpenRight
  <2>3. ASSUME NEW e \in instructions PROVE code[e.offset + 1] # End
    <3>1. IsInstruction(e) /\ Stands(code, e)
      BY <1>4, FillsApart
    <3>2. e.opcode # Jump /\ e.opcode # End
      BY <1>5, Opcodes
    <3> QED BY <3>1, <3>2, FirstByte
  <2>4. EndsRight(code, instructions, open)
    BY <2>3 DEF EndsRight
  <2> QED BY <2>1, <2>2, <2>4 DEF Jumps
<1> QED BY <1>6, <1>7 DEF JumpInv, Jumps

\* Without a closure with a long index in a loop, the code is the program that
\* was emitted, and its jumps are where they should be, after every step.
THEOREM InvKept ==
  ASSUME LongClosures = FALSE PROVE Spec => []Inv
<1>1. Init => Inv
  BY InitState, InitProgram DEF Inv
<1>2. Inv /\ [Next]_vars => Inv'
  BY InvStep
<1> QED BY <1>1, <1>2, PTL DEF Spec

\* The VM and the disassembler read what the compiler emitted: every
\* instruction at its place, with its operand and its upvalues, and nothing
\* else; and the line of every byte.
THEOREM CodeReadAsEmitted ==
  ASSUME LongClosures = FALSE PROVE Spec => []ReadAsEmitted
<1>1. Inv => ReadAsEmitted
  BY TypeRight, LinesRight, Finished DEF Inv, StateInv, ReadAsEmitted
<1> QED BY <1>1, InvKept, PTL

\* Every jump of complete code goes to where it was meant to, and no
\* placeholder of a break is left for the VM.
THEOREM JumpsLanded ==
  ASSUME LongClosures = FALSE PROVE Spec => []JumpsLand
<1>1. Inv => JumpsLand
  BY Finished DEF Inv, StateInv
<1> QED BY <1>1, InvKept, PTL
=============================================================================
