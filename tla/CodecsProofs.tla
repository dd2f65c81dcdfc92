----------------------------- MODULE CodecsProofs ----------------------------
(***************************************************************************)
(* Theorems about Codecs, for every base, width, limit and instance of the *)
(* three benches: the frames are the stream, the decoders of the requests  *)
(* are exact, the bytes of a reply determine it, and a damaged checkpoint  *)
(* file is refused, or read with another generation and nothing else.      *)
(*                                                                         *)
(* The codecs are recursive functions, loops over the bytes.  What such a  *)
(* loop computes is proved with sets instead of an induction rule: the     *)
(* numbers up to which a fact holds are a set with 0 and its successors    *)
(* (UpTo), and the values of a recursion are a table that exists and       *)
(* satisfies its equations (TableExists).                                  *)
(***************************************************************************)
EXTENDS Codecs, WellFoundedInduction, NaturalsInduction, TLAPS

-----------------------------------------------------------------------------
(* Induction, and functions defined by recursion on a number. *)

\* A nonempty set of naturals has a least element.
LEMMA LeastElement ==
    ASSUME NEW T, T \subseteq Nat, T # {}
    PROVE  \E x \in T : \A y \in T : x <= y
  <1>1. PICK x \in T : \A y \in T : ~ (<<y, x>> \in OpToRel(<, Nat))
    BY NatLessThanWellFounded, WFMin
  <1>2. \A y \in T : ~ (y < x)
    BY <1>1 DEF OpToRel
  <1>3. ASSUME NEW y \in T PROVE x <= y
    <2>1. x \in Nat /\ y \in Nat /\ ~ (y < x)
      BY <1>2
    <2> QED BY <2>1
  <1> QED BY <1>3

\* A set with 0 and the successors below n of its elements has 0 .. n.
LEMMA UpTo ==
    ASSUME NEW n \in Nat, NEW S, 0 \in S,
           \A k \in 0 .. n - 1 : k \in S => k + 1 \in S
    PROVE  \A k \in 0 .. n : k \in S
  <1> SUFFICES ASSUME NEW k \in 0 .. n, k \notin S PROVE FALSE
    OBVIOUS
  <1> DEFINE T == (0 .. n) \ S
  <1>1. T \subseteq Nat /\ T # {}
    OBVIOUS
  <1>2. PICK x \in T : \A y \in T : x <= y
    <2> HIDE DEF T
    <2> QED BY <1>1, LeastElement
  <1>3. x \in 1 .. n /\ x - 1 \in 0 .. n - 1 /\ x - 1 \notin T
    BY <1>2
  <1>4. x - 1 \in S /\ (x - 1) + 1 = x
    BY <1>3
  <1>5. x \in S
    BY <1>3, <1>4
  <1> QED BY <1>2, <1>5

\* f starts at base and goes on by the steps.
Table(f, n, base, step) ==
    f[0] = base /\ \A i \in 1 .. n : f[i] = step[i][f[i - 1]]

\* Every recursion with a step per index has a solution.
LEMMA TableExists ==
    ASSUME NEW S, NEW base \in S, NEW n \in Nat, NEW step \in [1 .. n -> [S -> S]]
    PROVE  \E f \in [0 .. n -> S] : Table(f, n, base, step)
  <1> DEFINE T == {k \in 0 .. n : \E f \in [0 .. k -> S] : Table(f, k, base, step)}
  <1>1. 0 \in T
    <2> DEFINE f == [i \in 0 .. 0 |-> base]
    <2>1. f \in [0 .. 0 -> S] /\ Table(f, 0, base, step)
      BY DEF Table
    <2> QED BY <2>1
  <1>2. ASSUME NEW k \in 0 .. n - 1, k \in T PROVE k + 1 \in T
    <2>1. PICK f \in [0 .. k -> S] : Table(f, k, base, step)
      BY <1>2
    <2> DEFINE g == [i \in 0 .. k + 1 |-> IF i <= k THEN f[i] ELSE step[k + 1][f[k]]]
    <2>2. step[k + 1][f[k]] \in S
      OBVIOUS
    <2>3. g \in [0 .. k + 1 -> S]
      BY <2>2
    <2>4. g[0] = base
      BY <2>1 DEF Table
    <2>5. ASSUME NEW i \in 1 .. k + 1 PROVE g[i] = step[i][g[i - 1]]
      <3>1. CASE i <= k
        <4>1. i - 1 \in 0 .. k /\ i \in 1 .. k /\ i - 1 <= k
          BY <3>1
        <4> QED BY <2>1, <3>1, <4>1 DEF Table
      <3>2. CASE i = k + 1
        BY <3>2
      <3> QED BY <3>1, <3>2
    <2>6. Table(g, k + 1, base, step)
      BY <2>4, <2>5 DEF Table
    <2> QED BY <2>3, <2>6
  <1>3. \A k \in 0 .. n : k \in T
    <2> HIDE DEF T
    <2> QED BY <1>1, <1>2, UpTo
  <1>4. n \in T
    BY <1>3
  <1> QED BY <1>4

-----------------------------------------------------------------------------
(* Powers of the base. *)

\* Power(n) is the last of the products of 0 to n bases.
LEMMA PowerTable ==
    ASSUME NEW n \in Nat
    PROVE  \E f \in [0 .. n -> Nat] :
             /\ f[0] = 1 /\ \A i \in 1 .. n : f[i] = f[i - 1] * Base
             /\ Power(n) = f[n]
  <1> DEFINE s == [i \in 1 .. n |-> Base]
             F(f) == [i \in 0 .. Len(s) |-> IF i = 0 THEN 1 ELSE f[i - 1] * s[i]]
             step == [i \in 1 .. n |-> [v \in Nat |-> v * Base]]
             c == CHOOSE f : f = F(f)
  <1>1. Base \in Nat
    BY BytesAssumption
  <1>2. s \in Seq(Nat) /\ Len(s) = n /\ \A i \in 1 .. n : s[i] = Base
    BY <1>1
  <1>3. step \in [1 .. n -> [Nat -> Nat]]
    BY <1>1
  <1>4. \E f \in [0 .. n -> Nat] : Table(f, n, 1, step)
    <2> HIDE DEF step
    <2> QED BY <1>3, TableExists
  <1>5. PICK g \in [0 .. n -> Nat] : Table(g, n, 1, step)
    BY <1>4
  <1>6. g[0] = 1 /\ \A i \in 1 .. n : g[i] = g[i - 1] * Base
    <2>1. ASSUME NEW i \in 1 .. n PROVE g[i] = g[i - 1] * Base
      <3>1. g[i - 1] \in Nat
        OBVIOUS
      <3>2. step[i][g[i - 1]] = g[i - 1] * Base
        BY <3>1
      <3> QED BY <1>5, <3>2 DEF Table
    <2> QED BY <1>5, <2>1 DEF Table
  <1>7. \A f : F(f) = [i \in 0 .. n |-> IF i = 0 THEN 1 ELSE f[i - 1] * Base]
    <2> HIDE DEF s
    <2> QED BY <1>2
  <1>8. g = F(g)
    BY <1>6, <1>7
  <1>9. Power(n) = c[Len(s)]
    BY DEF Power, Fold
  <1>10. c = F(c)
    <2> HIDE DEF F
    <2> QED BY <1>8
  <1>11. c = [i \in 0 .. n |-> IF i = 0 THEN 1 ELSE c[i - 1] * Base]
    <2> HIDE DEF F, c
    <2> QED BY <1>7, <1>10
  <1> HIDE DEF c
  <1>12. c[0] = 1 /\ \A i \in 1 .. n : c[i] = c[i - 1] * Base
    BY <1>11
  <1> DEFINE T == {k \in 0 .. n : c[k] = g[k]}
  <1>13. \A k \in 0 .. n : k \in T
    <2>1. 0 \in T
      BY <1>6, <1>12
    <2>2. ASSUME NEW k \in 0 .. n - 1, k \in T PROVE k + 1 \in T
      <3>1. k + 1 \in 1 .. n /\ (k + 1) - 1 = k /\ c[k] = g[k]
        BY <2>2
      <3>2. c[k + 1] = c[k] * Base /\ g[k + 1] = g[k] * Base
        BY <1>6, <1>12, <3>1
      <3> QED BY <3>1, <3>2
    <2> HIDE DEF T
    <2> QED BY <2>1, <2>2, UpTo
  <1>14. c[n] = g[n]
    BY <1>13
  <1> QED BY <1>2, <1>6, <1>9, <1>14

\* The laws of the powers.
LEMMA PowerLaws ==
    /\ Power(0) = 1
    /\ \A n \in Nat : /\ Power(n) \in Nat /\ Power(n) > 0
                      /\ Power(n + 1) = Power(n) * Base
  <1>1. Power(0) = 1
    BY PowerTable
  <1>2. ASSUME NEW n \in Nat PROVE Power(n) \in Nat
    <2>1. PICK f \in [0 .. n -> Nat] : Power(n) = f[n]
      BY PowerTable
    <2> QED BY <2>1
  <1>3. ASSUME NEW n \in Nat PROVE Power(n + 1) = Power(n) * Base
    <2>1. PICK f \in [0 .. n -> Nat] :
             /\ f[0] = 1 /\ \A i \in 1 .. n : f[i] = f[i - 1] * Base
             /\ Power(n) = f[n]
      BY PowerTable
    <2> DEFINE m == n + 1
    <2>2. m \in Nat /\ n \in 0 .. m
      OBVIOUS
    <2>3. PICK g \in [0 .. m -> Nat] :
             /\ g[0] = 1 /\ \A i \in 1 .. m : g[i] = g[i - 1] * Base
             /\ Power(m) = g[m]
      <3> HIDE DEF m
      <3> QED BY PowerTable, <2>2
    <2> DEFINE T == {k \in 0 .. n : f[k] = g[k]}
    <2>4. \A k \in 0 .. n : k \in T
      <3>1. 0 \in T
        BY <2>1, <2>3
      <3>2. ASSUME NEW k \in 0 .. n - 1, k \in T PROVE k + 1 \in T
        <4>1. k + 1 \in 1 .. n /\ k + 1 \in 1 .. m /\ (k + 1) - 1 = k /\ f[k] = g[k]
          BY <3>2
        <4>2. f[k + 1] = f[k] * Base /\ g[k + 1] = g[k] * Base
          BY <2>1, <2>3, <4>1
        <4> QED BY <4>1, <4>2
      <3> HIDE DEF T
      <3> QED BY <3>1, <3>2, UpTo
    <2>5. f[n] = g[n]
      BY <2>4
    <2>6. g[m] = g[n] * Base
      BY <2>3
    <2> QED BY <2>1, <2>3, <2>5, <2>6
  <1>4. ASSUME NEW n \in Nat PROVE Power(n) > 0
    <2> DEFINE T == {k \in 0 .. n : Power(k) > 0}
    <2>1. 0 \in T
      BY <1>1
    <2>2. ASSUME NEW k \in 0 .. n - 1, k \in T PROVE k + 1 \in T
      <3>1. k \in Nat /\ Power(k) \in Nat /\ Power(k) > 0 /\ Power(k + 1) = Power(k) * Base
        BY <1>2, <1>3, <2>2
      <3>2. Base \in Nat /\ Base > 1
        BY BytesAssumption
      <3>3. Power(k) * Base > 0
        BY <3>1, <3>2
      <3> QED BY <3>1, <3>3
    <2>3. \A k \in 0 .. n : k \in T
      <3> HIDE DEF T
      <3> QED BY <2>1, <2>2, UpTo
    <2> QED BY <2>3
  <1> QED BY <1>1, <1>2, <1>3, <1>4

-----------------------------------------------------------------------------
(* Quotients and remainders. *)

\* A quotient and a remainder make up the number.
LEMMA Division ==
    ASSUME NEW v \in Nat, NEW d \in Nat, d > 0
    PROVE  /\ v \div d \in Nat /\ v % d \in 0 .. d - 1
           /\ v = (v \div d) * d + (v % d)
  OBVIOUS

\* A product grows with its factor.
LEMMA ProductMonotone ==
    ASSUME NEW x \in Nat, NEW y \in Nat, NEW z \in Nat, x <= y
    PROVE  x * z <= y * z
  OBVIOUS

\* No other quotient and remainder do.
LEMMA DivisionUnique ==
    ASSUME NEW d \in Nat, d > 0, NEW q \in Nat, NEW r \in 0 .. d - 1
    PROVE  (q * d + r) \div d = q /\ (q * d + r) % d = r
  <1> DEFINE v == q * d + r
             q1 == v \div d
             r1 == v % d
  <1>1. v \in Nat
    OBVIOUS
  <1>2. q1 \in Nat /\ r1 \in 0 .. d - 1 /\ v = q1 * d + r1
    <2> HIDE DEF v
    <2> QED BY <1>1, Division
  <1>3. q * d + r = q1 * d + r1
    BY <1>2
  <1> HIDE DEF q1, r1, v
  <1>4. ASSUME q1 < q PROVE FALSE
    <2>1. (q1 + 1) * d <= q * d
      BY <1>2, <1>4
    <2>2. (q1 + 1) * d = q1 * d + d
      BY <1>2
    <2> QED BY <1>2, <1>3, <2>1, <2>2
  <1>5. ASSUME q < q1 PROVE FALSE
    <2>1. (q + 1) * d <= q1 * d
      BY <1>2, <1>5
    <2>2. (q + 1) * d = q * d + d
      OBVIOUS
    <2> QED BY <1>2, <1>3, <2>1, <2>2
  <1>6. q1 = q
    BY <1>2, <1>4, <1>5
  <1>7. r1 = r
    BY <1>2, <1>3, <1>6
  <1> QED BY <1>6, <1>7 DEF q1, r1, v

\* A quotient is divided further by dividing by the product.
LEMMA DivisionTwice ==
    ASSUME NEW v \in Nat, NEW p \in Nat, p > 0, NEW b \in Nat, b > 0
    PROVE  v \div (p * b) = (v \div p) \div b
  <1> DEFINE q == v \div p
             r == v % p
             q2 == q \div b
             r2 == q % b
             d == p * b
             e == r2 * p + r
  <1>1. q \in Nat /\ r \in 0 .. p - 1 /\ v = q * p + r
    BY Division
  <1>2. q2 \in Nat /\ r2 \in 0 .. b - 1 /\ q = q2 * b + r2
    <2> HIDE DEF q
    <2> QED BY <1>1, Division
  <1> HIDE DEF q, r, q2, r2
  <1>3. d \in Nat /\ d > 0
    OBVIOUS
  <1>4. e \in 0 .. d - 1
    <2>1. r2 * p <= (b - 1) * p
      BY <1>2
    <2>2. (b - 1) * p = d - p
      OBVIOUS
    <2>3. r2 * p \in Nat
      BY <1>2
    <2> QED BY <1>1, <2>1, <2>2, <2>3
  <1>5. v = q2 * d + e
    <2>1. q * p = (q2 * b) * p + r2 * p
      BY <1>2
    <2>2. (q2 * b) * p = q2 * d
      BY <1>2
    <2> QED BY <1>1, <1>2, <2>1, <2>2
  <1> HIDE DEF d, e
  <1>6. v \div d = q2
    BY <1>2, <1>3, <1>4, <1>5, DivisionUnique
  <1> QED BY <1>6 DEF d, q2, q

-----------------------------------------------------------------------------
(* Integers as bytes. *)

\* The bytes are numbers below the base.
LEMMA ByteType == Base \in Nat /\ Base > 1 /\ Base > 0 /\ Byte = 0 .. Base - 1 /\ Byte \subseteq Nat
  BY BytesAssumption DEF Byte

\* Value(s) is the last of the values of the prefixes of s.
LEMMA ValueTable ==
    ASSUME NEW s \in Seq(Byte)
    PROVE  \E f \in [0 .. Len(s) -> Nat] :
             /\ f[0] = 0 /\ \A i \in 1 .. Len(s) : f[i] = f[i - 1] * Base + s[i]
             /\ Value(s) = f[Len(s)]
  <1> DEFINE n == Len(s)
             F(f) == [i \in 0 .. Len(s) |-> IF i = 0 THEN 0 ELSE f[i - 1] * Base + s[i]]
             step == [i \in 1 .. n |-> [v \in Nat |-> v * Base + s[i]]]
             c == CHOOSE f : f = F(f)
  <1>1. Base \in Nat /\ n \in Nat /\ \A i \in 1 .. n : s[i] \in Nat
    BY ByteType
  <1>2. Value(s) = c[n]
    BY DEF Value, Fold
  <1> HIDE DEF n
  <1>3. step \in [1 .. n -> [Nat -> Nat]]
    BY <1>1
  <1>4. PICK g \in [0 .. n -> Nat] : Table(g, n, 0, step)
    <2> HIDE DEF step
    <2> QED BY <1>1, <1>3, TableExists
  <1>5. g[0] = 0 /\ \A i \in 1 .. n : g[i] = g[i - 1] * Base + s[i]
    <2>1. ASSUME NEW i \in 1 .. n PROVE g[i] = g[i - 1] * Base + s[i]
      <3>1. g[i - 1] \in Nat
        BY <1>1
      <3>2. step[i][g[i - 1]] = g[i - 1] * Base + s[i]
        BY <3>1
      <3> QED BY <1>4, <3>2 DEF Table
    <2> QED BY <1>4, <2>1 DEF Table
  <1>6. \A f : F(f) = [i \in 0 .. n |-> IF i = 0 THEN 0 ELSE f[i - 1] * Base + s[i]]
    BY DEF n
  <1>7. g = F(g)
    BY <1>1, <1>5, <1>6
  <1>8. c = F(c)
    <2> HIDE DEF F
    <2> QED BY <1>7
  <1>9. c = [i \in 0 .. n |-> IF i = 0 THEN 0 ELSE c[i - 1] * Base + s[i]]
    <2> HIDE DEF F, c
    <2> QED BY <1>6, <1>8
  <1> HIDE DEF c
  <1>10. c[0] = 0 /\ \A i \in 1 .. n : c[i] = c[i - 1] * Base + s[i]
    BY <1>1, <1>9
  <1> DEFINE T == {k \in 0 .. n : c[k] = g[k]}
  <1>11. \A k \in 0 .. n : k \in T
    <2>1. 0 \in T
      BY <1>1, <1>5, <1>10
    <2>2. ASSUME NEW k \in 0 .. n - 1, k \in T PROVE k + 1 \in T
      <3>1. k + 1 \in 1 .. n /\ k + 1 \in 0 .. n /\ (k + 1) - 1 = k /\ c[k] = g[k]
        BY <1>1, <2>2
      <3>2. c[k + 1] = c[k] * Base + s[k + 1] /\ g[k + 1] = g[k] * Base + s[k + 1]
        BY <1>5, <1>10, <3>1
      <3> QED BY <3>1, <3>2
    <2> HIDE DEF T
    <2> QED BY <1>1, <2>1, <2>2, UpTo
  <1>12. c[n] = g[n]
    BY <1>1, <1>11
  <1> QED BY <1>2, <1>5, <1>12 DEF n

\* The bytes of a number: as many as asked for, the last one the least.
LEMMA BytesFacts ==
    ASSUME NEW v \in Nat, NEW w \in Nat
    PROVE  /\ Bytes(v, w) \in Seq(Byte) /\ Len(Bytes(v, w)) = w
           /\ \A i \in 1 .. w : Bytes(v, w)[i] = (v \div Power(w - i)) % Base
  <1>1. ASSUME NEW i \in 1 .. w PROVE (v \div Power(w - i)) % Base \in Byte
    <2>1. w - i \in Nat
      OBVIOUS
    <2>2. Power(w - i) \in Nat /\ Power(w - i) > 0
      BY <2>1, PowerLaws
    <2>3. v \div Power(w - i) \in Nat
      BY <2>2, Division
    <2> QED BY <2>3, Division, ByteType
  <1>2. Bytes(v, w) = [i \in 1 .. w |-> (v \div Power(w - i)) % Base]
    BY DEF Bytes
  <1>3. Bytes(v, w) \in [1 .. w -> Byte]
    BY <1>1, <1>2
  <1>4. \A i \in 1 .. w : Bytes(v, w)[i] = (v \div Power(w - i)) % Base
    BY <1>2
  <1> QED BY <1>3, <1>4

\* A number that fits is read back from its bytes.
LEMMA ValueOfBytes ==
    ASSUME NEW w \in Nat, NEW v \in 0 .. Power(w) - 1
    PROVE  Value(Bytes(v, w)) = v
  <1> DEFINE s == Bytes(v, w)
  <1>1. v \in Nat /\ Power(w) \in Nat /\ v < Power(w)
    BY PowerLaws
  <1>2. s \in Seq(Byte) /\ Len(s) = w
        /\ \A i \in 1 .. w : s[i] = (v \div Power(w - i)) % Base
    BY <1>1, BytesFacts
  <1> HIDE DEF s
  <1>3. PICK f \in [0 .. w -> Nat] :
             /\ f[0] = 0 /\ \A i \in 1 .. w : f[i] = f[i - 1] * Base + s[i]
             /\ Value(s) = f[w]
    BY <1>2, ValueTable
  <1> DEFINE T == {k \in 0 .. w : f[k] = v \div Power(w - k)}
  <1>4. 0 \in T
    <2>1. v = 0 * Power(w) + v /\ v \in 0 .. Power(w) - 1
      BY <1>1
    <2>2. (0 * Power(w) + v) \div Power(w) = 0
      BY <1>1, <2>1, PowerLaws, DivisionUnique
    <2>3. v \div Power(w - 0) = 0
      BY <2>1, <2>2
    <2> QED BY <1>3, <2>3
  <1>5. ASSUME NEW k \in 0 .. w - 1, k \in T PROVE k + 1 \in T
    <2> DEFINE j == k + 1
               p == Power(w - j)
               q == v \div p
    <2>1. j \in 1 .. w /\ j - 1 = k /\ w - j \in Nat /\ (w - j) + 1 = w - k
      OBVIOUS
    <2>2. p \in Nat /\ p > 0 /\ Power(w - k) = p * Base
      BY <2>1, PowerLaws
    <2>3. f[k] = v \div Power(w - k)
      BY <1>5
    <2>4. f[j] = f[k] * Base + s[j] /\ s[j] = q % Base
      BY <1>2, <1>3, <2>1
    <2> HIDE DEF j, p
    <2>5. q \in Nat
      BY <1>1, <2>2, Division
    <2>9. v \div (p * Base) = (v \div p) \div Base
      BY <1>1, <2>2, ByteType, DivisionTwice, ZenonT(60)
    <2>6. f[k] = q \div Base
      BY <2>2, <2>3, <2>9
    <2> HIDE DEF q
    <2>7. q = (q \div Base) * Base + (q % Base)
      BY <2>5, ByteType, Division
    <2>8. f[j] = q
      BY <2>4, <2>6, <2>7
    <2> QED BY <2>1, <2>8 DEF j, p, q
  <1>6. \A k \in 0 .. w : k \in T
    <2> HIDE DEF T
    <2> QED BY <1>4, <1>5, UpTo
  <1>7. f[w] = v \div Power(w - w)
    BY <1>6
  <1>8. w - w = 0 /\ Power(0) = 1
    BY PowerLaws
  <1>9. v \div 1 = v
    BY <1>1
  <1> QED BY <1>3, <1>7, <1>8, <1>9 DEF s

\* The value of a byte string fits its width, and has these bytes.
LEMMA BytesOfValue ==
    ASSUME NEW s \in Seq(Byte)
    PROVE  Value(s) \in 0 .. Power(Len(s)) - 1 /\ Bytes(Value(s), Len(s)) = s
  <1> DEFINE w == Len(s)
             v == Value(s)
  <1>1. w \in Nat /\ \A i \in 1 .. w : s[i] \in Byte
    OBVIOUS
  <1>2. PICK f \in [0 .. w -> Nat] :
             /\ f[0] = 0 /\ \A i \in 1 .. w : f[i] = f[i - 1] * Base + s[i]
             /\ v = f[w]
    BY ValueTable
  <1> HIDE DEF w, v
  <1> DEFINE T == {k \in 0 .. w : f[k] < Power(k)}
  <1>3. \A k \in 0 .. w : k \in T
    <2>1. 0 \in T
      BY <1>1, <1>2, PowerLaws
    <2>2. ASSUME NEW k \in 0 .. w - 1, k \in T PROVE k + 1 \in T
      <3>1. k \in Nat /\ k + 1 \in 1 .. w /\ (k + 1) - 1 = k /\ f[k] < Power(k) /\ f[k] \in Nat
        BY <1>1, <2>2
      <3>2. f[k + 1] = f[k] * Base + s[k + 1] /\ s[k + 1] \in 0 .. Base - 1
        BY <1>1, <1>2, <3>1, ByteType
      <3>3. Power(k) \in Nat /\ Power(k + 1) = Power(k) * Base
        BY <3>1, PowerLaws
      <3> DEFINE x == f[k] + 1
                 y == Power(k)
      <3>8. x \in Nat /\ y \in Nat /\ x <= y
        BY <3>1, <3>3
      <3>4. (f[k] + 1) * Base <= Power(k) * Base
        <4> HIDE DEF x, y
        <4>1. x * Base <= y * Base
          BY <3>8, ByteType, ProductMonotone
        <4> QED BY <4>1 DEF x, y
      <3>5. (f[k] + 1) * Base = f[k] * Base + Base
        BY <3>1, ByteType
      <3>6. f[k] * Base \in Nat /\ Power(k) * Base \in Nat
        BY <3>1, <3>3, ByteType
      <3>7. f[k + 1] < Power(k + 1)
        BY <3>2, <3>3, <3>4, <3>5, <3>6, ByteType
      <3> QED BY <1>1, <3>7
    <2> HIDE DEF T
    <2> QED BY <1>1, <2>1, <2>2, UpTo
  <1>4. v \in 0 .. Power(w) - 1
    <2>1. w \in 0 .. w /\ f[w] \in Nat /\ Power(w) \in Nat
      BY <1>1, PowerLaws
    <2>2. f[w] < Power(w)
      BY <1>3, <2>1
    <2> QED BY <1>2, <2>1, <2>2
  <1> DEFINE U == {k \in 0 .. w : v \div Power(k) = f[w - k]}
  <1>5. \A k \in 0 .. w : k \in U
    <2>1. 0 \in U
      <3>1. w - 0 = w /\ 0 \in 0 .. w /\ v \in Nat
        BY <1>1, <1>4
      <3>2. v \div 1 = v
        BY <3>1
      <3> QED BY <1>2, <3>1, <3>2, PowerLaws
    <2>2. ASSUME NEW k \in 0 .. w - 1, k \in U PROVE k + 1 \in U
      <3> DEFINE j == w - k
      <3>1. k \in Nat /\ j \in 1 .. w /\ j - 1 = w - (k + 1) /\ v \in Nat /\ v \div Power(k) = f[j]
        BY <1>1, <1>4, <2>2
      <3>2. Power(k) \in Nat /\ Power(k) > 0 /\ Power(k + 1) = Power(k) * Base
        BY <3>1, PowerLaws
      <3> DEFINE p == Power(k)
      <3> HIDE DEF p
      <3>10. v \div (p * Base) = (v \div p) \div Base
        BY <3>1, <3>2, ByteType, DivisionTwice, Zenon DEF p
      <3>3. v \div Power(k + 1) = (v \div Power(k)) \div Base
        BY <3>2, <3>10 DEF p
      <3> HIDE DEF j
      <3>4. f[j] = f[j - 1] * Base + s[j] /\ f[j - 1] \in Nat /\ s[j] \in 0 .. Base - 1
        BY <1>1, <1>2, <3>1, ByteType
      <3> DEFINE x == f[j - 1]
                 y == s[j]
      <3> HIDE DEF x, y
      <3>8. x \in Nat /\ y \in 0 .. Base - 1 /\ f[j] = x * Base + y
        BY <3>4 DEF x, y
      <3>9. (x * Base + y) \div Base = x
        BY <3>8, ByteType, DivisionUnique, Zenon
      <3>5. f[j] \div Base = f[j - 1]
        BY <3>8, <3>9 DEF x
      <3>6. v \div Power(k + 1) = f[w - (k + 1)]
        BY <3>1, <3>3, <3>5
      <3> QED BY <1>1, <3>6
    <2> HIDE DEF U
    <2> QED BY <1>1, <2>1, <2>2, UpTo
  <1>6. ASSUME NEW i \in 1 .. w PROVE Bytes(v, w)[i] = s[i]
    <2>1. w - i \in 0 .. w /\ w - (w - i) = i
      BY <1>1
    <2>2. v \div Power(w - i) = f[i]
      BY <1>5, <2>1
    <2>3. f[i] = f[i - 1] * Base + s[i] /\ f[i - 1] \in Nat /\ s[i] \in 0 .. Base - 1
      BY <1>1, <1>2, ByteType
    <2> DEFINE x == f[i - 1]
               y == s[i]
    <2> HIDE DEF x, y
    <2>6. x \in Nat /\ y \in 0 .. Base - 1 /\ f[i] = x * Base + y
      BY <2>3 DEF x, y
    <2>7. (x * Base + y) % Base = y
      BY <2>6, ByteType, DivisionUnique, Zenon
    <2>4. f[i] % Base = s[i]
      BY <2>6, <2>7 DEF y
    <2>5. v \in Nat
      BY <1>4
    <2> QED BY <1>1, <2>2, <2>4, <2>5, BytesFacts
  <1>7. v \in Nat
    BY <1>4
  <1>8. Bytes(v, w) \in Seq(Byte) /\ Len(Bytes(v, w)) = w
    BY <1>1, <1>7, BytesFacts
  <1>9. Bytes(v, w) = s
    BY <1>6, <1>8 DEF w
  <1> QED BY <1>4, <1>9 DEF v, w

\* The powers turn sums into products.
LEMMA PowerSum ==
    ASSUME NEW m \in Nat, NEW n \in Nat
    PROVE  Power(m + n) = Power(m) * Power(n)
  <1> DEFINE T == {k \in 0 .. n : Power(m + k) = Power(m) * Power(k)}
  <1>1. 0 \in T
    <2>1. m + 0 = m /\ Power(0) = 1 /\ Power(m) \in Nat
      BY PowerLaws
    <2>2. Power(m) * 1 = Power(m)
      BY <2>1
    <2> QED BY <2>1, <2>2
  <1>2. ASSUME NEW k \in 0 .. n - 1, k \in T PROVE k + 1 \in T
    <2>1. k \in Nat /\ m + k \in Nat /\ m + (k + 1) = (m + k) + 1
          /\ Power(m + k) = Power(m) * Power(k)
      BY <1>2
    <2>2. Power((m + k) + 1) = Power(m + k) * Base /\ Power(k + 1) = Power(k) * Base
          /\ Power(m) \in Nat /\ Power(k) \in Nat /\ Base \in Nat
      BY <2>1, PowerLaws, ByteType
    <2>3. (Power(m) * Power(k)) * Base = Power(m) * (Power(k) * Base)
      BY <2>2
    <2>4. Power(m + (k + 1)) = Power(m) * Power(k + 1)
      BY <2>1, <2>2, <2>3
    <2> QED BY <2>4
  <1>3. \A k \in 0 .. n : k \in T
    <2> HIDE DEF T
    <2> QED BY <1>1, <1>2, UpTo
  <1> QED BY <1>3

\* The value of two byte strings one after the other.
LEMMA ValueOfCat ==
    ASSUME NEW a \in Seq(Byte), NEW b \in Seq(Byte)
    PROVE  Value(a \o b) = Value(a) * Power(Len(b)) + Value(b)
  <1> DEFINE m == Len(a)
             n == Len(b)
             s == a \o b
  <1>1. m \in Nat /\ n \in Nat /\ s \in Seq(Byte) /\ Len(s) = m + n
        /\ (\A i \in 1 .. m : s[i] = a[i]) /\ (\A i \in 1 .. n : s[m + i] = b[i])
        /\ \A i \in 1 .. n : b[i] \in Nat
    BY ByteType
  <1>2. PICK f \in [0 .. m -> Nat] :
             /\ f[0] = 0 /\ \A i \in 1 .. m : f[i] = f[i - 1] * Base + a[i]
             /\ Value(a) = f[m]
    BY ValueTable
  <1>3. PICK g \in [0 .. n -> Nat] :
             /\ g[0] = 0 /\ \A i \in 1 .. n : g[i] = g[i - 1] * Base + b[i]
             /\ Value(b) = g[n]
    BY ValueTable
  <1> HIDE DEF m, n, s
  <1>4. PICK h \in [0 .. m + n -> Nat] :
             /\ h[0] = 0 /\ \A i \in 1 .. m + n : h[i] = h[i - 1] * Base + s[i]
             /\ Value(s) = h[m + n]
    BY <1>1, ValueTable
  <1> DEFINE T == {k \in 0 .. m : h[k] = f[k]}
  <1>5. \A k \in 0 .. m : k \in T
    <2>1. 0 \in T
      BY <1>1, <1>2, <1>4
    <2>2. ASSUME NEW k \in 0 .. m - 1, k \in T PROVE k + 1 \in T
      <3>1. k + 1 \in 1 .. m /\ k + 1 \in 1 .. m + n /\ (k + 1) - 1 = k /\ h[k] = f[k]
        BY <1>1, <2>2
      <3>2. h[k + 1] = h[k] * Base + s[k + 1] /\ f[k + 1] = f[k] * Base + a[k + 1]
        BY <1>2, <1>4, <3>1
      <3>3. s[k + 1] = a[k + 1]
        BY <1>1, <3>1
      <3> QED BY <1>1, <3>1, <3>2, <3>3
    <2> HIDE DEF T
    <2> QED BY <1>1, <2>1, <2>2, UpTo
  <1>6. h[m] = f[m] /\ f[m] \in Nat
    BY <1>1, <1>5
  <1> DEFINE U == {k \in 0 .. n : h[m + k] = f[m] * Power(k) + g[k]}
  <1>7. \A k \in 0 .. n : k \in U
    <2>1. 0 \in U
      <3>1. f[m] * 1 + 0 = f[m] /\ m + 0 = m
        BY <1>1, <1>6
      <3> QED BY <1>1, <1>3, <1>6, <3>1, PowerLaws
    <2>2. ASSUME NEW k \in 0 .. n - 1, k \in U PROVE k + 1 \in U
      <3> DEFINE x == f[m]
                 p == Power(k)
                 y == g[k]
                 z == b[k + 1]
      <3>1. k \in Nat /\ k + 1 \in 1 .. n /\ m + (k + 1) \in 1 .. m + n
            /\ (k + 1) - 1 = k /\ (m + (k + 1)) - 1 = m + k
        BY <1>1, <2>2
      <3>2. h[m + k] = x * p + y /\ x \in Nat /\ p \in Nat /\ y \in Nat /\ z \in Nat
            /\ Power(k + 1) = p * Base
        BY <1>1, <1>6, <2>2, <3>1, PowerLaws
      <3>3. h[m + (k + 1)] = h[m + k] * Base + s[m + (k + 1)]
        BY <1>4, <3>1
      <3>4. s[m + (k + 1)] = z
        BY <1>1, <3>1
      <3>5. g[k + 1] = y * Base + z
        BY <1>3, <3>1
      <3> HIDE DEF x, p, y, z
      <3>6. (x * p + y) * Base + z = x * (p * Base) + (y * Base + z)
        <4>1. Base \in Nat
          BY ByteType
        <4>2. (x * p + y) * Base = (x * p) * Base + y * Base
          BY <3>2, <4>1
        <4>3. (x * p) * Base = x * (p * Base)
          BY <3>2, <4>1
        <4>4. y * Base \in Nat /\ x * (p * Base) \in Nat
          BY <3>2, <4>1
        <4> QED BY <3>2, <4>2, <4>3, <4>4
      <3>7. h[m + (k + 1)] = x * Power(k + 1) + g[k + 1]
        BY <3>2, <3>3, <3>4, <3>5, <3>6
      <3> QED BY <3>1, <3>7 DEF x
    <2> HIDE DEF U
    <2> QED BY <1>1, <2>1, <2>2, UpTo
  <1>8. h[m + n] = f[m] * Power(n) + g[n]
    BY <1>1, <1>7
  <1> QED BY <1>2, <1>3, <1>4, <1>8 DEF s, n

-----------------------------------------------------------------------------
(* Byte strings put together and taken apart. *)

\* What a piece of a byte string is.
LEMMA PieceFacts ==
    ASSUME NEW s \in Seq(Byte), NEW m \in 1 .. Len(s) + 1, NEW n \in 0 .. Len(s), m <= n + 1
    PROVE  /\ SubSeq(s, m, n) \in Seq(Byte) /\ Len(SubSeq(s, m, n)) = n + 1 - m
           /\ \A i \in 1 .. n + 1 - m : SubSeq(s, m, n)[i] = s[m + i - 1]
  OBVIOUS

\* What two byte strings one after the other are.
LEMMA CatFacts ==
    ASSUME NEW a \in Seq(Byte), NEW b \in Seq(Byte)
    PROVE  /\ a \o b \in Seq(Byte) /\ Len(a \o b) = Len(a) + Len(b)
           /\ Len(a) \in Nat /\ Len(b) \in Nat
           /\ \A i \in 1 .. Len(a) : (a \o b)[i] = a[i]
           /\ \A i \in 1 .. Len(b) : (a \o b)[Len(a) + i] = b[i]
  OBVIOUS

\* Byte strings of one length are equal when their bytes are.
LEMMA SameBytes ==
    ASSUME NEW a \in Seq(Byte), NEW b \in Seq(Byte), NEW n \in Nat, Len(a) = n, Len(b) = n,
           \A i \in 1 .. n : a[i] = b[i]
    PROVE  a = b
  OBVIOUS

\* A byte string is what a cut leaves on its two sides.
LEMMA CutAndJoin ==
    ASSUME NEW s \in Seq(Byte), NEW k \in 0 .. Len(s)
    PROVE  SubSeq(s, 1, k) \o SubSeq(s, k + 1, Len(s)) = s
  <1> DEFINE a == SubSeq(s, 1, k)
             b == SubSeq(s, k + 1, Len(s))
             n == Len(s)
  <1>1. n \in Nat /\ k \in Nat /\ k <= n /\ k + 1 \in 1 .. n + 1 /\ n \in 0 .. n
        /\ 1 \in 1 .. n + 1
    OBVIOUS
  <1>2. a \in Seq(Byte) /\ Len(a) = k /\ \A i \in 1 .. k : a[i] = s[i]
    BY <1>1, PieceFacts
  <1>3. b \in Seq(Byte) /\ Len(b) = n - k /\ \A i \in 1 .. n - k : b[i] = s[k + i]
    BY <1>1, PieceFacts
  <1> HIDE DEF a, b, n
  <1>4. /\ a \o b \in Seq(Byte) /\ Len(a \o b) = n
        /\ \A i \in 1 .. k : (a \o b)[i] = a[i]
        /\ \A i \in 1 .. n - k : (a \o b)[k + i] = b[i]
    <2>1. /\ a \o b \in Seq(Byte) /\ Len(a \o b) = Len(a) + Len(b)
          /\ \A i \in 1 .. Len(a) : (a \o b)[i] = a[i]
          /\ \A i \in 1 .. Len(b) : (a \o b)[Len(a) + i] = b[i]
      BY <1>2, <1>3, CatFacts
    <2>2. k + (n - k) = n
      BY <1>1
    <2> QED BY <1>2, <1>3, <2>1, <2>2, Zenon
  <1>5. ASSUME NEW i \in 1 .. n PROVE (a \o b)[i] = s[i]
    <2>1. CASE i <= k
      BY <1>1, <1>2, <1>4, <2>1
    <2>2. CASE i > k
      <3> DEFINE j == i - k
      <3>1. j \in 1 .. n - k /\ k + j = i
        BY <1>1, <2>2
      <3> HIDE DEF j
      <3>2. (a \o b)[k + j] = b[j] /\ b[j] = s[k + j]
        BY <1>3, <1>4, <3>1, Zenon
      <3> QED BY <3>1, <3>2, Zenon
    <2>3. i <= k \/ i > k
      BY <1>1
    <2> QED BY <2>1, <2>2, <2>3, Zenon
  <1> QED BY <1>1, <1>4, <1>5, SameBytes DEF a, b, n

\* The order in which byte strings are put together does not matter.
LEMMA CatAssociative ==
    ASSUME NEW a \in Seq(Byte), NEW b \in Seq(Byte), NEW c \in Seq(Byte)
    PROVE  (a \o b) \o c = a \o (b \o c)
  <1> DEFINE l == (a \o b) \o c
             r == a \o (b \o c)
             k == Len(a)
             m == Len(b)
             n == Len(c)
  <1>1. k \in Nat /\ m \in Nat /\ n \in Nat
    OBVIOUS
  <1>2. /\ a \o b \in Seq(Byte) /\ Len(a \o b) = k + m
        /\ \A i \in 1 .. k : (a \o b)[i] = a[i]
        /\ \A i \in 1 .. m : (a \o b)[k + i] = b[i]
    BY CatFacts
  <1>3. /\ b \o c \in Seq(Byte) /\ Len(b \o c) = m + n
        /\ \A i \in 1 .. m : (b \o c)[i] = b[i]
        /\ \A i \in 1 .. n : (b \o c)[m + i] = c[i]
    BY CatFacts
  <1>4. /\ l \in Seq(Byte) /\ Len(l) = (k + m) + n
        /\ \A i \in 1 .. k + m : l[i] = (a \o b)[i]
        /\ \A i \in 1 .. n : l[(k + m) + i] = c[i]
    BY <1>2, CatFacts
  <1>5. /\ r \in Seq(Byte) /\ Len(r) = k + (m + n)
        /\ \A i \in 1 .. k : r[i] = a[i]
        /\ \A i \in 1 .. m + n : r[k + i] = (b \o c)[i]
    BY <1>3, CatFacts
  <1> HIDE DEF l, r, k, m, n
  <1>6. ASSUME NEW i \in 1 .. k + m + n PROVE l[i] = r[i]
    <2>1. CASE i <= k
      <3>1. i \in 1 .. k /\ i \in 1 .. k + m
        BY <1>1, <2>1
      <3> QED BY <1>2, <1>4, <1>5, <3>1
    <2>2. CASE i > k /\ i <= k + m
      <3> DEFINE j == i - k
      <3>1. j \in 1 .. m /\ j \in 1 .. m + n /\ k + j \in 1 .. k + m /\ i = k + j
        BY <1>1, <2>2
      <3> HIDE DEF j
      <3>2. l[k + j] = (a \o b)[k + j] /\ (a \o b)[k + j] = b[j]
        BY <1>2, <1>4, <3>1
      <3>3. r[k + j] = (b \o c)[j] /\ (b \o c)[j] = b[j]
        BY <1>3, <1>5, <3>1
      <3> QED BY <3>1, <3>2, <3>3
    <2>3. CASE i > k + m
      <3> DEFINE j == i - (k + m)
      <3>1. j \in 1 .. n /\ m + j \in 1 .. m + n /\ i = (k + m) + j /\ i = k + (m + j)
        BY <1>1, <2>3
      <3> HIDE DEF j
      <3>2. l[(k + m) + j] = c[j]
        BY <1>4, <3>1
      <3>3. r[k + (m + j)] = (b \o c)[m + j] /\ (b \o c)[m + j] = c[j]
        BY <1>3, <1>5, <3>1
      <3> QED BY <3>1, <3>2, <3>3
    <2> QED BY <1>1, <2>1, <2>2, <2>3
  <1>7. Len(l) = k + m + n /\ Len(r) = k + m + n /\ k + m + n \in Nat
    BY <1>1, <1>4, <1>5
  <1> QED BY <1>4, <1>5, <1>6, <1>7, SameBytes DEF l, r

\* Concat(parts) is the last of the concatenations of the first parts.
LEMMA ConcatTable ==
    ASSUME NEW parts \in Seq(Seq(Byte))
    PROVE  \E f \in [0 .. Len(parts) -> Seq(Byte)] :
             /\ f[0] = <<>> /\ \A i \in 1 .. Len(parts) : f[i] = f[i - 1] \o parts[i]
             /\ Concat(parts) = f[Len(parts)]
  <1> DEFINE n == Len(parts)
             F(f) == [i \in 0 .. Len(parts) |-> IF i = 0 THEN <<>> ELSE f[i - 1] \o parts[i]]
             step == [i \in 1 .. n |-> [v \in Seq(Byte) |-> v \o parts[i]]]
             c == CHOOSE f : f = F(f)
  <1>1. n \in Nat /\ \A i \in 1 .. n : parts[i] \in Seq(Byte)
    OBVIOUS
  <1>2. Concat(parts) = c[n]
    BY Zenon DEF Concat, Fold
  <1> HIDE DEF n
  <1>3. step \in [1 .. n -> [Seq(Byte) -> Seq(Byte)]]
    <2>1. ASSUME NEW i \in 1 .. n, NEW v \in Seq(Byte) PROVE v \o parts[i] \in Seq(Byte)
      BY <1>1, CatFacts
    <2> QED BY <2>1
  <1>4. PICK g \in [0 .. n -> Seq(Byte)] : Table(g, n, <<>>, step)
    <2>1. <<>> \in Seq(Byte)
      OBVIOUS
    <2> HIDE DEF step
    <2> QED BY <1>1, <1>3, <2>1, TableExists
  <1>5. g[0] = <<>> /\ \A i \in 1 .. n : g[i] = g[i - 1] \o parts[i]
    <2>1. ASSUME NEW i \in 1 .. n PROVE g[i] = g[i - 1] \o parts[i]
      <3>1. g[i - 1] \in Seq(Byte)
        BY <1>1
      <3>2. step[i][g[i - 1]] = g[i - 1] \o parts[i]
        BY <3>1
      <3> QED BY <1>4, <3>2 DEF Table
    <2> QED BY <1>4, <2>1 DEF Table
  <1>6. \A f : F(f) = [i \in 0 .. n |-> IF i = 0 THEN <<>> ELSE f[i - 1] \o parts[i]]
    BY Zenon DEF n
  <1>7. g = F(g)
    <2>1. ASSUME NEW i \in 0 .. n
          PROVE  g[i] = IF i = 0 THEN <<>> ELSE g[i - 1] \o parts[i]
      <3>1. i = 0 \/ i \in 1 .. n
        BY <1>1
      <3> QED BY <1>5, <3>1, Zenon
    <2>2. g = [i \in 0 .. n |-> g[i]]
      OBVIOUS
    <2>3. g = [i \in 0 .. n |-> IF i = 0 THEN <<>> ELSE g[i - 1] \o parts[i]]
      BY <2>1, <2>2, Zenon
    <2> HIDE DEF F
    <2> QED BY <1>6, <2>3, Zenon
  <1>8. c = F(c)
    <2> HIDE DEF F
    <2> QED BY <1>7
  <1>9. c = [i \in 0 .. n |-> IF i = 0 THEN <<>> ELSE c[i - 1] \o parts[i]]
    <2> HIDE DEF F, c
    <2> QED BY <1>6, <1>8
  <1> HIDE DEF c
  <1>10. c[0] = <<>> /\ \A i \in 1 .. n : c[i] = c[i - 1] \o parts[i]
    <2> DEFINE e(i) == IF i = 0 THEN <<>> ELSE c[i - 1] \o parts[i]
    <2>1. \A i \in 0 .. n : c[i] = e(i)
      BY <1>9, Zenon
    <2>2. 0 \in 0 .. n /\ \A i \in 1 .. n : i \in 0 .. n /\ i # 0
      BY <1>1
    <2>3. e(0) = <<>> /\ \A i : i # 0 => e(i) = c[i - 1] \o parts[i]
      BY Zenon
    <2> HIDE DEF e
    <2> QED BY <2>1, <2>2, <2>3, Zenon
  <1> DEFINE T == {k \in 0 .. n : c[k] = g[k]}
  <1>11. \A k \in 0 .. n : k \in T
    <2>1. 0 \in T
      BY <1>1, <1>5, <1>10
    <2>2. ASSUME NEW k \in 0 .. n - 1, k \in T PROVE k + 1 \in T
      <3>1. k + 1 \in 1 .. n /\ k + 1 \in 0 .. n /\ (k + 1) - 1 = k /\ c[k] = g[k]
        BY <1>1, <2>2
      <3>2. c[k + 1] = c[k] \o parts[k + 1] /\ g[k + 1] = g[k] \o parts[k + 1]
        BY <1>5, <1>10, <3>1
      <3> QED BY <3>1, <3>2
    <2> HIDE DEF T
    <2> QED BY <1>1, <2>1, <2>2, UpTo
  <1>12. c[n] = g[n]
    BY <1>1, <1>11
  <1> QED BY <1>2, <1>5, <1>12 DEF n

\* No parts make the empty string, and one more part comes after the others.
LEMMA ConcatAppend ==
    /\ Concat(<<>>) = <<>>
    /\ \A parts \in Seq(Seq(Byte)), x \in Seq(Byte) :
         Concat(parts) \in Seq(Byte) /\ Concat(Append(parts, x)) = Concat(parts) \o x
  <1>1. Concat(<<>>) = <<>>
    <2>1. <<>> \in Seq(Seq(Byte)) /\ Len(<<>>) = 0
      OBVIOUS
    <2>2. PICK f : f[0] = <<>> /\ Concat(<<>>) = f[Len(<<>>)]
      BY <2>1, ConcatTable
    <2> QED BY <2>1, <2>2
  <1>2. ASSUME NEW parts \in Seq(Seq(Byte)), NEW x \in Seq(Byte)
        PROVE  Concat(parts) \in Seq(Byte) /\ Concat(Append(parts, x)) = Concat(parts) \o x
    <2> DEFINE n == Len(parts)
               more == Append(parts, x)
    <2>1. n \in Nat /\ more \in Seq(Seq(Byte)) /\ Len(more) = n + 1
          /\ more[n + 1] = x /\ \A i \in 1 .. n : more[i] = parts[i]
      OBVIOUS
    <2>6. n + 1 \in 1 .. n + 1 /\ (n + 1) - 1 = n
      BY <2>1
    <2>2. PICK f \in [0 .. n -> Seq(Byte)] :
             /\ f[0] = <<>> /\ \A i \in 1 .. n : f[i] = f[i - 1] \o parts[i]
             /\ Concat(parts) = f[n]
      BY ConcatTable
    <2> HIDE DEF n, more
    <2>3. PICK g \in [0 .. n + 1 -> Seq(Byte)] :
             /\ g[0] = <<>> /\ \A i \in 1 .. n + 1 : g[i] = g[i - 1] \o more[i]
             /\ Concat(more) = g[n + 1]
      BY <2>1, ConcatTable
    <2> DEFINE T == {k \in 0 .. n : g[k] = f[k]}
    <2>4. \A k \in 0 .. n : k \in T
      <3>1. 0 \in T
        BY <2>1, <2>2, <2>3
      <3>2. ASSUME NEW k \in 0 .. n - 1, k \in T PROVE k + 1 \in T
        <4>1. k + 1 \in 1 .. n /\ k + 1 \in 1 .. n + 1 /\ (k + 1) - 1 = k /\ g[k] = f[k]
          BY <2>1, <3>2
        <4>2. g[k + 1] = g[k] \o more[k + 1] /\ f[k + 1] = f[k] \o parts[k + 1]
              /\ more[k + 1] = parts[k + 1]
          BY <2>1, <2>2, <2>3, <4>1
        <4>3. g[k + 1] = f[k + 1]
          BY <4>1, <4>2, Zenon
        <4>4. k + 1 \in 0 .. n
          BY <4>1
        <4> QED BY <4>3, <4>4
      <3> HIDE DEF T
      <3> QED BY <2>1, <3>1, <3>2, UpTo
    <2>5. g[n] = f[n] /\ f[n] \in Seq(Byte)
      BY <2>1, <2>4
    <2>7. g[n + 1] = g[n] \o more[n + 1]
      BY <2>3, <2>6
    <2> QED BY <2>1, <2>2, <2>3, <2>5, <2>7 DEF more
  <1> QED BY <1>1, <1>2

-----------------------------------------------------------------------------
(* Buffer. *)

\* The two positions lie in the vector, the read position first.
GoodBuffer(b) ==
    /\ b \in [data : Seq(Byte), read_pos : Nat, write_pos : Nat]
    /\ b.read_pos <= b.write_pos /\ b.write_pos <= Len(b.data)

\* What the readable bytes of a buffer are.
LEMMA ContentsFacts ==
    ASSUME NEW b, GoodBuffer(b)
    PROVE  /\ Contents(b) \in Seq(Byte) /\ Len(Contents(b)) = Readable(b)
           /\ Readable(b) \in Nat /\ Readable(b) = b.write_pos - b.read_pos
           /\ \A i \in 1 .. Readable(b) : Contents(b)[i] = b.data[b.read_pos + i]
  <1> DEFINE s == b.data
             m == b.read_pos + 1
             n == b.write_pos
             c == SubSeq(s, m, n)
  <1>1. s \in Seq(Byte) /\ m \in 1 .. Len(s) + 1 /\ n \in 0 .. Len(s) /\ m <= n + 1
    BY DEF GoodBuffer
  <1>2. Readable(b) = n + 1 - m /\ Readable(b) \in Nat
        /\ Readable(b) = b.write_pos - b.read_pos
    BY DEF GoodBuffer, Readable
  <1>3. Contents(b) = c
    BY DEF Contents
  <1>4. \A i \in 1 .. Readable(b) : m + i - 1 = b.read_pos + i
    BY <1>2 DEF GoodBuffer
  <1> HIDE DEF m
  <1>5. c \in Seq(Byte) /\ Len(c) = n + 1 - m /\ \A i \in 1 .. n + 1 - m : c[i] = s[m + i - 1]
    <2> HIDE DEF s, n
    <2> QED BY <1>1, PieceFacts
  <1> HIDE DEF c
  <1>6. \A i \in 1 .. Readable(b) : c[i] = b.data[b.read_pos + i]
    <2> TAKE i \in 1 .. Readable(b)
    <2>1. c[i] = s[m + i - 1]
      BY <1>2, <1>5
    <2> QED BY <1>4, <2>1
  <1> QED BY <1>2, <1>3, <1>5, <1>6

\* Two good buffers with the same readable bytes have the same contents.
LEMMA SameContents ==
    ASSUME NEW b, GoodBuffer(b), NEW s \in Seq(Byte), Len(s) = Readable(b),
           \A i \in 1 .. Readable(b) : s[i] = b.data[b.read_pos + i]
    PROVE  Contents(b) = s
  <1> DEFINE c == Contents(b)
             n == Readable(b)
  <1>1. c \in Seq(Byte) /\ Len(c) = n /\ n \in Nat
        /\ \A i \in 1 .. n : c[i] = b.data[b.read_pos + i]
    BY ContentsFacts
  <1>2. \A i \in 1 .. n : c[i] = s[i]
    BY <1>1
  <1> HIDE DEF c, n
  <1>3. Len(s) = n
    BY DEF n
  <1>4. c = s
    BY <1>1, <1>2, <1>3, SameBytes
  <1> QED BY <1>4 DEF c

\* Retrieving takes the first readable bytes, and leaves the others.
LEMMA RetrieveFacts ==
    ASSUME NEW b, GoodBuffer(b), NEW len \in 0 .. Readable(b)
    PROVE  /\ GoodBuffer(Retrieve(b, len))
           /\ Contents(Retrieve(b, len)) = SubSeq(Contents(b), len + 1, Readable(b))
  <1> DEFINE a == Retrieve(b, len)
             s == Contents(b)
             n == Readable(b)
             t == SubSeq(s, len + 1, n)
  <1>1. s \in Seq(Byte) /\ Len(s) = n /\ n \in Nat /\ n = b.write_pos - b.read_pos
        /\ \A i \in 1 .. n : s[i] = b.data[b.read_pos + i]
    BY ContentsFacts
  <1>2. b.data \in Seq(Byte) /\ b.read_pos \in Nat /\ b.write_pos \in Nat /\ len \in Nat
        /\ b.read_pos <= b.write_pos /\ b.write_pos <= Len(b.data) /\ Len(b.data) \in Nat
    BY <1>1 DEF GoodBuffer
  <1>3. len \in 0 .. n
    OBVIOUS
  <1>4. t \in Seq(Byte) /\ Len(t) = n - len /\ \A i \in 1 .. n - len : t[i] = s[len + i]
    <2> HIDE DEF s, n
    <2>1. len + 1 \in 1 .. Len(s) + 1 /\ n \in 0 .. Len(s) /\ len + 1 <= n + 1
          /\ n + 1 - (len + 1) = n - len /\ \A i \in 1 .. n - len : (len + 1) + i - 1 = len + i
      BY <1>1, <1>2, <1>3
    <2>2. t \in Seq(Byte) /\ Len(t) = n + 1 - (len + 1)
          /\ \A i \in 1 .. n + 1 - (len + 1) : t[i] = s[(len + 1) + i - 1]
      BY <1>1, <2>1, PieceFacts
    <2> HIDE DEF t
    <2> QED BY <2>1, <2>2
  <1>5. CASE len < n
    <2>1. a = [data |-> b.data, read_pos |-> b.read_pos + len, write_pos |-> b.write_pos]
      BY <1>5 DEF Retrieve, GoodBuffer
    <2>2. a.data = b.data /\ a.read_pos = b.read_pos + len /\ a.write_pos = b.write_pos
      BY <2>1
    <2>3. GoodBuffer(a)
      BY <1>1, <1>2, <1>5, <2>1 DEF GoodBuffer
    <2>4. Readable(a) = n - len
      BY <1>1, <1>2, <2>2 DEF Readable
    <2> HIDE DEF a, s, n, t
    <2>5. \A i \in 1 .. Readable(a) : t[i] = a.data[a.read_pos + i]
      <3> TAKE i \in 1 .. Readable(a)
      <3>1. i \in 1 .. n - len /\ len + i \in 1 .. n /\ b.read_pos + (len + i) = (b.read_pos + len) + i
        BY <1>1, <1>2, <1>3, <2>4
      <3>2. t[i] = s[len + i] /\ s[len + i] = b.data[b.read_pos + (len + i)]
        BY <1>1, <1>4, <3>1
      <3> QED BY <2>2, <3>1, <3>2
    <2>6. Contents(a) = t
      BY <1>4, <2>3, <2>4, <2>5, SameContents
    <2> QED BY <2>3, <2>6 DEF a, s, n, t
  <1>6. CASE len = n
    <2>1. a = [data |-> b.data, read_pos |-> 0, write_pos |-> 0]
      <3>1. a = [b EXCEPT !.read_pos = 0, !.write_pos = 0]
        BY <1>1, <1>2, <1>6 DEF Retrieve
      <3>2. b \in [data : Seq(Byte), read_pos : Nat, write_pos : Nat]
        BY DEF GoodBuffer
      <3> HIDE DEF a
      <3> QED BY <3>1, <3>2
    <2>2. GoodBuffer(a)
      BY <1>2, <2>1 DEF GoodBuffer
    <2>3. Readable(a) = 0
      BY <2>1 DEF Readable
    <2> HIDE DEF a, s, n, t
    <2>4. Len(t) = 0
      BY <1>1, <1>4, <1>6
    <2>5. Contents(a) = t
      <3>1. \A i \in 1 .. Readable(a) : t[i] = a.data[a.read_pos + i]
        BY <2>3
      <3> QED BY <1>4, <2>2, <2>3, <2>4, <3>1, SameContents
    <2> QED BY <2>2, <2>5 DEF a, s, n, t
  <1>7. len < n \/ len = n
    BY <1>1, <1>3
  <1> QED BY <1>5, <1>6, <1>7

\* Making space keeps the contents, and makes the space.
LEMMA MakeSpaceFacts ==
    ASSUME NEW b, GoodBuffer(b), NEW len \in Nat
    PROVE  /\ GoodBuffer(MakeSpace(b, len))
           /\ Writeable(MakeSpace(b, len)) >= len
           /\ Contents(MakeSpace(b, len)) = Contents(b)
  <1> DEFINE a == MakeSpace(b, len)
             s == Contents(b)
             n == Readable(b)
             d == b.data
  <1>1. s \in Seq(Byte) /\ Len(s) = n /\ n \in Nat /\ n = b.write_pos - b.read_pos
        /\ \A i \in 1 .. n : s[i] = d[b.read_pos + i]
    BY ContentsFacts
  <1>2. d \in Seq(Byte) /\ b.read_pos \in Nat /\ b.write_pos \in Nat
        /\ b.read_pos <= b.write_pos /\ b.write_pos <= Len(d) /\ Len(d) \in Nat
        /\ DOMAIN d = 1 .. Len(d) /\ \A i \in 1 .. Len(d) : d[i] \in Byte
    BY <1>1 DEF GoodBuffer
  <1>3. 0 \in Byte
    BY ByteType
  <1>4. CASE Writeable(b) + b.read_pos < len
    <2> DEFINE m == b.write_pos + len
               e == [i \in 1 .. m |-> IF i <= Len(d) THEN d[i] ELSE 0]
    <2>1. a = [data |-> e, read_pos |-> b.read_pos, write_pos |-> b.write_pos]
      BY <1>4 DEF MakeSpace, GoodBuffer
    <2>2. m \in Nat /\ e \in [1 .. m -> Byte]
      BY <1>2, <1>3
    <2>3. e \in Seq(Byte) /\ Len(e) = m
      <3> HIDE DEF e, m
      <3> QED BY <2>2
    <2>4. \A i \in 1 .. b.write_pos : e[i] = d[i]
      BY <1>2
    <2> HIDE DEF e
    <2>5. a.data = e /\ a.read_pos = b.read_pos /\ a.write_pos = b.write_pos
      BY <2>1
    <2>6. GoodBuffer(a)
      BY <1>2, <2>1, <2>3 DEF GoodBuffer
    <2>7. Readable(a) = n /\ Writeable(a) >= len
      BY <1>1, <1>2, <2>3, <2>5 DEF Readable, Writeable
    <2> HIDE DEF a, s, n
    <2>8. \A i \in 1 .. Readable(a) : s[i] = a.data[a.read_pos + i]
      <3> TAKE i \in 1 .. Readable(a)
      <3>1. i \in 1 .. n /\ b.read_pos + i \in 1 .. b.write_pos
        BY <1>1, <1>2, <2>7
      <3> QED BY <1>1, <2>4, <2>5, <3>1
    <2>9. Contents(a) = s
      BY <1>1, <2>6, <2>7, <2>8, SameContents
    <2> QED BY <2>6, <2>7, <2>9 DEF a, s
  <1>5. CASE ~ (Writeable(b) + b.read_pos < len)
    <2> DEFINE e == [i \in DOMAIN d |-> IF i <= n THEN d[b.read_pos + i] ELSE d[i]]
    <2>1. a = [data |-> e, read_pos |-> 0, write_pos |-> n]
      BY <1>5 DEF MakeSpace
    <2>2. e \in [1 .. Len(d) -> Byte] /\ \A i \in 1 .. n : e[i] = d[b.read_pos + i]
      <3> HIDE DEF n
      <3>1. \A i \in 1 .. n : i \in 1 .. Len(d) /\ b.read_pos + i \in 1 .. Len(d)
        BY <1>1, <1>2
      <3> HIDE DEF d
      <3> QED BY <1>1, <1>2, <3>1
    <2>3. e \in Seq(Byte) /\ Len(e) = Len(d)
      <3> HIDE DEF e, d
      <3> QED BY <1>2, <2>2
    <2> HIDE DEF e
    <2>4. a.data = e /\ a.read_pos = 0 /\ a.write_pos = n
      BY <2>1
    <2>5. GoodBuffer(a)
      <3> HIDE DEF n
      <3> QED BY <1>1, <1>2, <2>1, <2>3 DEF GoodBuffer
    <2>6. Readable(a) = n
      BY <1>1, <2>4 DEF Readable
    <2>7. Writeable(a) >= len
      <3>1. Writeable(a) = Len(d) - n /\ Writeable(b) = Len(d) - b.write_pos
        BY <2>3, <2>4 DEF Writeable
      <3> HIDE DEF n, d, a
      <3> QED BY <1>1, <1>2, <1>5, <3>1
    <2> HIDE DEF a, s, n
    <2>8. \A i \in 1 .. Readable(a) : s[i] = a.data[a.read_pos + i]
      <3> TAKE i \in 1 .. Readable(a)
      <3>1. i \in 1 .. n /\ 0 + i = i
        BY <1>1, <2>6
      <3> QED BY <1>1, <2>2, <2>4, <3>1
    <2>9. Contents(a) = s
      BY <1>1, <2>5, <2>6, <2>8, SameContents
    <2> QED BY <2>5, <2>7, <2>9 DEF a, s
  <1> QED BY <1>4, <1>5

\* Appended bytes come after the contents, wherever the buffer puts them.
LEMMA AppendFacts ==
    ASSUME NEW b, GoodBuffer(b), NEW bytes \in Seq(Byte)
    PROVE  /\ GoodBuffer(AppendBytes(b, bytes))
           /\ Contents(AppendBytes(b, bytes)) = Contents(b) \o bytes
  <1> DEFINE len == Len(bytes)
             room == IF Writeable(b) >= len THEN b ELSE MakeSpace(b, len)
             a == AppendBytes(b, bytes)
             d == room.data
             w == room.write_pos
             e == [i \in DOMAIN d |-> IF i \in w + 1 .. w + len THEN bytes[i - w] ELSE d[i]]
             s == Contents(b)
             n == Readable(room)
             t == s \o bytes
  <1>1. len \in Nat /\ \A i \in 1 .. len : bytes[i] \in Byte
    OBVIOUS
  <1>2. GoodBuffer(room) /\ Contents(room) = s /\ Writeable(room) >= len
    <2>1. CASE Writeable(b) >= len
      BY <2>1
    <2>2. CASE ~ (Writeable(b) >= len)
      <3>1. room = MakeSpace(b, len)
        BY <2>2
      <3> HIDE DEF room, len
      <3> QED BY <1>1, <3>1, MakeSpaceFacts
    <2> QED BY <2>1, <2>2
  <1>3. a = [room EXCEPT !.data = e, !.write_pos = w + len]
    BY Zenon DEF AppendBytes
  <1> HIDE DEF room, len
  <1>4. s \in Seq(Byte) /\ Len(s) = n /\ n \in Nat /\ n = w - room.read_pos
        /\ \A i \in 1 .. n : s[i] = d[room.read_pos + i]
    BY <1>2, ContentsFacts
  <1>5. d \in Seq(Byte) /\ room.read_pos \in Nat /\ w \in Nat
        /\ room.read_pos <= w /\ w + len <= Len(d) /\ Len(d) \in Nat
        /\ DOMAIN d = 1 .. Len(d) /\ \A i \in 1 .. Len(d) : d[i] \in Byte
    BY <1>1, <1>2 DEF GoodBuffer, Writeable
  <1>6. a = [data |-> e, read_pos |-> room.read_pos, write_pos |-> w + len]
    <2> HIDE DEF e, a
    <2>1. room \in [data : Seq(Byte), read_pos : Nat, write_pos : Nat]
      BY <1>2 DEF GoodBuffer
    <2> QED BY <1>3, <2>1
  <1> HIDE DEF d, w, a
  <1>7. e \in [1 .. Len(d) -> Byte] /\ (\A i \in 1 .. w : e[i] = d[i])
        /\ \A i \in 1 .. len : e[w + i] = bytes[i]
    <2>1. ASSUME NEW i \in 1 .. Len(d) PROVE e[i] \in Byte
      <3>1. CASE i \in w + 1 .. w + len
        <4>1. i - w \in 1 .. len
          BY <1>1, <1>5, <3>1
        <4> QED BY <1>1, <1>5, <3>1, <4>1
      <3>2. CASE i \notin w + 1 .. w + len
        BY <1>5, <3>2
      <3> QED BY <3>1, <3>2
    <2>2. ASSUME NEW i \in 1 .. w PROVE e[i] = d[i]
      <3>1. i \in 1 .. Len(d) /\ i \notin w + 1 .. w + len
        BY <1>1, <1>5
      <3> QED BY <1>5, <3>1
    <2>3. ASSUME NEW i \in 1 .. len PROVE e[w + i] = bytes[i]
      <3>1. w + i \in 1 .. Len(d) /\ w + i \in w + 1 .. w + len /\ (w + i) - w = i
        BY <1>1, <1>5
      <3> QED BY <1>5, <3>1
    <2>4. e \in [1 .. Len(d) -> Byte]
      BY <1>5, <2>1
    <2> QED BY <2>2, <2>3, <2>4
  <1> HIDE DEF e
  <1>8. e \in Seq(Byte) /\ Len(e) = Len(d)
    BY <1>5, <1>7
  <1>9. a.data = e /\ a.read_pos = room.read_pos /\ a.write_pos = w + len
    BY <1>6
  <1>10. GoodBuffer(a)
    BY <1>1, <1>5, <1>6, <1>8 DEF GoodBuffer
  <1> HIDE DEF s, n
  <1>11. Readable(a) = n + len
    BY <1>1, <1>4, <1>5, <1>9 DEF Readable
  <1>12. t \in Seq(Byte) /\ Len(t) = n + len /\ (\A i \in 1 .. n : t[i] = s[i])
         /\ \A i \in 1 .. len : t[n + i] = bytes[i]
    <2>1. /\ t \in Seq(Byte) /\ Len(t) = Len(s) + Len(bytes)
          /\ \A i \in 1 .. Len(s) : t[i] = s[i]
          /\ \A i \in 1 .. Len(bytes) : t[Len(s) + i] = bytes[i]
      BY <1>4, CatFacts
    <2> QED BY <1>4, <2>1, Zenon DEF len
  <1> HIDE DEF t
  <1>13. ASSUME NEW i \in 1 .. n + len PROVE t[i] = a.data[a.read_pos + i]
    <2>1. CASE i <= n
      <3>1. i \in 1 .. n /\ room.read_pos + i \in 1 .. w
        BY <1>1, <1>4, <1>5, <2>1
      <3> QED BY <1>4, <1>7, <1>9, <1>12, <3>1
    <2>2. CASE i > n
      <3> DEFINE j == i - n
                 r == room.read_pos
      <3>4. r \in Nat /\ w \in Nat /\ n \in Nat /\ n = w - r
        BY <1>4, <1>5
      <3> HIDE DEF r
      <3>5. j \in 1 .. len /\ i = n + j /\ r + i = w + j
        BY <1>1, <2>2, <3>4
      <3> HIDE DEF j
      <3>1. j \in 1 .. len /\ i = n + j /\ room.read_pos + i = w + j
        BY <3>5 DEF r
      <3>2. t[i] = bytes[j]
        BY <1>12, <3>1
      <3>3. e[room.read_pos + i] = bytes[j]
        BY <1>7, <3>1
      <3> QED BY <1>9, <3>2, <3>3
    <2>3. i <= n \/ i > n
      BY <1>1, <1>4
    <2> QED BY <2>1, <2>2, <2>3
  <1>14. Contents(a) = t
    BY <1>10, <1>11, <1>12, <1>13, SameContents
  <1> QED BY <1>10, <1>14 DEF a, t, s

-----------------------------------------------------------------------------
(* Codec. *)

\* The widths of the integers, and what fits them.
LEMMA WidthFacts ==
    /\ W16 \in Nat /\ W32 \in Nat /\ W64 \in Nat /\ W64 = W32 + W32
    /\ W16 > 0 /\ W32 > W16
    /\ Max16 = Power(W16) - 1 /\ Max32 = Power(W32) - 1 /\ Max64 = Power(W64) - 1
    /\ Power(W16) \in Nat /\ Power(W32) \in Nat /\ Power(W64) \in Nat
    /\ Max16 \in Nat /\ Max32 \in Nat /\ Max64 \in Nat
  <1>1. W16 \in Nat /\ W32 \in Nat /\ W16 > 0 /\ W32 > W16
    BY BytesAssumption
  <1>2. W64 \in Nat /\ W64 = W32 + W32
    BY <1>1 DEF W64
  <1>3. /\ Power(W16) \in Nat /\ Power(W32) \in Nat /\ Power(W64) \in Nat
        /\ Power(W16) > 0 /\ Power(W32) > 0 /\ Power(W64) > 0
    BY <1>1, <1>2, PowerLaws
  <1> QED BY <1>1, <1>2, <1>3 DEF Max16, Max32, Max64

\* The numbers of the three widths are naturals.
LEMMA WidthTypes ==
    /\ W16 \in Nat /\ W32 \in Nat /\ W64 \in Nat
    /\ Max16 \in Nat /\ Max32 \in Nat /\ Max64 \in Nat
  BY WidthFacts, Zenon

\* Neighbouring pieces of a byte string make a piece.
LEMMA PiecesJoin ==
    ASSUME NEW s \in Seq(Byte), NEW m \in 1 .. Len(s) + 1, NEW k \in 0 .. Len(s),
           NEW n \in 0 .. Len(s), m <= k + 1, k <= n
    PROVE  SubSeq(s, m, k) \o SubSeq(s, k + 1, n) = SubSeq(s, m, n)
  <1> DEFINE a == SubSeq(s, m, k)
             b == SubSeq(s, k + 1, n)
             c == SubSeq(s, m, n)
             p == k + 1 - m
             q == n - k
  <1>1. p \in Nat /\ q \in Nat /\ p + q = n + 1 - m /\ k + 1 \in 1 .. Len(s) + 1 /\ k + 1 <= n + 1
        /\ m <= n + 1 /\ n + 1 - (k + 1) = q /\ m \in Nat /\ k \in Nat /\ n \in Nat
    OBVIOUS
  <1>2. a \in Seq(Byte) /\ Len(a) = p /\ \A i \in 1 .. p : a[i] = s[m + i - 1]
    BY PieceFacts
  <1>3. b \in Seq(Byte) /\ Len(b) = n + 1 - (k + 1)
        /\ \A i \in 1 .. n + 1 - (k + 1) : b[i] = s[(k + 1) + i - 1]
    BY <1>1, PieceFacts
  <1>4. c \in Seq(Byte) /\ Len(c) = n + 1 - m /\ \A i \in 1 .. n + 1 - m : c[i] = s[m + i - 1]
    BY <1>1, PieceFacts
  <1> HIDE DEF a, b, c
  <1>5. /\ a \o b \in Seq(Byte) /\ Len(a \o b) = Len(a) + Len(b)
        /\ \A i \in 1 .. Len(a) : (a \o b)[i] = a[i]
        /\ \A i \in 1 .. Len(b) : (a \o b)[Len(a) + i] = b[i]
    BY <1>2, <1>3, CatFacts
  <1>6. Len(b) = q /\ Len(c) = p + q
    BY <1>1, <1>3, <1>4
  <1>7. Len(a \o b) = p + q
    BY <1>2, <1>5, <1>6
  <1>8. (\A i \in 1 .. p : (a \o b)[i] = a[i]) /\ \A i \in 1 .. q : (a \o b)[p + i] = b[i]
    BY <1>2, <1>5, <1>6, Zenon
  <1>9. ASSUME NEW i \in 1 .. p + q PROVE (a \o b)[i] = c[i]
    <2>1. CASE i <= p
      <3>1. i \in 1 .. p /\ i \in 1 .. n + 1 - m
        BY <1>1, <2>1
      <3> QED BY <1>2, <1>4, <1>8, <3>1
    <2>2. CASE i > p
      <3> DEFINE j == i - p
      <3>1. j \in 1 .. q /\ j \in 1 .. n + 1 - (k + 1) /\ i = p + j /\ i \in 1 .. n + 1 - m
            /\ (k + 1) + j - 1 = m + i - 1
        BY <1>1, <2>2
      <3> HIDE DEF j
      <3>2. (a \o b)[p + j] = b[j] /\ b[j] = s[(k + 1) + j - 1] /\ c[i] = s[m + i - 1]
        BY <1>3, <1>4, <1>8, <3>1
      <3> QED BY <3>1, <3>2, Zenon
    <2>3. i <= p \/ i > p
      BY <1>1
    <2> QED BY <2>1, <2>2, <2>3, Zenon
  <1>10. p + q \in Nat
    BY <1>1
  <1>11. a \o b = c
    <2> DEFINE x == a \o b
    <2> HIDE DEF x, p, q
    <2> QED BY <1>4, <1>5, <1>6, <1>7, <1>9, <1>10, SameBytes DEF x
  <1> QED BY <1>11 DEF a, b, c

\* A field that is there holds a number of its width, whose bytes it is.
LEMMA FieldFacts ==
    ASSUME NEW s \in Seq(Byte), NEW o \in Nat, NEW w \in Nat, o + w <= Len(s)
    PROVE  /\ Field(s, o, w) \in 0 .. Power(w) - 1
           /\ Bytes(Field(s, o, w), w) = SubSeq(s, o + 1, o + w)
  <1> DEFINE t == SubSeq(s, o + 1, o + w)
  <1>1. o + 1 \in 1 .. Len(s) + 1 /\ o + w \in 0 .. Len(s) /\ o + 1 <= o + w + 1
        /\ o + w + 1 - (o + 1) = w
    OBVIOUS
  <1>2. t \in Seq(Byte) /\ Len(t) = o + w + 1 - (o + 1)
    BY <1>1, PieceFacts
  <1>3. t \in Seq(Byte) /\ Len(t) = w
    BY <1>1, <1>2
  <1>4. Field(s, o, w) = Value(t)
    BY DEF Field
  <1> HIDE DEF t
  <1>5. Value(t) \in 0 .. Power(Len(t)) - 1 /\ Bytes(Value(t), Len(t)) = t
    BY <1>3, BytesOfValue
  <1>6. Value(t) \in 0 .. Power(w) - 1 /\ Bytes(Value(t), w) = t
    BY <1>3, <1>5, Zenon
  <1> QED BY <1>4, <1>6 DEF t

\* The frames a decoder can hand out.
Frame == [type : 0 .. Max16, payload : Seq(Byte)]

\* A frame in the buffer is the one its first bytes encode.
LEMMA NextFrameFacts ==
    ASSUME NEW b, GoodBuffer(b), HasLength(b), LegalLength(b), HasFrame(b)
    PROVE  /\ FrameLength(b) \in Nat /\ W32 + FrameLength(b) \in 0 .. Readable(b)
           /\ NextFrame(b) \in Frame
           /\ EncodeFrame(NextFrame(b)) = {SubSeq(Contents(b), 1, W32 + FrameLength(b))}
  <1> DEFINE c == Contents(b)
             n == Readable(b)
             l == FrameLength(b)
             t == Field(c, W32, W16)
             p == SubSeq(c, W32 + W16 + 1, W32 + l)
             k == W32 + W16
  <1>1. c \in Seq(Byte) /\ Len(c) = n /\ n \in Nat
    BY ContentsFacts
  <1>2. n >= W32
    BY DEF HasLength
  <1>3. l = Field(c, 0, W32)
    BY DEF FrameLength
  <1>4. l \in MinFrame .. MaxFrame /\ n >= W32 + l
    BY DEF LegalLength, HasFrame
  <1>5. MinFrame = W16 /\ MaxFrame \in W16 .. Max32
    BY FramingAssumption DEF MinFrame
  <1>6. NextFrame(b) = [type |-> t, payload |-> p]
    BY DEF NextFrame
  <1> HIDE DEF c, n, l
  <1>7. l \in Nat /\ W16 <= l /\ l <= MaxFrame /\ MaxFrame \in Nat
    BY <1>4, <1>5, WidthFacts
  <1>8. k \in Nat /\ k <= n /\ k <= W32 + l /\ W32 + l <= n /\ 0 + W32 = W32
    BY <1>1, <1>4, <1>7, WidthFacts
  <1>9. Bytes(l, W32) = SubSeq(c, 1, W32)
    <2> DEFINE o == 0
               w == W32
    <2>1. o + 1 = 1 /\ o + w = W32 /\ l = Field(c, o, w)
      BY <1>3, WidthFacts
    <2>2. o \in Nat /\ w \in Nat /\ o + w <= Len(c)
      BY <1>1, <1>2, WidthFacts
    <2> HIDE DEF o, w
    <2>3. Bytes(Field(c, o, w), w) = SubSeq(c, o + 1, o + w)
      BY <1>1, <2>2, FieldFacts
    <2> QED BY <2>1, <2>3 DEF w
  <1>10. t \in 0 .. Max16 /\ Bytes(t, W16) = SubSeq(c, W32 + 1, k)
    <2>1. W32 + W16 <= Len(c)
      BY <1>1, <1>8
    <2>2. t \in 0 .. Power(W16) - 1 /\ Bytes(t, W16) = SubSeq(c, W32 + 1, W32 + W16)
      BY <1>1, <2>1, WidthFacts, FieldFacts, ZenonT(60)
    <2> QED BY <2>2, WidthFacts
  <1> HIDE DEF t
  <1>11. p \in Seq(Byte) /\ Len(p) = l - W16
    <2>1. k + 1 \in 1 .. Len(c) + 1 /\ W32 + l \in 0 .. Len(c) /\ k + 1 <= W32 + l + 1
          /\ W32 + l + 1 - (k + 1) = l - W16
      BY <1>1, <1>7, <1>8, WidthFacts
    <2>2. p \in Seq(Byte) /\ Len(p) = W32 + l + 1 - (k + 1)
      BY <1>1, <2>1, PieceFacts
    <2> QED BY <2>1, <2>2
  <1>12. (SubSeq(c, 1, W32) \o SubSeq(c, W32 + 1, k)) \o p = SubSeq(c, 1, W32 + l)
    <2>1. /\ 1 \in 1 .. Len(c) + 1 /\ W32 \in 0 .. Len(c) /\ k \in 0 .. Len(c)
          /\ W32 + l \in 0 .. Len(c) /\ 1 <= W32 + 1 /\ W32 <= k /\ 1 <= k + 1 /\ k <= W32 + l
      BY <1>1, <1>2, <1>7, <1>8, WidthFacts
    <2> HIDE DEF k
    <2>2. SubSeq(c, 1, W32) \o SubSeq(c, W32 + 1, k) = SubSeq(c, 1, k)
      BY <1>1, <2>1, PiecesJoin
    <2>3. SubSeq(c, 1, k) \o SubSeq(c, k + 1, W32 + l) = SubSeq(c, 1, W32 + l)
      BY <1>1, <2>1, PiecesJoin
    <2>4. p = SubSeq(c, k + 1, W32 + l)
      BY DEF k
    <2> QED BY <2>2, <2>3, <2>4
  <1> HIDE DEF p
  <1>13. W16 + Len(p) = l /\ Len(p) <= MaxFrame - W16
    BY <1>7, <1>11, WidthFacts
  <1>14. EncodeFrame([type |-> t, payload |-> p])
           = {(Bytes(l, W32) \o Bytes(t, W16)) \o p}
    BY <1>13 DEF EncodeFrame, If
  <1>15. EncodeFrame(NextFrame(b)) = {SubSeq(c, 1, W32 + l)}
    BY <1>6, <1>9, <1>10, <1>12, <1>14, Zenon
  <1>16. NextFrame(b) \in Frame
    BY <1>6, <1>10, <1>11 DEF Frame
  <1>17. W32 + l \in 0 .. n
    BY <1>1, <1>7, <1>8, WidthFacts
  <1> QED BY <1>7, <1>15, <1>16, <1>17 DEF c, n, l

\* The decoder waits only when no frame begins the buffer.
Waits(b) == HasLength(b) => LegalLength(b) /\ ~HasFrame(b)

\* A decoder that waits has no frame it could hand out: no first bytes of
\* the buffer are those of a frame.
LEMMA WaitsFacts ==
    ASSUME NEW b, GoodBuffer(b), Waits(b), NEW i \in 0 .. Readable(b), NEW type \in 0 .. Max16
    PROVE  EncodeFrame([type |-> type, payload |-> SubSeq(Contents(b), W32 + W16 + 1, i)])
             # {SubSeq(Contents(b), 1, i)}
  <1> DEFINE c == Contents(b)
             n == Readable(b)
             p == SubSeq(c, W32 + W16 + 1, i)
             x == SubSeq(c, 1, i)
             f == [type |-> type, payload |-> p]
             k == W32 + W16
  <1> SUFFICES ASSUME EncodeFrame(f) = {x} PROVE FALSE
    OBVIOUS
  <1>1. c \in Seq(Byte) /\ Len(c) = n /\ n \in Nat
    BY ContentsFacts
  <1>2. i \in Nat /\ i <= n /\ k \in Nat /\ type \in Nat
    BY <1>1, WidthFacts
  <1> HIDE DEF c, n
  <1>3. x \in Seq(Byte) /\ Len(x) = i /\ \A j \in 1 .. i : x[j] = c[j]
    <2>1. 1 \in 1 .. Len(c) + 1 /\ i \in 0 .. Len(c) /\ 1 <= i + 1 /\ i + 1 - 1 = i
          /\ \A j \in 1 .. i : 1 + j - 1 = j
      BY <1>1, <1>2
    <2>2. x \in Seq(Byte) /\ Len(x) = i + 1 - 1 /\ \A j \in 1 .. i + 1 - 1 : x[j] = c[1 + j - 1]
      BY <1>1, <2>1, PieceFacts
    <2> HIDE DEF x
    <2> QED BY <2>1, <2>2
  <1>4. p \in Seq(Byte) /\ Len(p) = IF k <= i THEN i - k ELSE 0
    <2>1. CASE k <= i
      <3>1. k + 1 \in 1 .. Len(c) + 1 /\ i \in 0 .. Len(c) /\ k + 1 <= i + 1
            /\ i + 1 - (k + 1) = i - k
        BY <1>1, <1>2, <2>1
      <3>2. p \in Seq(Byte) /\ Len(p) = i + 1 - (k + 1)
        BY <1>1, <3>1, PieceFacts
      <3> QED BY <2>1, <3>1, <3>2
    <2>2. CASE ~ (k <= i)
      <3>1. p = <<>>
        <4>1. W32 + W16 + 1 > i
          BY <1>2, <2>2
        <4> QED BY <1>1, <1>2, <4>1
      <3>2. <<>> \in Seq(Byte) /\ Len(<<>>) = 0
        OBVIOUS
      <3> HIDE DEF p
      <3> QED BY <2>2, <3>1, <3>2
    <2> QED BY <2>1, <2>2
  <1>5. Len(p) \in Nat
    BY <1>4
  <1> HIDE DEF p
  <1> DEFINE lp == Len(p)
             h == W16 + lp
             y == (Bytes(h, W32) \o Bytes(type, W16)) \o p
  <1>6. lp <= MaxFrame - W16 /\ x = y
    BY DEF EncodeFrame, If
  <1>7. h \in Nat /\ h <= Max32 /\ h \in 0 .. Power(W32) - 1
    <2>1. lp \in Nat
      BY <1>5
    <2> HIDE DEF lp
    <2>2. MaxFrame \in Int /\ MaxFrame <= Max32
      BY FramingAssumption, WidthFacts
    <2> QED BY <1>6, <2>1, <2>2, WidthFacts
  <1> HIDE DEF h
  <1>8. /\ Bytes(h, W32) \in Seq(Byte) /\ Len(Bytes(h, W32)) = W32
        /\ Bytes(type, W16) \in Seq(Byte) /\ Len(Bytes(type, W16)) = W16
    BY <1>2, <1>7, WidthFacts, BytesFacts
  <1> DEFINE u == Bytes(h, W32)
             v == Bytes(type, W16)
             z == v \o p
  <1> HIDE DEF u, v
  <1>9. y = u \o z
    BY <1>4, <1>8, CatAssociative DEF u, v
  <1>10. z \in Seq(Byte) /\ Len(z) = Len(v) + Len(p)
    BY <1>4, <1>8, CatFacts DEF v
  <1> HIDE DEF y, z
  <1>11. Len(u \o z) = Len(u) + Len(z) /\ \A j \in 1 .. Len(u) : (u \o z)[j] = u[j]
    BY <1>8, <1>10, CatFacts DEF u
  <1>12. Len(u) = W32 /\ Len(v) = W16 /\ u \in Seq(Byte)
    BY <1>8 DEF u, v
  <1>13. x = u \o z
    BY <1>6, <1>9
  <1>14. i = W32 + (W16 + Len(p))
    BY <1>3, <1>10, <1>11, <1>12, <1>13
  <1>15. i = W32 + h /\ k <= i /\ W32 <= i
    <2>1. lp \in Nat /\ i = W32 + (W16 + lp)
      BY <1>5, <1>14
    <2> HIDE DEF lp
    <2> QED BY <2>1, WidthFacts DEF h
  <1>16. SubSeq(c, 1, W32) = u
    <2> DEFINE q == SubSeq(c, 1, W32)
    <2>1. 1 \in 1 .. Len(c) + 1 /\ W32 \in 0 .. Len(c) /\ 1 <= W32 + 1 /\ W32 + 1 - 1 = W32
          /\ \A j \in 1 .. W32 : 1 + j - 1 = j /\ j \in 1 .. i
      <3>1. W32 \in Nat /\ W32 <= i /\ W32 <= Len(c) /\ Len(c) \in Nat
        BY <1>1, <1>2, <1>15, WidthFacts
      <3> QED BY <1>2, <3>1
    <2>2. q \in Seq(Byte) /\ Len(q) = W32 + 1 - 1 /\ \A j \in 1 .. W32 + 1 - 1 : q[j] = c[1 + j - 1]
      BY <1>1, <2>1, PieceFacts
    <2> HIDE DEF q, x
    <2>3. q \in Seq(Byte) /\ Len(q) = W32 /\ \A j \in 1 .. W32 : q[j] = c[j]
      BY <2>1, <2>2
    <2>4. \A j \in 1 .. W32 : (u \o z)[j] = u[j]
      BY <1>11, <1>12, Zenon
    <2>5. \A j \in 1 .. W32 : q[j] = u[j]
      BY <1>3, <1>13, <2>1, <2>3, <2>4, Zenon
    <2>6. q = u
      BY <1>12, <2>3, <2>5, WidthFacts, SameBytes
    <2> QED BY <2>6 DEF q
  <1>17. FrameLength(b) = h
    <2>1. 0 + 1 = 1 /\ 0 + W32 = W32
      BY WidthFacts
    <2>2. Value(Bytes(h, W32)) = h
      BY <1>7, WidthFacts, ValueOfBytes
    <2>3. FrameLength(b) = Value(SubSeq(c, 0 + 1, 0 + W32))
      BY DEF FrameLength, Field, c
    <2> QED BY <1>16, <2>1, <2>2, <2>3 DEF u
  <1>18. n >= W32 /\ n >= W32 + h
    BY <1>1, <1>2, <1>7, <1>15, WidthFacts
  <1> QED BY <1>17, <1>18 DEF Waits, HasLength, HasFrame, n

-----------------------------------------------------------------------------
(* The stream. *)

\* The bytes of the frames that were delivered.
FrameBytes(frame) == CHOOSE bytes \in EncodeFrame(frame) : TRUE
Frames(frames) == [i \in DOMAIN frames |-> FrameBytes(frames[i])]

\* The type invariant of the stream.
FramingType ==
    /\ GoodBuffer(buffer)
    /\ pc \in {"read", "append", "decode", "closed", "failed"}
    /\ received \in Seq(Byte)
    /\ delivered \in Seq(Frame)

\* Every frame delivered has its bytes.
Encodable(frames) ==
    \A i \in DOMAIN frames : FrameBytes(frames[i]) \in Seq(Byte) /\ EncodeFrame(frames[i]) # {}

\* The inductive invariant of the stream.
FramingInv ==
    /\ FramingType
    /\ Encodable(delivered)
    /\ Concat(Frames(delivered)) \o Contents(buffer) = received
    /\ pc = "read" => Waits(buffer)
    /\ pc = "closed" => refused \/ ~LegalLength(buffer)

\* The frames delivered have byte strings.
LEMMA FramesType ==
    ASSUME NEW d \in Seq(Frame), Encodable(d)
    PROVE  Frames(d) \in Seq(Seq(Byte)) /\ Len(Frames(d)) = Len(d)
  <1>1. DOMAIN d = 1 .. Len(d) /\ Len(d) \in Nat
    OBVIOUS
  <1>2. Frames(d) \in [1 .. Len(d) -> Seq(Byte)]
    BY <1>1 DEF Frames, Encodable
  <1> QED BY <1>1, <1>2

\* One more frame adds its bytes.
LEMMA FramesAppend ==
    ASSUME NEW d \in Seq(Frame), Encodable(d), NEW f \in Frame, NEW x \in Seq(Byte),
           EncodeFrame(f) = {x}
    PROVE  /\ Append(d, f) \in Seq(Frame) /\ Encodable(Append(d, f))
           /\ Concat(Frames(Append(d, f))) = Concat(Frames(d)) \o x
           /\ Concat(Frames(d)) \in Seq(Byte)
  <1> DEFINE e == Append(d, f)
             n == Len(d)
  <1>1. n \in Nat /\ DOMAIN d = 1 .. n
    OBVIOUS
  <1>2. e \in Seq(Frame) /\ Len(e) = n + 1 /\ DOMAIN e = 1 .. n + 1
        /\ e[n + 1] = f /\ \A i \in 1 .. n : e[i] = d[i]
    OBVIOUS
  <1> HIDE DEF e, n
  <1>3. FrameBytes(f) = x
    BY DEF FrameBytes
  <1>4. ASSUME NEW i \in 1 .. n + 1
        PROVE  FrameBytes(e[i]) \in Seq(Byte) /\ EncodeFrame(e[i]) # {}
    <2>1. CASE i \in 1 .. n
      BY <1>1, <1>2, <2>1 DEF Encodable
    <2>2. CASE i = n + 1
      BY <1>2, <1>3, <2>2
    <2>3. i \in 1 .. n \/ i = n + 1
      BY <1>1
    <2> QED BY <2>1, <2>2, <2>3
  <1>5. Encodable(e)
    BY <1>2, <1>4 DEF Encodable
  <1>6. Frames(d) \in Seq(Seq(Byte)) /\ Len(Frames(d)) = n
    BY FramesType DEF n
  <1>7. Frames(e) \in Seq(Seq(Byte)) /\ Len(Frames(e)) = n + 1
    BY <1>2, <1>5, FramesType
  <1>8. Frames(e) = Append(Frames(d), x)
    <2> DEFINE g == Frames(d)
               h == Frames(e)
    <2>1. \A i \in 1 .. n : g[i] = FrameBytes(d[i])
      BY <1>1 DEF Frames
    <2>2. \A i \in 1 .. n + 1 : h[i] = FrameBytes(e[i])
      BY <1>2 DEF Frames
    <2> HIDE DEF g, h
    <2>3. g \in Seq(Seq(Byte)) /\ Len(g) = n /\ h \in Seq(Seq(Byte)) /\ Len(h) = n + 1
      BY <1>6, <1>7 DEF g, h
    <2>4. h[n + 1] = x
      <3>1. n + 1 \in 1 .. n + 1
        BY <1>1
      <3> QED BY <1>2, <1>3, <2>2, <3>1
    <2>5. \A i \in 1 .. n : h[i] = g[i]
      <3>1. \A i \in 1 .. n : i \in 1 .. n + 1
        BY <1>1
      <3> QED BY <1>2, <2>1, <2>2, <3>1
    <2>6. h = Append(g, x)
      BY <1>1, <2>3, <2>4, <2>5
    <2> QED BY <2>6 DEF g, h
  <1>9. Concat(Frames(e)) = Concat(Frames(d)) \o x /\ Concat(Frames(d)) \in Seq(Byte)
    BY <1>6, <1>8, ConcatAppend
  <1> QED BY <1>2, <1>5, <1>9 DEF e

\* The bytes of the frames are a byte string.
LEMMA FramesBytes ==
    ASSUME NEW d \in Seq(Frame), Encodable(d)
    PROVE  Concat(Frames(d)) \in Seq(Byte)
  <1>1. Frames(d) \in Seq(Seq(Byte))
    BY FramesType
  <1>2. <<>> \in Seq(Byte)
    OBVIOUS
  <1> QED BY <1>1, <1>2, ConcatAppend

\* Nothing is received, and nothing delivered, at the start.
LEMMA FramingInitInv == FramingInit => FramingInv
  <1> SUFFICES ASSUME FramingInit PROVE FramingInv
    OBVIOUS
  <1> DEFINE z == [i \in 1 .. InitialSize |-> 0]
  <1>1. buffer = [data |-> z, read_pos |-> 0, write_pos |-> 0] /\ pc = "read"
        /\ received = <<>> /\ delivered = <<>>
    BY DEF FramingInit
  <1>2. InitialSize \in Nat /\ 0 \in Byte
    BY FramingAssumption, ByteType
  <1>3. z \in Seq(Byte) /\ Len(z) = InitialSize
    BY <1>2
  <1> HIDE DEF z
  <1>4. GoodBuffer(buffer)
    BY <1>1, <1>2, <1>3 DEF GoodBuffer
  <1>5. Readable(buffer) = 0
    BY <1>1 DEF Readable
  <1>6. Contents(buffer) \in Seq(Byte) /\ Len(Contents(buffer)) = 0
    BY <1>4, <1>5, ContentsFacts
  <1>7. Contents(buffer) = <<>>
    BY <1>6
  <1>8. DOMAIN delivered = {} /\ received \in Seq(Byte) /\ delivered \in Seq(Frame)
    BY <1>1
  <1>9. Encodable(delivered)
    BY <1>8 DEF Encodable
  <1>10. Frames(delivered) = <<>>
    <2>1. Frames(delivered) \in Seq(Seq(Byte)) /\ Len(Frames(delivered)) = Len(delivered)
      BY <1>8, <1>9, FramesType
    <2>2. Len(delivered) = 0
      BY <1>1
    <2> QED BY <2>1, <2>2
  <1>11. Concat(Frames(delivered)) \o Contents(buffer) = received
    <2>1. <<>> \o <<>> = <<>>
      OBVIOUS
    <2> QED BY <1>1, <1>7, <1>10, <2>1, ConcatAppend
  <1>12. ~HasLength(buffer)
    BY <1>5, WidthFacts DEF HasLength
  <1> QED BY <1>1, <1>4, <1>8, <1>9, <1>11, <1>12 DEF FramingInv, FramingType, Waits

\* What is read comes after what was received, and after the contents.
LEMMA ReadInv ==
    ASSUME NEW bytes \in Seq(Byte), FramingInv, Read(bytes)
    PROVE  FramingInv'
  <1> DEFINE d == Concat(Frames(delivered))
             c == Contents(buffer)
  <1>1. /\ FramingType /\ Encodable(delivered) /\ d \o c = received
        /\ GoodBuffer(buffer) /\ received \in Seq(Byte) /\ delivered \in Seq(Frame)
    BY DEF FramingInv, FramingType
  <1>2. buffer' = AppendBytes(buffer, bytes) /\ received' = received \o bytes
        /\ pc' = "append" /\ delivered' = delivered
    BY DEF Read
  <1>3. d \in Seq(Byte) /\ c \in Seq(Byte)
    BY <1>1, FramesBytes, ContentsFacts
  <1>4. GoodBuffer(buffer') /\ Contents(buffer') = c \o bytes
    BY <1>1, <1>2, AppendFacts
  <1> HIDE DEF c
  <1>5. (d \o c) \o bytes = d \o (c \o bytes)
    <2> HIDE DEF d
    <2> QED BY <1>3, CatAssociative
  <1>6. received' \in Seq(Byte)
    BY <1>1, <1>2, CatFacts
  <1>7. Concat(Frames(delivered')) \o Contents(buffer') = received'
    BY <1>1, <1>2, <1>4, <1>5
  <1> QED BY <1>1, <1>2, <1>4, <1>6, <1>7 DEF FramingInv, FramingType

\* A frame moves from the front of the contents to the end of the frames.
LEMMA DecodeFrameInv ==
    ASSUME FramingInv, DecodeFrame
    PROVE  FramingInv'
  <1> DEFINE d == Concat(Frames(delivered))
             c == Contents(buffer)
             f == NextFrame(buffer)
             n == Readable(buffer)
             k == W32 + FrameLength(buffer)
             x == SubSeq(c, 1, k)
             r == SubSeq(c, k + 1, n)
  <1>1. /\ FramingType /\ Encodable(delivered) /\ d \o c = received
        /\ GoodBuffer(buffer) /\ received \in Seq(Byte) /\ delivered \in Seq(Frame)
    BY DEF FramingInv, FramingType
  <1>2. /\ HasLength(buffer) /\ LegalLength(buffer) /\ HasFrame(buffer)
        /\ delivered' = Append(delivered, f) /\ buffer' = Retrieve(buffer, k)
        /\ pc' = (IF refused' THEN "closed" ELSE "decode") /\ received' = received
    BY DEF DecodeFrame
  <1>3. k \in 0 .. n /\ f \in Frame /\ EncodeFrame(f) = {x}
    BY <1>1, <1>2, NextFrameFacts
  <1>4. c \in Seq(Byte) /\ Len(c) = n /\ n \in Nat
    BY <1>1, ContentsFacts
  <1>5. GoodBuffer(buffer') /\ Contents(buffer') = r
    BY <1>1, <1>2, <1>3, RetrieveFacts
  <1> HIDE DEF c, f, n, k
  <1>6. x \o r = c
    BY <1>3, <1>4, CutAndJoin
  <1>7. x \in Seq(Byte) /\ r \in Seq(Byte)
    BY <1>3, <1>4, PieceFacts
  <1> HIDE DEF x, r
  <1>8. /\ delivered' \in Seq(Frame) /\ Encodable(delivered')
        /\ Concat(Frames(delivered')) = d \o x /\ d \in Seq(Byte)
    BY <1>1, <1>2, <1>3, <1>7, FramesAppend
  <1> HIDE DEF d
  <1>9. (d \o x) \o r = d \o (x \o r)
    BY <1>7, <1>8, CatAssociative
  <1>10. Concat(Frames(delivered')) \o Contents(buffer') = received'
    BY <1>1, <1>2, <1>5, <1>6, <1>8, <1>9
  <1>11. pc' \in {"decode", "closed"} /\ pc' # "read" /\ (pc' = "closed" => refused')
    BY <1>2
  <1> QED BY <1>1, <1>2, <1>5, <1>8, <1>10, <1>11 DEF FramingInv, FramingType

\* Every step on the stream keeps the invariant.
LEMMA FramingNextInv == FramingInv /\ FramingNext => FramingInv'
  <1> SUFFICES ASSUME FramingInv, FramingNext PROVE FramingInv'
    OBVIOUS
  <1>1. CASE \E n \in Chunks : \E bytes \in [1 .. n -> Byte] : Read(bytes)
    <2>0. PICK n \in Chunks : \E bytes \in [1 .. n -> Byte] : Read(bytes)
      BY <1>1
    <2>1. PICK bytes \in [1 .. n -> Byte] : Read(bytes)
      BY <2>0
    <2>2. n \in Nat
      BY FramingAssumption
    <2>3. bytes \in Seq(Byte)
      BY <2>2
    <2> QED BY <2>1, <2>3, ReadInv
  <1>2. CASE DecodeWaits
    BY <1>2 DEF DecodeWaits, FramingInv, FramingType, Waits
  <1>3. CASE DecodeFails
    BY <1>3 DEF DecodeFails, FramingInv, FramingType
  <1>4. CASE DecodeFrame
    BY <1>4, DecodeFrameInv
  <1>5. CASE HandleFrame
    BY <1>5 DEF HandleFrame, FramingInv, FramingType
  <1>6. CASE ReadEnds
    BY <1>6 DEF ReadEnds, FramingInv, FramingType
  <1> QED BY <1>1, <1>2, <1>3, <1>4, <1>5, <1>6 DEF FramingNext

\* The invariant is enough.
LEMMA FramingInvSuffices == FramingInv => StreamIsFramed
  <1> SUFFICES ASSUME FramingInv PROVE StreamIsFramed
    OBVIOUS
  <1>1. GoodBuffer(buffer)
    BY DEF FramingInv, FramingType
  <1>2. \A i \in DOMAIN delivered : EncodeFrame(delivered[i]) # {}
    BY DEF FramingInv, Encodable
  <1>3. Concat([i \in DOMAIN delivered |->
                 CHOOSE bytes \in EncodeFrame(delivered[i]) : TRUE]) \o Contents(buffer)
          = received
    BY DEF FramingInv, Frames, FrameBytes
  <1>4. ASSUME pc = "read", NEW i \in 0 .. Readable(buffer), NEW type \in 0 .. Max16
        PROVE  EncodeFrame([type |-> type,
                            payload |-> SubSeq(Contents(buffer), W32 + W16 + 1, i)])
                 # {SubSeq(Contents(buffer), 1, i)}
    <2>1. Waits(buffer)
      BY <1>4 DEF FramingInv
    <2> QED BY <1>1, <2>1, WaitsFacts
  <1>5. pc = "closed" => refused \/ ~LegalLength(buffer)
    BY DEF FramingInv
  <1> QED BY <1>2, <1>3, <1>4, <1>5 DEF StreamIsFramed

\* The benches of the wire are left alone by the bench of the file.
LEMMA TalkIsWire == Spec => WireSpec
  <1>1. Init => WireInit
    BY DEF Init
  <1>2. [Next]_vars => [WireNext]_wireVars
    BY DEF Next, vars, Talk, SaveFile, ChangeByte, CutShort, Lengthen
  <1> QED BY <1>1, <1>2, PTL DEF Spec, WireSpec

(***************************************************************************)
(* However the client's bytes are cut by TCP, and whatever the Buffer has  *)
(* to move or grow (buffer.cpp:71), the frames Codec::decode hands out     *)
(* (codec.cpp:24) and the bytes left are the bytes received; it waits only *)
(* when no frame is whole.  For every width, limit and length of a stream. *)
(***************************************************************************)
THEOREM StreamTheorem == Spec => []StreamIsFramed
  <1>1. WireInit => FramingInv
    BY FramingInitInv DEF WireInit
  <1>2. FramingInv /\ [WireNext]_wireVars => FramingInv'
    <2> SUFFICES ASSUME FramingInv, [WireNext]_wireVars PROVE FramingInv'
      OBVIOUS
    <2>1. CASE Stream
      BY <2>1, FramingNextInv DEF Stream
    <2>2. CASE UNCHANGED framingVars
      BY <2>2 DEF framingVars, FramingInv, FramingType
    <2>3. ASSUME NEW byte \in Byte, ExtendPayload(byte) PROVE UNCHANGED framingVars
      BY <2>3 DEF ExtendPayload
    <2>4. ASSUME NEW kind \in DOMAIN Replies, SendReply(kind) PROVE UNCHANGED framingVars
      BY <2>4 DEF SendReply
    <2>5. UNCHANGED wireVars => UNCHANGED framingVars
      BY DEF wireVars
    <2> QED BY <2>1, <2>2, <2>3, <2>4, <2>5 DEF WireNext
  <1> QED BY <1>1, <1>2, FramingInvSuffices, TalkIsWire, PTL DEF WireSpec

-----------------------------------------------------------------------------
(* Requests. *)

\* The last bytes of a byte string.
From(s, k) == SubSeq(s, k + 1, Len(s))

\* What is left of a byte string after its first k bytes.
LEMMA FromFacts ==
    ASSUME NEW s \in Seq(Byte), NEW k \in Nat, k <= Len(s)
    PROVE  /\ From(s, k) \in Seq(Byte) /\ Len(From(s, k)) = Len(s) - k
           /\ \A i \in 1 .. Len(s) - k : From(s, k)[i] = s[k + i]
           /\ From(s, k) \in Suffixes(s)
  <1> DEFINE n == Len(s)
             t == SubSeq(s, k + 1, n)
  <1>1. n \in Nat /\ k + 1 \in 1 .. n + 1 /\ n \in 0 .. n /\ k + 1 <= n + 1
        /\ n + 1 - (k + 1) = n - k /\ \A i \in 1 .. n - k : (k + 1) + i - 1 = k + i
    OBVIOUS
  <1>2. t \in Seq(Byte) /\ Len(t) = n + 1 - (k + 1)
        /\ \A i \in 1 .. n + 1 - (k + 1) : t[i] = s[(k + 1) + i - 1]
    BY <1>1, PieceFacts
  <1>3. From(s, k) = t
    BY DEF From
  <1>4. t \in Suffixes(s)
    <2>1. CASE k + 1 <= n
      BY <1>1, <2>1 DEF Suffixes
    <2>2. CASE k = n
      <3>1. Len(t) = 0
        BY <1>1, <1>2, <2>2
      <3>2. t = <<>>
        <4> HIDE DEF t
        <4> QED BY <1>2, <3>1
      <3> QED BY <3>2 DEF Suffixes
    <2> QED BY <1>1, <2>1, <2>2
  <1> HIDE DEF t
  <1>5. Len(t) = n - k /\ \A i \in 1 .. n - k : t[i] = s[k + i]
    BY <1>1, <1>2
  <1> QED BY <1>2, <1>3, <1>4, <1>5

\* A byte string begins with a number of one width only in one way.
LEMMA HeadExact ==
    ASSUME NEW s \in Seq(Byte), NEW w \in Nat, NEW v \in 0 .. Power(w) - 1, NEW t \in Seq(Byte)
    PROVE  Bytes(v, w) \o t = s
             <=> Len(s) >= w /\ v = Field(s, 0, w) /\ t = From(s, w)
  <1> DEFINE a == Bytes(v, w)
             h == SubSeq(s, 1, w)
  <1>1. v \in Nat /\ Len(s) \in Nat /\ Len(t) \in Nat
    <2>1. Power(w) \in Nat
      BY PowerLaws
    <2>2. v \in Nat
      BY <2>1
    <2> QED BY <2>2
  <1>2. a \in Seq(Byte) /\ Len(a) = w /\ Value(a) = v
    BY <1>1, BytesFacts, ValueOfBytes
  <1>3. Field(s, 0, w) = Value(h)
    <2>1. 0 + 1 = 1 /\ 0 + w = w
      OBVIOUS
    <2>2. Field(s, 0, w) = Value(SubSeq(s, 0 + 1, 0 + w))
      BY DEF Field
    <2> QED BY <2>1, <2>2
  <1> HIDE DEF a
  <1>4. ASSUME a \o t = s
        PROVE  Len(s) >= w /\ v = Field(s, 0, w) /\ t = From(s, w)
    <2>1. /\ Len(a \o t) = Len(a) + Len(t)
          /\ \A i \in 1 .. Len(a) : (a \o t)[i] = a[i]
          /\ \A i \in 1 .. Len(t) : (a \o t)[Len(a) + i] = t[i]
      BY <1>2, CatFacts
    <2>2. Len(s) = w + Len(t) /\ (\A i \in 1 .. w : s[i] = a[i])
          /\ \A i \in 1 .. Len(t) : s[w + i] = t[i]
      BY <1>2, <1>4, <2>1, Zenon
    <2>3. Len(s) >= w /\ w <= Len(s)
      BY <1>1, <2>2
    <2>4. h = a
      <3>1. /\ 1 \in 1 .. Len(s) + 1 /\ w \in 0 .. Len(s) /\ 1 <= w + 1 /\ w + 1 - 1 = w
            /\ \A i \in 1 .. w : 1 + i - 1 = i
        BY <1>1, <2>3
      <3>2. h \in Seq(Byte) /\ Len(h) = w + 1 - 1 /\ \A i \in 1 .. w + 1 - 1 : h[i] = s[1 + i - 1]
        BY <3>1, PieceFacts
      <3> HIDE DEF h
      <3>3. h \in Seq(Byte) /\ Len(h) = w /\ \A i \in 1 .. w : h[i] = s[i]
        BY <3>1, <3>2
      <3>4. \A i \in 1 .. w : h[i] = a[i]
        BY <2>2, <3>3, Zenon
      <3> QED BY <1>2, <3>3, <3>4, SameBytes
    <2>5. t = From(s, w)
      <3> DEFINE r == From(s, w)
                 m == Len(t)
      <3>1. r \in Seq(Byte) /\ Len(r) = Len(s) - w /\ \A i \in 1 .. Len(s) - w : r[i] = s[w + i]
        BY <2>3, FromFacts
      <3>2. Len(s) - w = m
        BY <1>1, <2>2
      <3> HIDE DEF r, m
      <3>3. Len(r) = m /\ Len(t) = m /\ m \in Nat /\ \A i \in 1 .. m : r[i] = s[w + i]
        BY <1>1, <3>1, <3>2 DEF m
      <3>4. \A i \in 1 .. m : t[i] = r[i]
        BY <2>2, <3>3, Zenon DEF m
      <3>5. t = r
        BY <3>1, <3>3, <3>4, SameBytes
      <3> QED BY <3>5 DEF r
    <2> HIDE DEF h
    <2> QED BY <1>2, <1>3, <2>3, <2>4, <2>5
  <1>5. ASSUME Len(s) >= w, v = Field(s, 0, w), t = From(s, w)
        PROVE  a \o t = s
    <2>1. w \in 0 .. Len(s)
      BY <1>1, <1>5
    <2>2. h \o From(s, w) = s
      BY <2>1, CutAndJoin DEF From
    <2>3. Bytes(v, w) = h
      <3> DEFINE o == 0
      <3>1. o \in Nat /\ o + w <= Len(s)
        BY <2>1
      <3>2. o + 1 = 1 /\ o + w = w /\ v = Field(s, o, w)
        BY <1>5
      <3> HIDE DEF o
      <3>3. Bytes(Field(s, o, w), w) = SubSeq(s, o + 1, o + w)
        BY <3>1, FieldFacts
      <3> QED BY <3>2, <3>3
    <2> HIDE DEF h
    <2> QED BY <1>5, <2>2, <2>3 DEF a
  <1> QED BY <1>4, <1>5 DEF a

\* A byte string is a number of its width.
LEMMA WholeExact ==
    ASSUME NEW s \in Seq(Byte), NEW w \in Nat, NEW v \in 0 .. Power(w) - 1
    PROVE  Bytes(v, w) = s <=> Len(s) = w /\ v = Value(s)
  <1>1. v \in Nat
    BY PowerLaws
  <1>2. ASSUME Bytes(v, w) = s PROVE Len(s) = w /\ v = Value(s)
    BY <1>1, <1>2, BytesFacts, ValueOfBytes
  <1>3. ASSUME Len(s) = w, v = Value(s) PROVE Bytes(v, w) = s
    <2>1. Bytes(Value(s), Len(s)) = s
      BY BytesOfValue
    <2> QED BY <1>3, <2>1, Zenon
  <1> QED BY <1>2, <1>3

\* A field after the first bytes is a field of what is left.
LEMMA FieldFrom ==
    ASSUME NEW s \in Seq(Byte), NEW k \in Nat, NEW w \in Nat, k + w <= Len(s)
    PROVE  /\ Field(s, k, w) = Field(From(s, k), 0, w)
           /\ From(From(s, k), w) = From(s, k + w)
  <1> DEFINE t == From(s, k)
             a == SubSeq(s, k + 1, k + w)
             b == SubSeq(t, 1, w)
             n == Len(s) - k
  <1>1. n \in Nat /\ w <= n /\ k <= Len(s) /\ Len(s) \in Nat /\ k + w \in Nat
    OBVIOUS
  <1>2. t \in Seq(Byte) /\ Len(t) = n /\ \A i \in 1 .. n : t[i] = s[k + i]
    BY <1>1, FromFacts
  <1>3. a \in Seq(Byte) /\ Len(a) = w /\ \A i \in 1 .. w : a[i] = s[k + i]
    <2>1. /\ k + 1 \in 1 .. Len(s) + 1 /\ k + w \in 0 .. Len(s) /\ k + 1 <= k + w + 1
          /\ k + w + 1 - (k + 1) = w /\ \A i \in 1 .. w : (k + 1) + i - 1 = k + i
      BY <1>1
    <2>2. a \in Seq(Byte) /\ Len(a) = k + w + 1 - (k + 1)
          /\ \A i \in 1 .. k + w + 1 - (k + 1) : a[i] = s[(k + 1) + i - 1]
      BY <2>1, PieceFacts
    <2> HIDE DEF a
    <2> QED BY <2>1, <2>2
  <1> HIDE DEF t, n
  <1>4. b \in Seq(Byte) /\ Len(b) = w /\ \A i \in 1 .. w : b[i] = t[i]
    <2>1. /\ 1 \in 1 .. Len(t) + 1 /\ w \in 0 .. Len(t) /\ 1 <= w + 1
          /\ w + 1 - 1 = w /\ \A i \in 1 .. w : 1 + i - 1 = i
      BY <1>1, <1>2
    <2>2. b \in Seq(Byte) /\ Len(b) = w + 1 - 1 /\ \A i \in 1 .. w + 1 - 1 : b[i] = t[1 + i - 1]
      BY <1>2, <2>1, PieceFacts
    <2> HIDE DEF b
    <2> QED BY <2>1, <2>2
  <1> HIDE DEF a, b
  <1>5. a = b
    <2>1. \A i \in 1 .. w : i \in 1 .. n
      BY <1>1
    <2>2. \A i \in 1 .. w : a[i] = b[i]
      BY <1>2, <1>3, <1>4, <2>1, Zenon
    <2> QED BY <1>3, <1>4, <2>2, SameBytes
  <1>6. Field(s, k, w) = Value(a)
    BY DEF Field, a
  <1>7. Field(t, 0, w) = Value(b)
    <2>1. 0 + 1 = 1 /\ 0 + w = w
      OBVIOUS
    <2>2. Field(t, 0, w) = Value(SubSeq(t, 0 + 1, 0 + w))
      BY DEF Field
    <2> QED BY <2>1, <2>2 DEF b
  <1> DEFINE x == From(t, w)
             y == From(s, k + w)
             m == n - w
  <1>8. x \in Seq(Byte) /\ Len(x) = m /\ \A i \in 1 .. m : x[i] = t[w + i]
    <2>1. w <= Len(t) /\ Len(t) - w = m
      BY <1>1, <1>2
    <2>2. x \in Seq(Byte) /\ Len(x) = Len(t) - w /\ \A i \in 1 .. Len(t) - w : x[i] = t[w + i]
      BY <1>2, <2>1, FromFacts
    <2> HIDE DEF x, m
    <2> QED BY <2>1, <2>2
  <1>9. y \in Seq(Byte) /\ Len(y) = m /\ \A i \in 1 .. m : y[i] = s[(k + w) + i]
    <2>1. Len(s) - (k + w) = m
      BY <1>1 DEF n
    <2> DEFINE kw == k + w
    <2>2. kw \in Nat /\ kw <= Len(s)
      BY <1>1
    <2> HIDE DEF kw
    <2>3. From(s, kw) \in Seq(Byte) /\ Len(From(s, kw)) = Len(s) - kw
          /\ \A i \in 1 .. Len(s) - kw : From(s, kw)[i] = s[kw + i]
      BY <2>2, FromFacts
    <2> HIDE DEF m
    <2> QED BY <2>1, <2>3 DEF kw
  <1>10. \A i \in 1 .. m : x[i] = y[i]
    <2> TAKE i \in 1 .. m
    <2>1. w + i \in 1 .. n /\ k + (w + i) = (k + w) + i
      BY <1>1
    <2> HIDE DEF x, y, m
    <2>2. x[i] = t[w + i] /\ t[w + i] = s[k + (w + i)] /\ y[i] = s[(k + w) + i]
      BY <1>2, <1>8, <1>9, <2>1
    <2> QED BY <2>1, <2>2, Zenon
  <1>11. m \in Nat
    BY <1>1
  <1>12. x = y
    <2> HIDE DEF x, y, m
    <2> QED BY <1>8, <1>9, <1>10, <1>11, SameBytes
  <1> QED BY <1>5, <1>6, <1>7, <1>12 DEF t

\* A byte string is a string after its size in one way only.
LEMMA SizedExact ==
    ASSUME NEW s \in Seq(Byte), NEW m \in Seq(Byte), Len(m) <= Max16
    PROVE  Sized(m) = s
             <=> Len(s) >= W16 /\ Len(s) - W16 = Field(s, 0, W16) /\ m = From(s, W16)
  <1> DEFINE l == Len(m)
             w == W16
  <1>1. l \in Nat /\ l \in 0 .. Power(w) - 1 /\ w \in Nat /\ Len(s) \in Nat
    BY WidthFacts, SMTT(30)
  <1>2. Sized(m) = Bytes(l, w) \o m
    BY DEF Sized
  <1> HIDE DEF w, l
  <1>3. Bytes(l, w) \o m = s <=> Len(s) >= w /\ l = Field(s, 0, w) /\ m = From(s, w)
    BY <1>1, HeadExact, ZenonT(60)
  <1>4. ASSUME Len(s) >= w, m = From(s, w) PROVE l = Len(s) - w
    <2>1. w <= Len(s)
      BY <1>1, <1>4
    <2>2. Len(From(s, w)) = Len(s) - w
      BY <1>1, <2>1, FromFacts
    <2> QED BY <1>4, <2>2 DEF l
  <1>5. Bytes(l, w) \o m = s <=> Len(s) >= w /\ Len(s) - w = Field(s, 0, w) /\ m = From(s, w)
    BY <1>3, <1>4
  <1> QED BY <1>2, <1>5 DEF w

\* A field of a byte string at its start or after it is a number of its width.
LEMMA FieldRange ==
    ASSUME NEW s \in Seq(Byte), NEW k \in Nat, NEW w \in Nat, k + w <= Len(s)
    PROVE  Field(s, k, w) \in 0 .. Power(w) - 1
  BY FieldFacts

\* An int32_t and its bits determine each other.
LEMMA BitsExact ==
    ASSUME NEW bits \in 0 .. Max32
    PROVE  /\ FromBits(bits) \in Int32s
           /\ \A d \in Int32s : ToBits(d) \in 0 .. Max32 /\ (ToBits(d) = bits <=> d = FromBits(bits))
  <1> DEFINE M == Max32 + 1
             H == M \div 2
  <1>1. M \in Nat /\ M > 0 /\ M = Power(W32) /\ Max32 \in Nat
    BY WidthFacts
  <1>2. M = 2 * H /\ H \in Nat
    <2> DEFINE k == W32 - 1
               p == Power(k)
               b == Base \div 2
    <2>1. k \in Nat /\ k + 1 = W32
      BY WidthFacts
    <2>2. p \in Nat /\ Power(k + 1) = p * Base
      BY <2>1, PowerLaws
    <2>3. b \in Nat /\ Base = 2 * b
      BY BytesAssumption
    <2>4. M = p * Base
      BY <1>1, <2>1, <2>2
    <2> HIDE DEF p, b, k, M
    <2>5. p * Base = 2 * (p * b)
      BY <2>2, <2>3
    <2>6. p * b \in Nat
      BY <2>2, <2>3
    <2> DEFINE q == p * b
    <2> HIDE DEF q
    <2>7. M = 2 * q /\ q \in Nat
      BY <2>4, <2>5, <2>6 DEF q
    <2> QED BY <2>7
  <1>3. MaxInt32 = H - 1 /\ Int32s = (-1 - MaxInt32) .. MaxInt32
    BY DEF MaxInt32, Int32s
  <1>4. Int32s = (0 - H) .. (H - 1)
    <2> HIDE DEF H
    <2> QED BY <1>2, <1>3
  <1>5. Max32 = M - 1
    BY <1>1
  <1> HIDE DEF M, H
  <1>6. bits \in Nat /\ bits < M
    BY <1>1, <1>5
  <1>7. FromBits(bits) = IF bits < H THEN bits ELSE bits - M
    BY <1>1, <1>2, <1>3, <1>5, <1>6 DEF FromBits
  <1>8. FromBits(bits) \in Int32s
    BY <1>2, <1>4, <1>6, <1>7
  <1>9. ASSUME NEW d \in Int32s
        PROVE  ToBits(d) \in 0 .. Max32 /\ (ToBits(d) = bits <=> d = FromBits(bits))
    <2>1. d \in Int /\ 0 - H <= d /\ d < H
      BY <1>2, <1>4
    <2>2. ToBits(d) = d % M
      BY DEF ToBits, M
    <2>3. d % M = IF d < 0 THEN d + M ELSE d
      BY <1>1, <1>2, <2>1
    <2> QED BY <1>1, <1>2, <1>5, <1>6, <1>7, <2>1, <2>2, <2>3
  <1> QED BY <1>8, <1>9

\* The two halves of a number of 64 bits are the number.
LEMMA Field64Facts ==
    ASSUME NEW s \in Seq(Byte), Len(s) = W64
    PROVE  Field64(s, 0) = Value(s) /\ Value(s) \in 0 .. Max64
  <1> DEFINE a == SubSeq(s, 1, W32)
             b == From(s, W32)
             w == W32
  <1>1. w \in Nat /\ Len(s) = w + w /\ w <= Len(s) /\ w \in 0 .. Len(s) /\ w + w <= Len(s)
        /\ Len(s) - w = w
    BY WidthFacts
  <1>2. b \in Seq(Byte) /\ Len(b) = w
    <2>1. b \in Seq(Byte) /\ Len(b) = Len(s) - w
      BY <1>1, FromFacts
    <2> QED BY <1>1, <2>1
  <1>3. a \in Seq(Byte)
    <2>1. 1 \in 1 .. Len(s) + 1 /\ 1 <= w + 1
      BY <1>1
    <2> QED BY <1>1, <2>1, PieceFacts
  <1>4. a \o b = s
    BY <1>1, CutAndJoin DEF From
  <1>5. Value(s) = Value(a) * Power(w) + Value(b)
    <2> HIDE DEF a, b, w
    <2>1. Value(a \o b) = Value(a) * Power(Len(b)) + Value(b)
      BY <1>2, <1>3, ValueOfCat
    <2> QED BY <1>2, <1>4, <2>1
  <1>6. Field(s, 0, w) = Value(a)
    <2>1. 0 + 1 = 1 /\ 0 + w = w
      BY <1>1
    <2>2. Field(s, 0, w) = Value(SubSeq(s, 0 + 1, 0 + w))
      BY DEF Field
    <2> QED BY <2>1, <2>2
  <1>7. Field(s, 0 + w, w) = Value(b)
    <2>1. (0 + w) + 1 = w + 1 /\ (0 + w) + w = Len(s)
      BY <1>1
    <2>2. Field(s, 0 + w, w) = Value(SubSeq(s, (0 + w) + 1, (0 + w) + w))
      BY DEF Field
    <2>3. b = SubSeq(s, w + 1, Len(s))
      BY DEF From
    <2> QED BY <2>1, <2>2, <2>3
  <1>8. Max32 + 1 = Power(w)
    BY WidthFacts, SMTT(30)
  <1>9. Field64(s, 0) = Field(s, 0, w) * (Max32 + 1) + Field(s, 0 + w, w)
    BY DEF Field64
  <1>10. Value(s) \in 0 .. Max64
    <2>1. Value(s) \in 0 .. Power(Len(s)) - 1
      BY BytesOfValue
    <2>2. Power(Len(s)) - 1 = Max64
      BY WidthFacts
    <2> QED BY <2>1, <2>2
  <1> HIDE DEF a, b, w
  <1>11. Field64(s, 0) = Value(s)
    BY <1>5, <1>6, <1>7, <1>8, <1>9, Zenon
  <1> QED BY <1>10, <1>11

\* A request is decoded exactly when it is laid out to the last byte.
Exact(kind) == Decode(kind, payload) = {r \in Requests(kind) : Layout(kind, r) = payload}

\* A tail of the payload is a byte string whose size fits.
LEMMA TailsFacts ==
    ASSUME payload \in Seq(Byte)
    PROVE  /\ \A m \in Tails : m \in Seq(Byte) /\ Len(m) <= Max16 /\ Len(m) \in Nat
           /\ \A k \in Nat : k <= Len(payload) /\ Len(payload) - k <= Max16
                => From(payload, k) \in Tails
  <1>1. ASSUME NEW m \in Tails PROVE m \in Seq(Byte) /\ Len(m) <= Max16 /\ Len(m) \in Nat
    <2>1. m \in Suffixes(payload) /\ Len(m) <= Max16
      BY DEF Tails
    <2>2. m = <<>> \/ \E l \in 1 .. Len(payload) : m = SubSeq(payload, l, Len(payload))
      BY <2>1 DEF Suffixes
    <2>3. m \in Seq(Byte)
      <3>1. CASE m = <<>>
        BY <3>1
      <3>2. ASSUME NEW l \in 1 .. Len(payload), m = SubSeq(payload, l, Len(payload))
            PROVE  m \in Seq(Byte)
        <4>1. l \in 1 .. Len(payload) + 1 /\ Len(payload) \in 0 .. Len(payload)
              /\ l <= Len(payload) + 1
          OBVIOUS
        <4>2. SubSeq(payload, l, Len(payload)) \in Seq(Byte)
          BY <4>1, PieceFacts
        <4> QED BY <3>2, <4>2
      <3> QED BY <2>2, <3>1, <3>2
    <2>4. Len(m) \in Nat
      BY <2>3
    <2> QED BY <2>1, <2>3, <2>4
  <1>2. ASSUME NEW k \in Nat, k <= Len(payload), Len(payload) - k <= Max16
        PROVE  From(payload, k) \in Tails
    <2>1. From(payload, k) \in Suffixes(payload) /\ Len(From(payload, k)) = Len(payload) - k
      BY <1>2, FromFacts
    <2> QED BY <1>2, <2>1 DEF Tails
  <1> QED BY <1>1, <1>2

\* decode_chat_request is exact.
LEMMA ChatExact ==
    ASSUME payload \in Seq(Byte)
    PROVE  Exact("chat")
  <1> DEFINE s == payload
             n == Len(s)
             m0 == From(s, W16)
             cond == n >= W16 /\ n - W16 = Field(s, 0, W16)
  <1>1. n \in Nat /\ W16 \in Nat /\ Max16 \in Nat /\ Max16 = Power(W16) - 1
    BY WidthFacts
  <1>2. Decode("chat", s) = If(cond, [message |-> m0])
    <2>1. DecodeChat(s) = If(HasField(s, 0, W16) /\ n - W16 = Field(s, 0, W16), [message |-> m0])
      BY Zenon DEF DecodeChat, From
    <2>2. HasField(s, 0, W16) <=> n >= W16
      BY <1>1 DEF HasField
    <2>3. Decode("chat", s) = DecodeChat(s)
      BY DEF Decode
    <2> QED BY <2>1, <2>2, <2>3 DEF If
  <1>3. Requests("chat") = [message : Tails] /\ \A r : Layout("chat", r) = Sized(r.message)
    BY DEF Requests, Layout
  <1>4. ASSUME cond PROVE m0 \in Tails
    <2>1. W16 <= n /\ 0 + W16 <= n /\ 0 \in Nat
      BY <1>1, <1>4
    <2>2. Field(s, 0, W16) \in 0 .. Power(W16) - 1
      BY <1>1, <2>1, FieldRange
    <2>3. n - W16 <= Max16
      BY <1>1, <1>4, <2>2
    <2> QED BY <1>1, <2>1, <2>3, TailsFacts
  <1>5. \A m \in Tails : Sized(m) = s <=> cond /\ m = m0
    BY TailsFacts, SizedExact
  <1> HIDE DEF cond, m0
  <1>6. {r \in [message : Tails] : Sized(r.message) = s} = If(cond, [message |-> m0])
    <2>1. CASE cond
      <3>1. \A r \in [message : Tails] : Sized(r.message) = s <=> r = [message |-> m0]
        BY <1>5, <2>1
      <3>2. [message |-> m0] \in [message : Tails]
        BY <1>4, <2>1
      <3> QED BY <2>1, <3>1, <3>2 DEF If
    <2>2. CASE ~cond
      BY <1>5, <2>2 DEF If
    <2> QED BY <2>1, <2>2
  <1> QED BY <1>2, <1>3, <1>6 DEF Exact

\* decode_resume_request is exact.
LEMMA ResumeExact ==
    ASSUME payload \in Seq(Byte)
    PROVE  Exact("resume")
  <1> DEFINE s == payload
             n == Len(s)
             m0 == From(s, W16)
             good == Field(s, 0, W16) \in 1 .. MaxTokenSize
             cond == n >= W16 /\ n - W16 = Field(s, 0, W16)
  <1>1. n \in Nat /\ W16 \in Nat /\ Max16 \in Nat /\ Max16 = Power(W16) - 1
    BY WidthFacts
  <1>2. Decode("resume", s) = If(good /\ cond, [token |-> m0])
    <2>1. DecodeResume(s) = If(/\ HasField(s, 0, W16) /\ good /\ n - W16 = Field(s, 0, W16),
                               [token |-> m0])
      BY Zenon DEF DecodeResume, From
    <2>2. HasField(s, 0, W16) <=> n >= W16
      BY <1>1 DEF HasField
    <2>3. Decode("resume", s) = DecodeResume(s)
      BY DEF Decode
    <2> QED BY <2>1, <2>2, <2>3 DEF If
  <1>3. /\ Requests("resume") = {r \in [token : Tails] : Len(r.token) \in 1 .. MaxTokenSize}
        /\ \A r : Layout("resume", r) = Sized(r.token)
    BY DEF Requests, Layout
  <1>4. ASSUME cond PROVE m0 \in Tails /\ Len(m0) = Field(s, 0, W16)
    <2>1. W16 <= n /\ 0 + W16 <= n /\ 0 \in Nat
      BY <1>1, <1>4
    <2>2. Field(s, 0, W16) \in 0 .. Power(W16) - 1
      BY <1>1, <2>1, FieldRange
    <2>3. n - W16 <= Max16
      BY <1>1, <1>4, <2>2
    <2>4. Len(m0) = n - W16
      BY <1>1, <2>1, FromFacts
    <2> QED BY <1>1, <1>4, <2>1, <2>3, <2>4, TailsFacts
  <1>5. \A m \in Tails : Sized(m) = s <=> cond /\ m = m0
    BY TailsFacts, SizedExact
  <1>6. cond => (good <=> Len(m0) \in 1 .. MaxTokenSize)
    BY <1>4
  <1> HIDE DEF cond, m0, good
  <1>7. {r \in {q \in [token : Tails] : Len(q.token) \in 1 .. MaxTokenSize} : Sized(r.token) = s}
          = If(good /\ cond, [token |-> m0])
    <2>1. CASE good /\ cond
      <3>1. \A r \in [token : Tails] : Sized(r.token) = s <=> r = [token |-> m0]
        BY <1>5, <2>1
      <3>2. [token |-> m0] \in [token : Tails]
        BY <1>4, <2>1
      <3>3. Len(m0) \in 1 .. MaxTokenSize
        BY <1>6, <2>1
      <3> QED BY <2>1, <3>1, <3>2, <3>3 DEF If
    <2>2. CASE ~(good /\ cond)
      <3>1. ASSUME NEW r \in [token : Tails], Len(r.token) \in 1 .. MaxTokenSize,
                   Sized(r.token) = s
            PROVE  FALSE
        <4>1. cond /\ r.token = m0
          BY <1>5, <3>1
        <4> QED BY <1>6, <2>2, <3>1, <4>1
      <3> QED BY <2>2, <3>1 DEF If
    <2> QED BY <2>1, <2>2
  <1> QED BY <1>2, <1>3, <1>7 DEF Exact

\* decode_join_request is exact.
LEMMA JoinExact ==
    ASSUME payload \in Seq(Byte)
    PROVE  Exact("join")
  <1> DEFINE s == payload
             n == Len(s)
             k == W32 + W16
             t == From(s, W32)
             i0 == Field(s, 0, W32)
             m0 == From(s, k)
             cond == n >= k /\ n - k = Field(s, W32, W16)
             rec == [room_id |-> i0, player_name |-> m0]
  <1>1. /\ n \in Nat /\ W16 \in Nat /\ Max16 \in Nat /\ Max16 = Power(W16) - 1
        /\ W32 \in Nat /\ Max32 = Power(W32) - 1 /\ k \in Nat
    BY WidthFacts
  <1>2. Decode("join", s) = If(cond, rec)
    <2>1. DecodeJoin(s) = If(/\ HasField(s, 0, W32) /\ HasField(s, W32, W16)
                             /\ n - k = Field(s, W32, W16), rec)
      BY Zenon DEF DecodeJoin, From
    <2>2. HasField(s, 0, W32) /\ HasField(s, W32, W16) <=> n >= k
      BY <1>1 DEF HasField
    <2>3. Decode("join", s) = DecodeJoin(s)
      BY DEF Decode
    <2> QED BY <2>1, <2>2, <2>3 DEF If
  <1>3. /\ Requests("join") = [room_id : 0 .. Max32, player_name : Tails]
        /\ \A r : Layout("join", r) = Bytes(r.room_id, W32) \o Sized(r.player_name)
    BY DEF Requests, Layout
  <1>4. ASSUME cond PROVE i0 \in 0 .. Max32 /\ m0 \in Tails
    <2>1. W32 + W16 <= n /\ 0 + W32 <= n /\ 0 \in Nat
      BY <1>1, <1>4
    <2>2. Field(s, W32, W16) \in 0 .. Power(W16) - 1
      BY <1>1, <2>1, FieldRange
    <2>3. i0 \in 0 .. Power(W32) - 1
      BY <1>1, <2>1, FieldRange
    <2>4. k <= n /\ n - k <= Max16
      BY <1>1, <1>4, <2>2
    <2>5. m0 \in Tails
      <3> HIDE DEF k
      <3> QED BY <1>1, <2>4, TailsFacts
    <2> QED BY <1>1, <2>3, <2>5
  <1>5. ASSUME NEW i \in 0 .. Max32, NEW m \in Tails
        PROVE  Bytes(i, W32) \o Sized(m) = s <=> cond /\ i = i0 /\ m = m0
    <2>1. m \in Seq(Byte) /\ Len(m) <= Max16 /\ Len(m) \in Nat /\ i \in 0 .. Power(W32) - 1
      BY <1>1, TailsFacts
    <2>2. Sized(m) \in Seq(Byte)
      <3>1. Bytes(Len(m), W16) \in Seq(Byte)
        BY <1>1, <2>1, BytesFacts
      <3> QED BY <2>1, <3>1, CatFacts DEF Sized
    <2>3. Bytes(i, W32) \o Sized(m) = s <=> n >= W32 /\ i = i0 /\ Sized(m) = t
      <3> DEFINE z == Sized(m)
      <3> HIDE DEF z
      <3>1. z \in Seq(Byte)
        BY <2>2 DEF z
      <3>2. Bytes(i, W32) \o z = s <=> n >= W32 /\ i = i0 /\ z = t
        BY <1>1, <2>1, <3>1, HeadExact, ZenonT(60)
      <3> QED BY <3>2 DEF z
    <2>4. CASE n >= W32
      <3>1. t \in Seq(Byte) /\ Len(t) = n - W32
        <4>1. W32 <= n
          BY <1>1, <2>4
        <4> QED BY <1>1, <4>1, FromFacts
      <3>2. Sized(m) = t <=> Len(t) >= W16 /\ Len(t) - W16 = Field(t, 0, W16) /\ m = From(t, W16)
        <4> HIDE DEF t
        <4> QED BY <2>1, <3>1, SizedExact
      <3>3. Len(t) >= W16 <=> n >= k
        BY <1>1, <3>1
      <3>4. Len(t) - W16 = n - k
        BY <1>1, <3>1
      <3>5. n >= k => Field(t, 0, W16) = Field(s, W32, W16) /\ From(t, W16) = m0
        <4>1. SUFFICES ASSUME n >= k
                       PROVE  Field(t, 0, W16) = Field(s, W32, W16) /\ From(t, W16) = m0
          OBVIOUS
        <4>2. W32 + W16 <= Len(s)
          BY <1>1, <4>1
        <4> QED BY <1>1, <4>2, FieldFrom
      <3> HIDE DEF t, m0, i0, k
      <3> QED BY <2>3, <2>4, <3>2, <3>3, <3>4, <3>5
    <2>5. CASE ~(n >= W32)
      <3>1. ~(n >= k)
        BY <1>1, <2>5
      <3> QED BY <2>3, <2>5, <3>1
    <2> QED BY <2>4, <2>5
  <1> HIDE DEF cond, m0, i0
  <1>6. {r \in [room_id : 0 .. Max32, player_name : Tails] :
            Bytes(r.room_id, W32) \o Sized(r.player_name) = s} = If(cond, rec)
    <2>1. ASSUME NEW r \in [room_id : 0 .. Max32, player_name : Tails]
          PROVE  Bytes(r.room_id, W32) \o Sized(r.player_name) = s <=> cond /\ r = rec
      <3> DEFINE i == r.room_id
                 m == r.player_name
      <3>1. i \in 0 .. Max32 /\ m \in Tails /\ r = [room_id |-> i, player_name |-> m]
        OBVIOUS
      <3> HIDE DEF i, m
      <3>2. Bytes(i, W32) \o Sized(m) = s <=> cond /\ i = i0 /\ m = m0
        BY <1>5, <3>1
      <3>3. r = rec <=> i = i0 /\ m = m0
        BY <3>1
      <3> HIDE DEF rec
      <3> QED BY <3>2, <3>3, Zenon DEF i, m
    <2>2. cond => rec \in [room_id : 0 .. Max32, player_name : Tails]
      BY <1>4
    <2> HIDE DEF rec
    <2> QED BY <2>1, <2>2 DEF If
  <1> QED BY <1>2, <1>3, <1>6 DEF Exact

\* decode_move_request is exact.
LEMMA MoveExact ==
    ASSUME payload \in Seq(Byte)
    PROVE  Exact("move")
  <1> DEFINE s == payload
             n == Len(s)
             t == From(s, W32)
             x0 == Field(s, 0, W32)
             y0 == Field(s, W32, W32)
             cond == n = 2 * W32
             rec == [dx |-> FromBits(x0), dy |-> FromBits(y0)]
  <1>1. n \in Nat /\ W32 \in Nat /\ Max32 = Power(W32) - 1 /\ Max32 \in Nat
    BY WidthFacts
  <1>2. Decode("move", s) = If(cond, rec)
    BY DEF Decode, DecodeMove
  <1>3. /\ Requests("move") = [dx : Int32s, dy : Int32s]
        /\ \A r : Layout("move", r) = Bytes(ToBits(r.dx), W32) \o Bytes(ToBits(r.dy), W32)
    BY DEF Requests, Layout
  <1>4. ASSUME cond PROVE x0 \in 0 .. Max32 /\ y0 \in 0 .. Max32
    <2>1. 0 + W32 <= n /\ W32 + W32 <= n /\ 0 \in Nat
      BY <1>1, <1>4
    <2>2. x0 \in 0 .. Power(W32) - 1 /\ y0 \in 0 .. Power(W32) - 1
      BY <1>1, <2>1, FieldRange
    <2> QED BY <1>1, <2>2
  <1>5. ASSUME NEW x \in 0 .. Max32, NEW y \in 0 .. Max32
        PROVE  Bytes(x, W32) \o Bytes(y, W32) = s <=> cond /\ x = x0 /\ y = y0
    <2> DEFINE z == Bytes(y, W32)
    <2>1. x \in 0 .. Power(W32) - 1 /\ y \in 0 .. Power(W32) - 1 /\ y \in Nat
      BY <1>1
    <2>2. z \in Seq(Byte)
      BY <1>1, <2>1, BytesFacts
    <2> HIDE DEF z
    <2>3. Bytes(x, W32) \o z = s <=> n >= W32 /\ x = x0 /\ z = t
      BY <1>1, <2>1, <2>2, HeadExact, ZenonT(60)
    <2>4. CASE n >= W32
      <3>1. t \in Seq(Byte) /\ Len(t) = n - W32
        <4>1. W32 <= n
          BY <1>1, <2>4
        <4> QED BY <1>1, <4>1, FromFacts
      <3>2. z = t <=> Len(t) = W32 /\ y = Value(t)
        <4> HIDE DEF t
        <4> QED BY <1>1, <2>1, <3>1, WholeExact DEF z
      <3>3. Len(t) = W32 <=> cond
        BY <1>1, <3>1
      <3>4. cond => Value(t) = y0
        <4>1. SUFFICES ASSUME cond PROVE Value(t) = y0
          OBVIOUS
        <4>2. n = W32 + W32
          BY <1>1, <4>1
        <4> QED BY <4>2 DEF From, Field
      <3> HIDE DEF t, cond, x0, y0
      <3> QED BY <2>3, <2>4, <3>2, <3>3, <3>4 DEF z
    <2>5. CASE ~(n >= W32)
      <3>1. ~cond
        BY <1>1, <2>5
      <3> QED BY <2>3, <2>5, <3>1 DEF z
    <2> QED BY <2>4, <2>5
  <1> HIDE DEF cond, x0, y0
  <1>6. ASSUME NEW r \in [dx : Int32s, dy : Int32s]
        PROVE  Bytes(ToBits(r.dx), W32) \o Bytes(ToBits(r.dy), W32) = s <=> cond /\ r = rec
    <2> DEFINE x == r.dx
               y == r.dy
               u == ToBits(x)
               v == ToBits(y)
    <2>1. x \in Int32s /\ y \in Int32s /\ r = [dx |-> x, dy |-> y]
      OBVIOUS
    <2> HIDE DEF x, y
    <2>2. u \in 0 .. Max32 /\ v \in 0 .. Max32
      <3>1. 0 \in 0 .. Max32
        BY <1>1
      <3> QED BY <2>1, <3>1, BitsExact
    <2> HIDE DEF u, v
    <2>3. Bytes(u, W32) \o Bytes(v, W32) = s <=> cond /\ u = x0 /\ v = y0
      BY <1>5, <2>2
    <2>4. cond => ((u = x0 <=> x = FromBits(x0)) /\ (v = y0 <=> y = FromBits(y0)))
      BY <1>4, <2>1, BitsExact DEF u, v
    <2>5. r = rec <=> x = FromBits(x0) /\ y = FromBits(y0)
      BY <2>1
    <2> HIDE DEF rec
    <2>6. Bytes(u, W32) \o Bytes(v, W32) = s <=> cond /\ r = rec
      BY <2>3, <2>4, <2>5, Zenon
    <2> QED BY <2>6 DEF u, v, x, y
  <1>7. cond => rec \in [dx : Int32s, dy : Int32s]
    BY <1>4, BitsExact
  <1> HIDE DEF rec
  <1>8. {r \in [dx : Int32s, dy : Int32s] :
            Bytes(ToBits(r.dx), W32) \o Bytes(ToBits(r.dy), W32) = s} = If(cond, rec)
    BY <1>6, <1>7 DEF If
  <1> QED BY <1>2, <1>3, <1>8 DEF Exact

\* decode_attack_request and decode_heartbeat_request are exact.
LEMMA NumberExact ==
    ASSUME payload \in Seq(Byte)
    PROVE  Exact("attack") /\ Exact("heartbeat") /\ Exact("leave")
  <1> DEFINE s == payload
             cond == Len(s) = W64
             v0 == Field64(s, 0)
  <1>1. W64 \in Nat /\ Max64 = Power(W64) - 1
    BY WidthFacts
  <1>2. cond => v0 = Value(s) /\ v0 \in 0 .. Max64
    BY Field64Facts
  <1>3. ASSUME NEW v \in 0 .. Max64 PROVE Bytes(v, W64) = s <=> cond /\ v = v0
    <2>1. Bytes(v, W64) = s <=> Len(s) = W64 /\ v = Value(s)
      BY <1>1, WholeExact
    <2> QED BY <1>2, <2>1
  <1>4. Exact("attack")
    <2> DEFINE rec == [target_player_id |-> v0]
    <2>1. Decode("attack", s) = If(cond, rec)
      BY DEF Decode, DecodeAttack
    <2>2. /\ Requests("attack") = [target_player_id : 0 .. Max64]
          /\ \A r : Layout("attack", r) = Bytes(r.target_player_id, W64)
      BY DEF Requests, Layout
    <2> HIDE DEF cond, v0
    <2>3. ASSUME NEW r \in [target_player_id : 0 .. Max64]
          PROVE  Bytes(r.target_player_id, W64) = s <=> cond /\ r = rec
      BY <1>3
    <2>4. cond => rec \in [target_player_id : 0 .. Max64]
      BY <1>2
    <2> HIDE DEF rec
    <2>5. {r \in [target_player_id : 0 .. Max64] : Bytes(r.target_player_id, W64) = s} = If(cond, rec)
      BY <2>3, <2>4 DEF If
    <2> QED BY <2>1, <2>2, <2>5 DEF Exact
  <1>5. Exact("heartbeat")
    <2> DEFINE rec == [seq |-> v0]
    <2>1. Decode("heartbeat", s) = If(cond, rec)
      BY DEF Decode, DecodeHeartbeat
    <2>2. /\ Requests("heartbeat") = [seq : 0 .. Max64]
          /\ \A r : Layout("heartbeat", r) = Bytes(r.seq, W64)
      BY DEF Requests, Layout
    <2> HIDE DEF cond, v0
    <2>3. ASSUME NEW r \in [seq : 0 .. Max64]
          PROVE  Bytes(r.seq, W64) = s <=> cond /\ r = rec
      BY <1>3
    <2>4. cond => rec \in [seq : 0 .. Max64]
      BY <1>2
    <2> HIDE DEF rec
    <2>5. {r \in [seq : 0 .. Max64] : Bytes(r.seq, W64) = s} = If(cond, rec)
      BY <2>3, <2>4 DEF If
    <2> QED BY <2>1, <2>2, <2>5 DEF Exact
  <1>6. Exact("leave")
    <2>1. Decode("leave", s) = If(s = <<>>, <<>>)
      BY DEF Decode, DecodeLeave
    <2>2. Requests("leave") = {<<>>} /\ \A r : Layout("leave", r) = <<>>
      BY DEF Requests, Layout
    <2>3. {r \in {<<>>} : <<>> = s} = If(s = <<>>, <<>>)
      BY DEF If
    <2> QED BY <2>1, <2>2, <2>3 DEF Exact
  <1> QED BY <1>4, <1>5, <1>6

\* The payload is made of bytes.
PayloadType == payload \in Seq(Byte)

(***************************************************************************)
(* Of all byte strings, of any length, the decoder of a request            *)
(* (protocol.cpp:87) accepts those that lay out one of its requests and    *)
(* yields that request: no field is read from another's bytes, no byte is  *)
(* left over, and a negative step keeps its sign.  For every width.        *)
(***************************************************************************)
THEOREM RequestsTheorem == Spec => []RequestsAreExact
  <1>1. WireInit => PayloadType
    BY DEF WireInit, PayloadType
  <1>2. PayloadType /\ [WireNext]_wireVars => PayloadType'
    <2> SUFFICES ASSUME PayloadType, [WireNext]_wireVars PROVE PayloadType'
      OBVIOUS
    <2>1. CASE Stream
      BY <2>1 DEF Stream, PayloadType, talkVars
    <2>2. ASSUME NEW byte \in Byte, ExtendPayload(byte) PROVE PayloadType'
      BY <2>2 DEF ExtendPayload, PayloadType
    <2>3. ASSUME NEW kind \in DOMAIN Replies, SendReply(kind) PROVE PayloadType'
      BY <2>3 DEF SendReply, PayloadType
    <2>4. CASE UNCHANGED wireVars
      BY <2>4 DEF wireVars, talkVars, PayloadType
    <2> QED BY <2>1, <2>2, <2>3, <2>4 DEF WireNext
  <1>3. PayloadType => RequestsAreExact
    <2> SUFFICES ASSUME payload \in Seq(Byte), NEW kind \in RequestKinds PROVE Exact(kind)
      BY DEF PayloadType, RequestsAreExact, Exact
    <2>1. Exact("join") /\ Exact("chat") /\ Exact("move") /\ Exact("resume")
      BY JoinExact, ChatExact, MoveExact, ResumeExact
    <2>2. Exact("attack") /\ Exact("heartbeat") /\ Exact("leave")
      BY NumberExact
    <2> QED BY <2>1, <2>2 DEF RequestKinds
  <1> QED BY <1>1, <1>2, <1>3, TalkIsWire, PTL DEF WireSpec

-----------------------------------------------------------------------------
(* Replies. *)

\* The byte string s has p after its first o bytes.
At(s, o, p) == o + Len(p) <= Len(s) /\ \A i \in 1 .. Len(p) : s[o + i] = p[i]

\* A byte string is at the start of itself.
LEMMA AtStart ==
    ASSUME NEW s \in Seq(Byte)
    PROVE  At(s, 0, s)
  BY DEF At

\* Two byte strings one after the other are there one after the other.
LEMMA AtCat ==
    ASSUME NEW s \in Seq(Byte), NEW o \in Nat, NEW a \in Seq(Byte), NEW b \in Seq(Byte),
           At(s, o, a \o b)
    PROVE  At(s, o, a) /\ At(s, o + Len(a), b)
  <1> DEFINE m == Len(a)
             n == Len(b)
             c == a \o b
  <1>1. /\ Len(c) = m + n /\ m \in Nat /\ n \in Nat
        /\ \A i \in 1 .. m : c[i] = a[i]
        /\ \A i \in 1 .. n : c[m + i] = b[i]
    BY CatFacts
  <1>2. o + Len(c) <= Len(s) /\ \A i \in 1 .. Len(c) : s[o + i] = c[i]
    BY DEF At
  <1> HIDE DEF m, n, c
  <1>3. Len(s) \in Nat /\ o + (m + n) <= Len(s) /\ \A i \in 1 .. m + n : s[o + i] = c[i]
    BY <1>1, <1>2
  <1>4. o + m <= Len(s) /\ (o + m) + n <= Len(s)
    BY <1>1, <1>3
  <1>5. \A i \in 1 .. m : s[o + i] = a[i]
    <2>1. \A i \in 1 .. m : i \in 1 .. m + n
      BY <1>1
    <2> QED BY <1>1, <1>3, <2>1, Zenon
  <1>6. \A i \in 1 .. n : s[(o + m) + i] = b[i]
    <2> TAKE i \in 1 .. n
    <2>1. m + i \in 1 .. m + n /\ o + (m + i) = (o + m) + i
      BY <1>1
    <2>2. s[o + (m + i)] = c[m + i] /\ c[m + i] = b[i]
      BY <1>1, <1>3, <2>1
    <2> QED BY <2>1, <2>2, Zenon
  <1> QED BY <1>4, <1>5, <1>6 DEF At, m, n

\* Byte strings of one length at one place are equal.
LEMMA AtSame ==
    ASSUME NEW s \in Seq(Byte), NEW o \in Nat, NEW a \in Seq(Byte), NEW b \in Seq(Byte),
           Len(a) = Len(b), At(s, o, a), At(s, o, b)
    PROVE  a = b
  <1> DEFINE n == Len(a)
  <1>1. n \in Nat /\ Len(a) = n /\ Len(b) = n
    OBVIOUS
  <1>2. (\A i \in 1 .. n : s[o + i] = a[i]) /\ \A i \in 1 .. n : s[o + i] = b[i]
    BY <1>1 DEF At
  <1> HIDE DEF n
  <1>3. \A i \in 1 .. n : a[i] = b[i]
    BY <1>2
  <1> QED BY <1>1, <1>3, SameBytes

\* Numbers of one width at one place are equal.
LEMMA AtNumber ==
    ASSUME NEW s \in Seq(Byte), NEW o \in Nat, NEW w \in Nat,
           NEW u \in 0 .. Power(w) - 1, NEW v \in 0 .. Power(w) - 1,
           At(s, o, Bytes(u, w)), At(s, o, Bytes(v, w))
    PROVE  u = v
  <1>1. Power(w) \in Nat
    BY PowerLaws
  <1>2. u \in Nat /\ v \in Nat
    BY <1>1
  <1>3. /\ Bytes(u, w) \in Seq(Byte) /\ Len(Bytes(u, w)) = w
        /\ Bytes(v, w) \in Seq(Byte) /\ Len(Bytes(v, w)) = w
    BY <1>2, BytesFacts
  <1> DEFINE a == Bytes(u, w)
             b == Bytes(v, w)
  <1>4. Value(a) = u /\ Value(b) = v
    BY ValueOfBytes
  <1> HIDE DEF a, b
  <1>5. Len(a) = Len(b) /\ a \in Seq(Byte) /\ b \in Seq(Byte) /\ At(s, o, a) /\ At(s, o, b)
    BY <1>3 DEF a, b
  <1>6. a = b
    BY <1>5, AtSame
  <1> QED BY <1>4, <1>6

\* The two halves of a number of 64 bits.
LEMMA Bytes64Facts ==
    ASSUME NEW v \in 0 .. Max64
    PROVE  /\ Bytes64(v) \in Seq(Byte) /\ Len(Bytes64(v)) = W64
           /\ v \div (Max32 + 1) \in 0 .. Power(W32) - 1
           /\ v % (Max32 + 1) \in 0 .. Power(W32) - 1
           /\ v = (v \div (Max32 + 1)) * (Max32 + 1) + (v % (Max32 + 1))
  <1> DEFINE M == Max32 + 1
             q == v \div M
             r == v % M
  <1>1. M = Power(W32) /\ M \in Nat /\ M > 0 /\ v \in Nat /\ W32 \in Nat
    BY WidthFacts, PowerLaws
  <1>2. q \in Nat /\ r \in 0 .. M - 1 /\ v = q * M + r
    <2> HIDE DEF M
    <2> QED BY <1>1, Division
  <1>3. v < M * M
    <2>1. Power(W64) = Power(W32) * Power(W32)
      BY WidthFacts, PowerSum
    <2>2. v < Power(W64)
      BY WidthFacts
    <2> QED BY <1>1, <2>1, <2>2
  <1> HIDE DEF M, q, r
  <1>4. q < M
    <2> SUFFICES ASSUME M <= q PROVE FALSE
      BY <1>1, <1>2
    <2>1. M * M <= q * M
      BY <1>1, <1>2, ProductMonotone
    <2>2. M * M \in Nat /\ q * M \in Nat
      BY <1>1, <1>2
    <2> DEFINE x == M * M
               y == q * M
    <2> HIDE DEF x, y
    <2>3. x \in Nat /\ y \in Nat /\ x <= y /\ v < x /\ v = y + r
      BY <1>2, <1>3, <2>1, <2>2 DEF x, y
    <2> QED BY <1>1, <1>2, <2>3
  <1>5. q \in 0 .. Power(W32) - 1 /\ r \in 0 .. Power(W32) - 1 /\ q \in Nat /\ r \in Nat
    BY <1>1, <1>2, <1>4
  <1>6. /\ Bytes(q, W32) \in Seq(Byte) /\ Len(Bytes(q, W32)) = W32
        /\ Bytes(r, W32) \in Seq(Byte) /\ Len(Bytes(r, W32)) = W32
    BY <1>1, <1>5, BytesFacts
  <1>7. Bytes64(v) = Bytes(q, W32) \o Bytes(r, W32)
    BY DEF Bytes64, q, r, M
  <1> DEFINE a == Bytes(q, W32)
             b == Bytes(r, W32)
  <1> HIDE DEF a, b
  <1>8. a \o b \in Seq(Byte) /\ Len(a \o b) = Len(a) + Len(b)
    BY <1>6, CatFacts DEF a, b
  <1>9. Len(a) + Len(b) = W64
    BY <1>6, WidthFacts DEF a, b
  <1>10. Bytes64(v) \in Seq(Byte) /\ Len(Bytes64(v)) = W64
    BY <1>7, <1>8, <1>9 DEF a, b
  <1> QED BY <1>2, <1>5, <1>10 DEF q, r, M

\* Numbers of 64 bits at one place are equal.
LEMMA AtNumber64 ==
    ASSUME NEW s \in Seq(Byte), NEW o \in Nat, NEW u \in 0 .. Max64, NEW v \in 0 .. Max64,
           At(s, o, Bytes64(u)), At(s, o, Bytes64(v))
    PROVE  u = v
  <1> DEFINE M == Max32 + 1
             w == W32
             q == u \div M
             r == u % M
             x == v \div M
             y == v % M
  <1>1. w \in Nat
    BY WidthFacts
  <1>2. q \in 0 .. Power(w) - 1 /\ r \in 0 .. Power(w) - 1 /\ u = q * M + r
    BY Bytes64Facts
  <1>3. x \in 0 .. Power(w) - 1 /\ y \in 0 .. Power(w) - 1 /\ v = x * M + y
    BY Bytes64Facts
  <1>4. Bytes64(u) = Bytes(q, w) \o Bytes(r, w) /\ Bytes64(v) = Bytes(x, w) \o Bytes(y, w)
    BY DEF Bytes64
  <1> HIDE DEF M, w, q, r, x, y
  <1>5. Power(w) \in Nat
    BY <1>1, PowerLaws
  <1>6. q \in Nat /\ r \in Nat /\ x \in Nat /\ y \in Nat
    BY <1>2, <1>3, <1>5
  <1> DEFINE a == Bytes(q, w)
             b == Bytes(r, w)
             c == Bytes(x, w)
             d == Bytes(y, w)
  <1>7. /\ a \in Seq(Byte) /\ Len(a) = w /\ b \in Seq(Byte)
        /\ c \in Seq(Byte) /\ Len(c) = w /\ d \in Seq(Byte)
    BY <1>1, <1>6, BytesFacts
  <1> HIDE DEF a, b, c, d
  <1>8. At(s, o, a) /\ At(s, o + Len(a), b)
    BY <1>4, <1>7, AtCat DEF a, b
  <1>9. At(s, o, c) /\ At(s, o + Len(c), d)
    BY <1>4, <1>7, AtCat, ZenonT(60) DEF c, d
  <1>10. q = x
    BY <1>1, <1>2, <1>3, <1>8, <1>9, AtNumber DEF a, c
  <1>11. r = y
    <2> DEFINE p == o + w
    <2>1. p \in Nat /\ At(s, p, b) /\ At(s, p, d)
      BY <1>1, <1>7, <1>8, <1>9
    <2> HIDE DEF p
    <2> QED BY <1>1, <1>2, <1>3, <2>1, AtNumber DEF b, d
  <1> QED BY <1>2, <1>3, <1>10, <1>11

\* A string after its size.
LEMMA SizedFacts ==
    ASSUME NEW a \in Seq(Byte), Len(a) <= Max16
    PROVE  Sized(a) \in Seq(Byte) /\ Len(Sized(a)) = W16 + Len(a)
  <1> DEFINE b == Bytes(Len(a), W16)
  <1>1. W16 \in Nat /\ Len(a) \in Nat
    BY WidthFacts
  <1>2. b \in Seq(Byte) /\ Len(b) = W16
    BY <1>1, BytesFacts
  <1> HIDE DEF b
  <1>3. b \o a \in Seq(Byte) /\ Len(b \o a) = Len(b) + Len(a)
    BY <1>2, CatFacts
  <1> QED BY <1>2, <1>3 DEF Sized, b

\* Strings after their sizes at one place are equal.
LEMMA AtSized ==
    ASSUME NEW s \in Seq(Byte), NEW o \in Nat, NEW a \in Seq(Byte), NEW b \in Seq(Byte),
           Len(a) <= Max16, Len(b) <= Max16, At(s, o, Sized(a)), At(s, o, Sized(b))
    PROVE  a = b
  <1> DEFINE m == Len(a)
             n == Len(b)
             c == Bytes(m, W16)
             d == Bytes(n, W16)
             p == o + W16
  <1>1. W16 \in Nat /\ m \in Nat /\ n \in Nat /\ p \in Nat
        /\ m \in 0 .. Power(W16) - 1 /\ n \in 0 .. Power(W16) - 1
    <2>1. m \in Nat /\ n \in Nat /\ m <= Max16 /\ n <= Max16
      OBVIOUS
    <2> HIDE DEF m, n
    <2> QED BY <2>1, WidthFacts
  <1>2. c \in Seq(Byte) /\ Len(c) = W16 /\ d \in Seq(Byte) /\ Len(d) = W16
    BY <1>1, BytesFacts
  <1>3. Sized(a) = c \o a /\ Sized(b) = d \o b
    BY DEF Sized
  <1> HIDE DEF c, d
  <1>4. At(s, o, c) /\ At(s, o + Len(c), a) /\ At(s, o, d) /\ At(s, o + Len(d), b)
    BY <1>2, <1>3, AtCat, ZenonT(60)
  <1>5. m = n
    <2> HIDE DEF m, n
    <2> QED BY <1>1, <1>4, AtNumber DEF c, d
  <1>6. At(s, p, a) /\ At(s, p, b)
    BY <1>2, <1>4
  <1> HIDE DEF p
  <1> QED BY <1>1, <1>5, <1>6, AtSame

\* Three byte strings one after the other.
LEMMA AtCat3 ==
    ASSUME NEW s \in Seq(Byte), NEW o \in Nat, NEW a \in Seq(Byte), NEW b \in Seq(Byte),
           NEW c \in Seq(Byte), At(s, o, (a \o b) \o c)
    PROVE  At(s, o, a) /\ At(s, o + Len(a), b) /\ At(s, o + Len(a) + Len(b), c)
  <1> DEFINE x == a \o b
  <1>1. x \in Seq(Byte) /\ Len(x) = Len(a) + Len(b) /\ Len(a) \in Nat /\ Len(b) \in Nat
    BY CatFacts
  <1>2. At(s, o, x) => At(s, o, a) /\ At(s, o + Len(a), b)
    BY AtCat
  <1> HIDE DEF x
  <1>3. At(s, o, x) /\ At(s, o + Len(x), c)
    BY <1>1, AtCat DEF x
  <1>4. o + Len(x) = o + Len(a) + Len(b)
    BY <1>1
  <1> QED BY <1>2, <1>3, <1>4

\* Four byte strings one after the other.
LEMMA AtCat4 ==
    ASSUME NEW s \in Seq(Byte), NEW o \in Nat, NEW a \in Seq(Byte), NEW b \in Seq(Byte),
           NEW c \in Seq(Byte), NEW d \in Seq(Byte), At(s, o, ((a \o b) \o c) \o d)
    PROVE  /\ At(s, o, a) /\ At(s, o + Len(a), b) /\ At(s, o + Len(a) + Len(b), c)
           /\ At(s, o + Len(a) + Len(b) + Len(c), d)
  <1> DEFINE x == a \o b
             y == x \o c
  <1>1. x \in Seq(Byte) /\ Len(x) = Len(a) + Len(b) /\ Len(a) \in Nat /\ Len(b) \in Nat
    BY CatFacts
  <1>2. At(s, o, x) => At(s, o, a) /\ At(s, o + Len(a), b)
    BY AtCat
  <1> HIDE DEF x
  <1>3. At(s, o, y \o d)
    BY DEF x
  <1>4. At(s, o, x) /\ At(s, o + Len(x), c) /\ At(s, o + Len(x) + Len(c), d)
    BY <1>1, <1>3, AtCat3
  <1>5. o + Len(x) = o + Len(a) + Len(b)
    BY <1>1
  <1> QED BY <1>2, <1>4, <1>5

\* What is put together is there part by part.
LEMMA ConcatAt ==
    ASSUME NEW s \in Seq(Byte), NEW o \in Nat, NEW n \in Nat, NEW p \in [1 .. n -> Seq(Byte)],
           NEW f \in [0 .. n -> Seq(Byte)], \A i \in 1 .. n : f[i] = f[i - 1] \o p[i],
           At(s, o, f[n])
    PROVE  \A k \in 1 .. n : At(s, o, f[k - 1]) /\ At(s, o + Len(f[k - 1]), p[k])
  <1> DEFINE T == {j \in 0 .. n : At(s, o, f[n - j])}
  <1>1. ASSUME NEW k \in 1 .. n, At(s, o, f[k])
        PROVE  At(s, o, f[k - 1]) /\ At(s, o + Len(f[k - 1]), p[k])
    <2> DEFINE a == f[k - 1]
               b == p[k]
    <2>1. a \in Seq(Byte) /\ b \in Seq(Byte) /\ At(s, o, a \o b)
      <3>1. a \in Seq(Byte) /\ b \in Seq(Byte)
        OBVIOUS
      <3>2. f[k] = a \o b
        OBVIOUS
      <3> HIDE DEF a, b
      <3> QED BY <1>1, <3>1, <3>2
    <2> HIDE DEF a, b
    <2>2. At(s, o, a) /\ At(s, o + Len(a), b)
      BY <2>1, AtCat
    <2> QED BY <2>2 DEF a, b
  <1>2. 0 \in T
    <2>1. n - 0 = n
      OBVIOUS
    <2> QED BY <2>1
  <1>3. ASSUME NEW j \in 0 .. n - 1, j \in T PROVE j + 1 \in T
    <2>1. n - j \in 1 .. n /\ (n - j) - 1 = n - (j + 1) /\ At(s, o, f[n - j])
      BY <1>3
    <2>2. At(s, o, f[(n - j) - 1])
      BY <1>1, <2>1
    <2> QED BY <2>1, <2>2
  <1>4. \A j \in 0 .. n : j \in T
    <2> HIDE DEF T
    <2> QED BY <1>2, <1>3, UpTo
  <1>5. ASSUME NEW k \in 1 .. n PROVE At(s, o, f[k])
    <2>1. n - k \in 0 .. n /\ n - (n - k) = k
      OBVIOUS
    <2>2. n - k \in T
      BY <1>4, <2>1
    <2> QED BY <2>1, <2>2
  <1> QED BY <1>1, <1>5

\* Lists of as many parts at one place are equal, when the parts at one place are.
LEMMA ListsAgree ==
    ASSUME NEW s \in Seq(Byte), NEW o \in Nat, NEW n \in Nat,
           NEW p \in Seq(Seq(Byte)), NEW q \in Seq(Seq(Byte)), Len(p) = n, Len(q) = n,
           At(s, o, Concat(p)), At(s, o, Concat(q)),
           \A k \in 1 .. n : \A j \in Nat : At(s, j, p[k]) /\ At(s, j, q[k]) => p[k] = q[k]
    PROVE  \A k \in 1 .. n : \E j \in Nat : At(s, j, p[k]) /\ At(s, j, q[k])
  <1>1. PICK f \in [0 .. n -> Seq(Byte)] :
             f[0] = <<>> /\ (\A i \in 1 .. n : f[i] = f[i - 1] \o p[i]) /\ Concat(p) = f[n]
    BY ConcatTable
  <1>2. PICK g \in [0 .. n -> Seq(Byte)] :
             g[0] = <<>> /\ (\A i \in 1 .. n : g[i] = g[i - 1] \o q[i]) /\ Concat(q) = g[n]
    BY ConcatTable
  <1>3. p \in [1 .. n -> Seq(Byte)] /\ q \in [1 .. n -> Seq(Byte)]
    OBVIOUS
  <1>4. \A k \in 1 .. n : At(s, o + Len(f[k - 1]), p[k])
    BY <1>1, <1>3, ConcatAt
  <1>5. \A k \in 1 .. n : At(s, o + Len(g[k - 1]), q[k])
    BY <1>2, <1>3, ConcatAt
  <1>6. ASSUME NEW k \in 1 .. n, f[k - 1] = g[k - 1]
        PROVE  \E j \in Nat : At(s, j, p[k]) /\ At(s, j, q[k])
    <2> DEFINE j == o + Len(f[k - 1])
    <2>1. f[k - 1] \in Seq(Byte)
      OBVIOUS
    <2>2. j \in Nat
      BY <2>1
    <2>3. At(s, j, p[k]) /\ At(s, j, q[k])
      BY <1>4, <1>5, <1>6
    <2> HIDE DEF j
    <2> QED BY <2>2, <2>3
  <1> DEFINE T == {k \in 0 .. n : f[k] = g[k]}
  <1>7. 0 \in T
    BY <1>1, <1>2
  <1>8. ASSUME NEW k \in 0 .. n - 1, k \in T PROVE k + 1 \in T
    <2> DEFINE m == k + 1
    <2>1. m \in 1 .. n /\ m - 1 = k /\ m \in 0 .. n /\ f[k] = g[k]
      BY <1>8
    <2> HIDE DEF m
    <2>2. f[m - 1] = g[m - 1]
      BY <2>1
    <2>3. p[m] = q[m]
      BY <1>6, <2>1, <2>2
    <2>4. f[m] = f[m - 1] \o p[m] /\ g[m] = g[m - 1] \o q[m]
      BY <1>1, <1>2, <2>1
    <2>5. f[m] = g[m]
      BY <2>2, <2>3, <2>4, Zenon
    <2> QED BY <2>1, <2>5 DEF m
  <1>9. \A k \in 0 .. n : k \in T
    <2> HIDE DEF T
    <2> QED BY <1>7, <1>8, UpTo
  <1>10. ASSUME NEW k \in 1 .. n PROVE f[k - 1] = g[k - 1]
    <2>1. k - 1 \in 0 .. n
      OBVIOUS
    <2> QED BY <1>9, <2>1
  <1> QED BY <1>6, <1>10

\* RoomMemberInfo and PlayerStateInfo, and the bytes of the latter.
Member == [player_id : 0 .. Max64, player_name : Seq(Byte)]
State == [player_id : 0 .. Max64, x : Int32s, y : Int32s, hp : Int32s]
StateBytes(state) ==
    Bytes64(state.player_id) \o Bytes(ToBits(state.x), W32)
      \o Bytes(ToBits(state.y), W32) \o Bytes(ToBits(state.hp), W32)

\* The bytes of a member, and the members at one place.
LEMMA MemberFacts ==
    ASSUME NEW a \in Member, ValidName(a.player_name)
    PROVE  /\ MemberBytes(a) \in Seq(Byte)
           /\ \A b \in Member, s \in Seq(Byte), o \in Nat :
                /\ ValidName(b.player_name)
                /\ At(s, o, MemberBytes(a)) /\ At(s, o, MemberBytes(b))
                => a = b
  <1>1. ASSUME NEW b \in Member, ValidName(b.player_name)
        PROVE  /\ b.player_id \in 0 .. Max64 /\ b.player_name \in Seq(Byte)
               /\ Len(b.player_name) <= Max16
               /\ Bytes64(b.player_id) \in Seq(Byte) /\ Len(Bytes64(b.player_id)) = W64
               /\ Sized(b.player_name) \in Seq(Byte)
               /\ MemberBytes(b) = Bytes64(b.player_id) \o Sized(b.player_name)
    <2>1. b.player_id \in 0 .. Max64 /\ b.player_name \in Seq(Byte)
      BY DEF Member
    <2>2. Len(b.player_name) <= Max16
      <3> DEFINE l == Len(b.player_name)
      <3>1. l \in 1 .. MaxNameSize
        BY <1>1 DEF ValidName
      <3> HIDE DEF l
      <3>2. l <= Max16
        BY <3>1, ProtocolAssumption, WidthFacts
      <3> QED BY <3>2 DEF l
    <2>3. Bytes64(b.player_id) \in Seq(Byte) /\ Len(Bytes64(b.player_id)) = W64
      BY <2>1, Bytes64Facts
    <2>4. Sized(b.player_name) \in Seq(Byte)
      BY <2>1, <2>2, SizedFacts
    <2> QED BY <2>1, <2>2, <2>3, <2>4 DEF MemberBytes
  <1>2. MemberBytes(a) \in Seq(Byte)
    BY <1>1, CatFacts, ZenonT(60)
  <1>3. ASSUME NEW b \in Member, NEW s \in Seq(Byte), NEW o \in Nat, ValidName(b.player_name),
               At(s, o, MemberBytes(a)), At(s, o, MemberBytes(b))
        PROVE  a = b
    <2> DEFINE c == Bytes64(a.player_id)
               d == Sized(a.player_name)
               e == Bytes64(b.player_id)
               f == Sized(b.player_name)
               j == o + W64
    <2>1. c \in Seq(Byte) /\ d \in Seq(Byte) /\ Len(c) = W64 /\ MemberBytes(a) = c \o d
      BY <1>1
    <2>2. e \in Seq(Byte) /\ f \in Seq(Byte) /\ Len(e) = W64 /\ MemberBytes(b) = e \o f
      BY <1>1, <1>3
    <2> HIDE DEF c, d, e, f
    <2>3. At(s, o, c) /\ At(s, o + Len(c), d)
      BY <1>3, <2>1, AtCat
    <2>4. At(s, o, e) /\ At(s, o + Len(e), f)
      BY <1>3, <2>2, AtCat
    <2>5. j \in Nat
      BY WidthFacts
    <2>6. At(s, j, d) /\ At(s, j, f)
      BY <2>1, <2>2, <2>3, <2>4
    <2> HIDE DEF j
    <2>7. a.player_id = b.player_id
      BY <1>1, <1>3, <2>3, <2>4, AtNumber64 DEF c, e
    <2>8. a.player_name = b.player_name
      BY <1>1, <1>3, <2>5, <2>6, AtSized DEF d, f
    <2> QED BY <2>7, <2>8 DEF Member
  <1> QED BY <1>2, <1>3

\* The bytes of a player's state, and the states at one place.
LEMMA StateFacts ==
    ASSUME NEW a \in State
    PROVE  /\ StateBytes(a) \in Seq(Byte)
           /\ \A b \in State, s \in Seq(Byte), o \in Nat :
                At(s, o, StateBytes(a)) /\ At(s, o, StateBytes(b)) => a = b
  <1>1. ASSUME NEW v \in Int32s
        PROVE  ToBits(v) \in 0 .. Power(W32) - 1
               /\ Bytes(ToBits(v), W32) \in Seq(Byte) /\ Len(Bytes(ToBits(v), W32)) = W32
    <2>1. 0 \in 0 .. Max32 /\ W32 \in Nat /\ Max32 = Power(W32) - 1 /\ Power(W32) \in Nat
      BY WidthFacts
    <2>2. ToBits(v) \in 0 .. Max32
      BY <2>1, BitsExact
    <2>3. ToBits(v) \in 0 .. Power(W32) - 1 /\ ToBits(v) \in Nat
      BY <2>1, <2>2
    <2> QED BY <2>1, <2>3, BytesFacts
  <1>2. ASSUME NEW u \in Int32s, NEW v \in Int32s, NEW s \in Seq(Byte), NEW o \in Nat,
               At(s, o, Bytes(ToBits(u), W32)), At(s, o, Bytes(ToBits(v), W32))
        PROVE  u = v
    <2> DEFINE x == ToBits(u)
               y == ToBits(v)
    <2>1. x \in 0 .. Power(W32) - 1 /\ y \in 0 .. Power(W32) - 1 /\ W32 \in Nat
      BY <1>1, WidthFacts
    <2>2. x = y
      <3> HIDE DEF x, y
      <3>1. At(s, o, Bytes(x, W32)) /\ At(s, o, Bytes(y, W32))
        BY <1>2 DEF x, y
      <3> QED BY <2>1, <3>1, AtNumber
    <2>3. x \in 0 .. Max32
      BY <2>1, WidthFacts
    <2>4. u = FromBits(x)
      BY <2>3, BitsExact
    <2>5. v = FromBits(x)
      BY <2>2, <2>3, BitsExact
    <2> QED BY <2>4, <2>5
  <1>3. ASSUME NEW b \in State
        PROVE  /\ b.player_id \in 0 .. Max64 /\ b.x \in Int32s /\ b.y \in Int32s /\ b.hp \in Int32s
               /\ Bytes64(b.player_id) \in Seq(Byte) /\ Len(Bytes64(b.player_id)) = W64
    <2>1. b.player_id \in 0 .. Max64 /\ b.x \in Int32s /\ b.y \in Int32s /\ b.hp \in Int32s
      BY DEF State
    <2> QED BY <2>1, Bytes64Facts
  <1>4. StateBytes(a) \in Seq(Byte)
    <2> DEFINE c1 == Bytes64(a.player_id)
               c2 == Bytes(ToBits(a.x), W32)
               c3 == Bytes(ToBits(a.y), W32)
               c4 == Bytes(ToBits(a.hp), W32)
    <2>1. c1 \in Seq(Byte) /\ c2 \in Seq(Byte) /\ c3 \in Seq(Byte) /\ c4 \in Seq(Byte)
      BY <1>1, <1>3
    <2>2. StateBytes(a) = ((c1 \o c2) \o c3) \o c4
      BY DEF StateBytes
    <2> HIDE DEF c1, c2, c3, c4
    <2>3. c1 \o c2 \in Seq(Byte)
      BY <2>1, CatFacts
    <2>4. (c1 \o c2) \o c3 \in Seq(Byte)
      BY <2>1, <2>3, CatFacts
    <2> QED BY <2>1, <2>2, <2>4, CatFacts
  <1>5. ASSUME NEW b \in State, NEW s \in Seq(Byte), NEW o \in Nat,
               At(s, o, StateBytes(a)), At(s, o, StateBytes(b))
        PROVE  a = b
    <2> DEFINE c1 == Bytes64(a.player_id)
               c2 == Bytes(ToBits(a.x), W32)
               c3 == Bytes(ToBits(a.y), W32)
               c4 == Bytes(ToBits(a.hp), W32)
               d1 == Bytes64(b.player_id)
               d2 == Bytes(ToBits(b.x), W32)
               d3 == Bytes(ToBits(b.y), W32)
               d4 == Bytes(ToBits(b.hp), W32)
               o2 == o + W64
               o3 == o + W64 + W32
               o4 == o + W64 + W32 + W32
    <2>1. /\ c1 \in Seq(Byte) /\ c2 \in Seq(Byte) /\ c3 \in Seq(Byte) /\ c4 \in Seq(Byte)
          /\ Len(c1) = W64 /\ Len(c2) = W32 /\ Len(c3) = W32
      BY <1>1, <1>3
    <2>2. /\ d1 \in Seq(Byte) /\ d2 \in Seq(Byte) /\ d3 \in Seq(Byte) /\ d4 \in Seq(Byte)
          /\ Len(d1) = W64 /\ Len(d2) = W32 /\ Len(d3) = W32
      BY <1>1, <1>3
    <2>3. At(s, o, ((c1 \o c2) \o c3) \o c4) /\ At(s, o, ((d1 \o d2) \o d3) \o d4)
      BY <1>5 DEF StateBytes
    <2> HIDE DEF c1, c2, c3, c4, d1, d2, d3, d4
    <2>4. At(s, o, c1) /\ At(s, o + Len(c1), c2) /\ At(s, o + Len(c1) + Len(c2), c3)
          /\ At(s, o + Len(c1) + Len(c2) + Len(c3), c4)
      BY <2>1, <2>3, AtCat4
    <2>5. At(s, o, d1) /\ At(s, o + Len(d1), d2) /\ At(s, o + Len(d1) + Len(d2), d3)
          /\ At(s, o + Len(d1) + Len(d2) + Len(d3), d4)
      BY <2>2, <2>3, AtCat4
    <2>6. At(s, o2, c2) /\ At(s, o3, c3) /\ At(s, o4, c4)
      BY <2>1, <2>4, Zenon
    <2>7. At(s, o2, d2) /\ At(s, o3, d3) /\ At(s, o4, d4)
      BY <2>2, <2>5, Zenon
    <2>8. o2 \in Nat /\ o3 \in Nat /\ o4 \in Nat
      BY WidthFacts
    <2> HIDE DEF o2, o3, o4
    <2>9. a.player_id = b.player_id
      BY <1>3, <2>4, <2>5, AtNumber64 DEF c1, d1
    <2>10. a.x = b.x
      BY <1>2, <1>3, <2>6, <2>7, <2>8 DEF c2, d2
    <2>11. a.y = b.y
      BY <1>2, <1>3, <2>6, <2>7, <2>8 DEF c3, d3
    <2>12. a.hp = b.hp
      BY <1>2, <1>3, <2>6, <2>7, <2>8 DEF c4, d4
    <2> QED BY <2>9, <2>10, <2>11, <2>12 DEF State
  <1> QED BY <1>4, <1>5

\* The bytes of the members, each after the other.
MemberParts(members) == [i \in DOMAIN members |-> MemberBytes(members[i])]
StateParts(states) == [i \in DOMAIN states |-> StateBytes(states[i])]

\* The members at one place are equal.
LEMMA MembersFacts ==
    ASSUME NEW m \in MemberList, ValidMembers(m)
    PROVE  /\ MembersBytes(m) \in Seq(Byte)
           /\ \A l \in MemberList, s \in Seq(Byte), o \in Nat :
                /\ ValidMembers(l)
                /\ At(s, o, MembersBytes(m)) /\ At(s, o, MembersBytes(l))
                => m = l
  <1>1. ASSUME NEW l \in MemberList, ValidMembers(l)
        PROVE  /\ l \in Seq(Member) /\ Len(l) \in Nat /\ Len(l) \in 0 .. Power(W16) - 1
               /\ \A i \in 1 .. Len(l) : l[i] \in Member /\ ValidName(l[i].player_name)
               /\ MemberParts(l) \in Seq(Seq(Byte)) /\ Len(MemberParts(l)) = Len(l)
               /\ \A i \in 1 .. Len(l) : MemberParts(l)[i] = MemberBytes(l[i])
               /\ Bytes(Len(l), W16) \in Seq(Byte) /\ Len(Bytes(Len(l), W16)) = W16
               /\ Concat(MemberParts(l)) \in Seq(Byte)
               /\ MembersBytes(l) = Bytes(Len(l), W16) \o Concat(MemberParts(l))
    <2> DEFINE n == Len(l)
    <2>1. l \in Seq(Member) /\ n \in Nat /\ DOMAIN l = 1 .. n /\ n <= Max16
      BY <1>1 DEF MemberList, Member, ValidMembers
    <2>2. \A i \in 1 .. n : l[i] \in Member /\ ValidName(l[i].player_name)
      BY <1>1, <2>1 DEF ValidMembers
    <2>3. \A i \in 1 .. n : MemberBytes(l[i]) \in Seq(Byte)
      BY <2>2, MemberFacts
    <2>4. MemberParts(l) = [i \in 1 .. n |-> MemberBytes(l[i])]
      BY <2>1 DEF MemberParts
    <2>5. MembersBytes(l) = Bytes(n, W16) \o Concat(MemberParts(l))
      BY DEF MembersBytes, MemberParts
    <2> HIDE DEF n
    <2>6. MemberParts(l) \in [1 .. n -> Seq(Byte)]
      BY <2>3, <2>4
    <2>7. MemberParts(l) \in Seq(Seq(Byte)) /\ Len(MemberParts(l)) = n
      BY <2>1, <2>6
    <2>8. \A i \in 1 .. n : MemberParts(l)[i] = MemberBytes(l[i])
      BY <2>4
    <2>9. n \in 0 .. Power(W16) - 1 /\ W16 \in Nat
      BY <2>1, WidthFacts
    <2>10. Bytes(n, W16) \in Seq(Byte) /\ Len(Bytes(n, W16)) = W16
      BY <2>1, <2>9, BytesFacts
    <2>11. Concat(MemberParts(l)) \in Seq(Byte)
      <3>1. <<>> \in Seq(Byte)
        OBVIOUS
      <3> QED BY <2>7, <3>1, ConcatAppend
    <2> QED BY <2>1, <2>2, <2>5, <2>7, <2>8, <2>9, <2>10, <2>11 DEF n
  <1>2. MembersBytes(m) \in Seq(Byte)
    BY <1>1, CatFacts
  <1>3. ASSUME NEW l \in MemberList, NEW s \in Seq(Byte), NEW o \in Nat, ValidMembers(l),
               At(s, o, MembersBytes(m)), At(s, o, MembersBytes(l))
        PROVE  m = l
    <2> DEFINE n == Len(m)
               k == Len(l)
               a == Bytes(n, W16)
               b == Bytes(k, W16)
               p == MemberParts(m)
               q == MemberParts(l)
               j == o + W16
    <2>1. /\ m \in Seq(Member) /\ n \in 0 .. Power(W16) - 1 /\ n \in Nat
          /\ \A i \in 1 .. n : m[i] \in Member /\ ValidName(m[i].player_name)
          /\ p \in Seq(Seq(Byte)) /\ Len(p) = n /\ \A i \in 1 .. n : p[i] = MemberBytes(m[i])
      BY <1>1
    <2>2. a \in Seq(Byte) /\ Len(a) = W16 /\ Concat(p) \in Seq(Byte)
          /\ MembersBytes(m) = a \o Concat(p)
      BY <1>1
    <2>3. /\ l \in Seq(Member) /\ k \in 0 .. Power(W16) - 1
          /\ \A i \in 1 .. k : l[i] \in Member /\ ValidName(l[i].player_name)
          /\ q \in Seq(Seq(Byte)) /\ Len(q) = k /\ \A i \in 1 .. k : q[i] = MemberBytes(l[i])
      BY <1>1, <1>3
    <2>4. b \in Seq(Byte) /\ Len(b) = W16 /\ Concat(q) \in Seq(Byte)
          /\ MembersBytes(l) = b \o Concat(q)
      BY <1>1, <1>3
    <2> HIDE DEF a, b, p, q
    <2>5. At(s, o, a) /\ At(s, o + Len(a), Concat(p))
      BY <1>3, <2>2, AtCat
    <2>6. At(s, o, b) /\ At(s, o + Len(b), Concat(q))
      BY <1>3, <2>4, AtCat
    <2>7. j \in Nat /\ At(s, j, Concat(p)) /\ At(s, j, Concat(q)) /\ W16 \in Nat
      BY <2>2, <2>4, <2>5, <2>6, WidthFacts
    <2>8. n = k
      <3> HIDE DEF n, k
      <3> QED BY <2>1, <2>3, <2>5, <2>6, <2>7, AtNumber DEF a, b
    <2> HIDE DEF j, n, k
    <2>9. \A i \in 1 .. n : \A h \in Nat : At(s, h, p[i]) /\ At(s, h, q[i]) => m[i] = l[i]
      <3> SUFFICES ASSUME NEW i \in 1 .. n, NEW h \in Nat, At(s, h, p[i]), At(s, h, q[i])
                   PROVE  m[i] = l[i]
        OBVIOUS
      <3> DEFINE x == m[i]
                 y == l[i]
      <3> HIDE DEF x, y
      <3>1. x \in Member /\ ValidName(x.player_name) /\ At(s, h, MemberBytes(x))
        BY <2>1 DEF x
      <3>2. y \in Member /\ ValidName(y.player_name) /\ At(s, h, MemberBytes(y))
        BY <2>3, <2>8 DEF y
      <3>3. x = y
        BY <3>1, <3>2, MemberFacts
      <3> QED BY <3>3 DEF x, y
    <2>10. \A i \in 1 .. n : \A h \in Nat : At(s, h, p[i]) /\ At(s, h, q[i]) => p[i] = q[i]
      BY <2>1, <2>3, <2>8, <2>9
    <2>11. \A i \in 1 .. n : \E h \in Nat : At(s, h, p[i]) /\ At(s, h, q[i])
      BY <2>1, <2>3, <2>7, <2>8, <2>10, ListsAgree
    <2>12. \A i \in 1 .. n : m[i] = l[i]
      BY <2>9, <2>11
    <2>13. Len(m) = n /\ Len(l) = n
      BY <2>8 DEF n, k
    <2> QED BY <2>1, <2>3, <2>12, <2>13
  <1> QED BY <1>2, <1>3

\* The states at one place are equal.
LEMMA StatesFacts ==
    ASSUME NEW m \in StateList, ValidStates(m)
    PROVE  /\ StatesBytes(m) \in Seq(Byte)
           /\ \A l \in StateList, s \in Seq(Byte), o \in Nat :
                /\ ValidStates(l)
                /\ At(s, o, StatesBytes(m)) /\ At(s, o, StatesBytes(l))
                => m = l
  <1>1. ASSUME NEW l \in StateList, ValidStates(l)
        PROVE  /\ l \in Seq(State) /\ Len(l) \in Nat /\ Len(l) \in 0 .. Power(W16) - 1
               /\ \A i \in 1 .. Len(l) : l[i] \in State
               /\ StateParts(l) \in Seq(Seq(Byte)) /\ Len(StateParts(l)) = Len(l)
               /\ \A i \in 1 .. Len(l) : StateParts(l)[i] = StateBytes(l[i])
               /\ Bytes(Len(l), W16) \in Seq(Byte) /\ Len(Bytes(Len(l), W16)) = W16
               /\ Concat(StateParts(l)) \in Seq(Byte)
               /\ StatesBytes(l) = Bytes(Len(l), W16) \o Concat(StateParts(l))
    <2> DEFINE n == Len(l)
    <2>1. l \in Seq(State) /\ n \in Nat /\ DOMAIN l = 1 .. n /\ n <= Max16
      BY <1>1 DEF StateList, State, ValidStates
    <2>2. \A i \in 1 .. n : l[i] \in State
      BY <1>1, <2>1 DEF ValidStates
    <2>3. \A i \in 1 .. n : StateBytes(l[i]) \in Seq(Byte)
      BY <2>2, StateFacts
    <2>4. StateParts(l) = [i \in 1 .. n |-> StateBytes(l[i])]
      BY <2>1 DEF StateParts
    <2>5. StatesBytes(l) = Bytes(n, W16) \o Concat(StateParts(l))
      BY DEF StatesBytes, StateParts, StateBytes
    <2> HIDE DEF n
    <2>6. StateParts(l) \in [1 .. n -> Seq(Byte)]
      BY <2>3, <2>4
    <2>7. StateParts(l) \in Seq(Seq(Byte)) /\ Len(StateParts(l)) = n
      BY <2>1, <2>6
    <2>8. \A i \in 1 .. n : StateParts(l)[i] = StateBytes(l[i])
      BY <2>4
    <2>9. n \in 0 .. Power(W16) - 1 /\ W16 \in Nat
      BY <2>1, WidthFacts
    <2>10. Bytes(n, W16) \in Seq(Byte) /\ Len(Bytes(n, W16)) = W16
      BY <2>1, <2>9, BytesFacts
    <2>11. Concat(StateParts(l)) \in Seq(Byte)
      <3>1. <<>> \in Seq(Byte)
        OBVIOUS
      <3> QED BY <2>7, <3>1, ConcatAppend
    <2> QED BY <2>1, <2>2, <2>5, <2>7, <2>8, <2>9, <2>10, <2>11 DEF n
  <1>2. StatesBytes(m) \in Seq(Byte)
    BY <1>1, CatFacts
  <1>3. ASSUME NEW l \in StateList, NEW s \in Seq(Byte), NEW o \in Nat, ValidStates(l),
               At(s, o, StatesBytes(m)), At(s, o, StatesBytes(l))
        PROVE  m = l
    <2> DEFINE n == Len(m)
               k == Len(l)
               a == Bytes(n, W16)
               b == Bytes(k, W16)
               p == StateParts(m)
               q == StateParts(l)
               j == o + W16
    <2>1. /\ m \in Seq(State) /\ n \in 0 .. Power(W16) - 1 /\ n \in Nat
          /\ \A i \in 1 .. n : m[i] \in State
          /\ p \in Seq(Seq(Byte)) /\ Len(p) = n /\ \A i \in 1 .. n : p[i] = StateBytes(m[i])
      BY <1>1
    <2>2. a \in Seq(Byte) /\ Len(a) = W16 /\ Concat(p) \in Seq(Byte)
          /\ StatesBytes(m) = a \o Concat(p)
      BY <1>1
    <2>3. /\ l \in Seq(State) /\ k \in 0 .. Power(W16) - 1
          /\ \A i \in 1 .. k : l[i] \in State
          /\ q \in Seq(Seq(Byte)) /\ Len(q) = k /\ \A i \in 1 .. k : q[i] = StateBytes(l[i])
      BY <1>1, <1>3
    <2>4. b \in Seq(Byte) /\ Len(b) = W16 /\ Concat(q) \in Seq(Byte)
          /\ StatesBytes(l) = b \o Concat(q)
      BY <1>1, <1>3
    <2> HIDE DEF a, b, p, q
    <2>5. At(s, o, a) /\ At(s, o + Len(a), Concat(p))
      BY <1>3, <2>2, AtCat
    <2>6. At(s, o, b) /\ At(s, o + Len(b), Concat(q))
      BY <1>3, <2>4, AtCat
    <2>7. j \in Nat /\ At(s, j, Concat(p)) /\ At(s, j, Concat(q)) /\ W16 \in Nat
      BY <2>2, <2>4, <2>5, <2>6, WidthFacts
    <2>8. n = k
      <3> HIDE DEF n, k
      <3> QED BY <2>1, <2>3, <2>5, <2>6, <2>7, AtNumber DEF a, b
    <2> HIDE DEF j, n, k
    <2>9. \A i \in 1 .. n : \A h \in Nat : At(s, h, p[i]) /\ At(s, h, q[i]) => m[i] = l[i]
      <3> SUFFICES ASSUME NEW i \in 1 .. n, NEW h \in Nat, At(s, h, p[i]), At(s, h, q[i])
                   PROVE  m[i] = l[i]
        OBVIOUS
      <3> DEFINE x == m[i]
                 y == l[i]
      <3> HIDE DEF x, y
      <3>1. x \in State /\ At(s, h, StateBytes(x))
        BY <2>1 DEF x
      <3>2. y \in State /\ At(s, h, StateBytes(y))
        BY <2>3, <2>8 DEF y
      <3>3. x = y
        BY <3>1, <3>2, StateFacts
      <3> QED BY <3>3 DEF x, y
    <2>10. \A i \in 1 .. n : \A h \in Nat : At(s, h, p[i]) /\ At(s, h, q[i]) => p[i] = q[i]
      BY <2>1, <2>3, <2>8, <2>9
    <2>11. \A i \in 1 .. n : \E h \in Nat : At(s, h, p[i]) /\ At(s, h, q[i])
      BY <2>1, <2>3, <2>7, <2>8, <2>10, ListsAgree
    <2>12. \A i \in 1 .. n : m[i] = l[i]
      BY <2>9, <2>11
    <2>13. Len(m) = n /\ Len(l) = n
      BY <2>8 DEF n, k
    <2> QED BY <2>1, <2>3, <2>12, <2>13
  <1> QED BY <1>2, <1>3

\* Most replies begin with a room and a number of 64 bits.
Header(room, number) == Bytes(room, W32) \o Bytes64(number)

\* The headers at one place are equal.
LEMMA HeaderFacts ==
    ASSUME NEW u \in 0 .. Max32, NEW i \in 0 .. Max64
    PROVE  /\ Header(u, i) \in Seq(Byte) /\ Len(Header(u, i)) = W32 + W64
           /\ \A v \in 0 .. Max32, j \in 0 .. Max64, s \in Seq(Byte), o \in Nat :
                At(s, o, Header(u, i)) /\ At(s, o, Header(v, j)) => u = v /\ i = j
  <1>1. W32 \in Nat /\ Max32 = Power(W32) - 1 /\ Power(W32) \in Nat
    BY WidthFacts
  <1>2. ASSUME NEW v \in 0 .. Max32, NEW j \in 0 .. Max64
        PROVE  /\ v \in 0 .. Power(W32) - 1
               /\ Bytes(v, W32) \in Seq(Byte) /\ Len(Bytes(v, W32)) = W32
               /\ Bytes64(j) \in Seq(Byte) /\ Len(Bytes64(j)) = W64
    <2>1. v \in 0 .. Power(W32) - 1 /\ v \in Nat
      BY <1>1
    <2>2. Bytes(v, W32) \in Seq(Byte) /\ Len(Bytes(v, W32)) = W32
      BY <1>1, <2>1, BytesFacts
    <2> QED BY <2>1, <2>2, Bytes64Facts
  <1>3. Header(u, i) \in Seq(Byte) /\ Len(Header(u, i)) = W32 + W64
    <2> DEFINE a == Bytes(u, W32)
               b == Bytes64(i)
    <2>1. a \in Seq(Byte) /\ Len(a) = W32 /\ b \in Seq(Byte) /\ Len(b) = W64
      BY <1>2
    <2>2. Header(u, i) = a \o b
      BY DEF Header
    <2> HIDE DEF a, b
    <2>3. a \o b \in Seq(Byte) /\ Len(a \o b) = Len(a) + Len(b)
      BY <2>1, CatFacts
    <2> QED BY <2>1, <2>2, <2>3
  <1>4. ASSUME NEW v \in 0 .. Max32, NEW j \in 0 .. Max64, NEW s \in Seq(Byte), NEW o \in Nat,
               At(s, o, Header(u, i)), At(s, o, Header(v, j))
        PROVE  u = v /\ i = j
    <2> DEFINE a == Bytes(u, W32)
               b == Bytes64(i)
               c == Bytes(v, W32)
               d == Bytes64(j)
               p == o + W32
    <2>1. a \in Seq(Byte) /\ Len(a) = W32 /\ b \in Seq(Byte) /\ Header(u, i) = a \o b
      BY <1>2 DEF Header
    <2>2. c \in Seq(Byte) /\ Len(c) = W32 /\ d \in Seq(Byte) /\ Header(v, j) = c \o d
      BY <1>2 DEF Header
    <2> HIDE DEF a, b, c, d
    <2>3. At(s, o, a) /\ At(s, o + Len(a), b)
      BY <1>4, <2>1, AtCat
    <2>4. At(s, o, c) /\ At(s, o + Len(c), d)
      BY <1>4, <2>2, AtCat
    <2>5. p \in Nat /\ At(s, p, b) /\ At(s, p, d)
      BY <1>1, <2>1, <2>2, <2>3, <2>4
    <2> HIDE DEF p
    <2>6. u = v
      BY <1>1, <1>2, <2>3, <2>4, AtNumber DEF a, c
    <2>7. i = j
      BY <2>5, AtNumber64 DEF b, d
    <2> QED BY <2>6, <2>7
  <1> QED BY <1>3, <1>4

\* A header and a string, as in player_joined, chat_event and join_ok.
LEMMA HeaderString ==
    ASSUME NEW u \in 0 .. Max32, NEW i \in 0 .. Max64, NEW a \in Seq(Byte), Len(a) <= Max16
    PROVE  /\ Header(u, i) \o Sized(a) \in Seq(Byte)
           /\ \A v \in 0 .. Max32, j \in 0 .. Max64, b \in Seq(Byte), s \in Seq(Byte), o \in Nat :
                /\ Len(b) <= Max16
                /\ At(s, o, Header(u, i) \o Sized(a)) /\ At(s, o, Header(v, j) \o Sized(b))
                => u = v /\ i = j /\ a = b
  <1>1. Header(u, i) \o Sized(a) \in Seq(Byte)
    BY HeaderFacts, SizedFacts, CatFacts
  <1>2. ASSUME NEW v \in 0 .. Max32, NEW j \in 0 .. Max64, NEW b \in Seq(Byte),
               NEW s \in Seq(Byte), NEW o \in Nat, Len(b) <= Max16,
               At(s, o, Header(u, i) \o Sized(a)), At(s, o, Header(v, j) \o Sized(b))
        PROVE  u = v /\ i = j /\ a = b
    <2> DEFINE g == Header(u, i)
               h == Header(v, j)
               x == Sized(a)
               y == Sized(b)
               p == o + (W32 + W64)
    <2>1. g \in Seq(Byte) /\ Len(g) = W32 + W64 /\ h \in Seq(Byte) /\ Len(h) = W32 + W64
      BY HeaderFacts
    <2>2. x \in Seq(Byte) /\ y \in Seq(Byte)
      BY <1>2, SizedFacts
    <2>3. At(s, o, g \o x) /\ At(s, o, h \o y)
      BY <1>2
    <2> HIDE DEF g, h, x, y
    <2>4. At(s, o, g) /\ At(s, o + Len(g), x)
      BY <2>1, <2>2, <2>3, AtCat
    <2>5. At(s, o, h) /\ At(s, o + Len(h), y)
      BY <2>1, <2>2, <2>3, AtCat
    <2>6. p \in Nat /\ At(s, p, x) /\ At(s, p, y)
      BY <2>1, <2>4, <2>5, WidthFacts
    <2> HIDE DEF p
    <2>7. u = v /\ i = j
      BY <2>4, <2>5, HeaderFacts DEF g, h
    <2>8. a = b
      BY <1>2, <2>6, AtSized DEF x, y
    <2> QED BY <2>7, <2>8
  <1> QED BY <1>1, <1>2

\* The bytes of two replies of a kind are those of one only if they are equal.
Unambiguous(kind) ==
    \A r, q \in ReplyType(kind) :
      Encode(kind, r) # {} /\ Encode(kind, q) = Encode(kind, r) => q = r

\* leave_ok and heartbeat_ack have one number.
LEMMA NumberReplies == Unambiguous("leave_ok") /\ Unambiguous("heartbeat_ack")
  <1>1. ASSUME NEW r \in ReplyType("leave_ok"), NEW q \in ReplyType("leave_ok"),
               Encode("leave_ok", q) = Encode("leave_ok", r)
        PROVE  q = r
    <2> DEFINE u == q.room_id
               v == r.room_id
               s == Bytes(v, W32)
    <2>1. u \in 0 .. Max32 /\ v \in 0 .. Max32 /\ q = [room_id |-> u] /\ r = [room_id |-> v]
      BY DEF ReplyType
    <2>2. Bytes(u, W32) = s
      BY <1>1 DEF Encode, EncodeLeaveOk
    <2>3. W32 \in Nat /\ u \in 0 .. Power(W32) - 1 /\ v \in 0 .. Power(W32) - 1 /\ v \in Nat
      BY <2>1, WidthFacts
    <2> HIDE DEF u, v
    <2>4. s \in Seq(Byte)
      BY <2>3, BytesFacts
    <2>5. At(s, 0, Bytes(u, W32)) /\ At(s, 0, Bytes(v, W32)) /\ 0 \in Nat
      BY <2>2, <2>4, AtStart
    <2> HIDE DEF s
    <2>6. u = v
      BY <2>3, <2>4, <2>5, AtNumber
    <2> QED BY <2>1, <2>6
  <1>2. ASSUME NEW r \in ReplyType("heartbeat_ack"), NEW q \in ReplyType("heartbeat_ack"),
               Encode("heartbeat_ack", q) = Encode("heartbeat_ack", r)
        PROVE  q = r
    <2> DEFINE u == q.seq
               v == r.seq
               s == Bytes64(v)
    <2>1. u \in 0 .. Max64 /\ v \in 0 .. Max64 /\ q = [seq |-> u] /\ r = [seq |-> v]
      BY DEF ReplyType
    <2>2. Bytes64(u) = s
      BY <1>2 DEF Encode, EncodeHeartbeatAck
    <2> HIDE DEF u, v
    <2>4. s \in Seq(Byte)
      BY <2>1, Bytes64Facts
    <2>5. At(s, 0, Bytes64(u)) /\ At(s, 0, Bytes64(v)) /\ 0 \in Nat
      BY <2>2, <2>4, AtStart
    <2> HIDE DEF s
    <2>6. u = v
      BY <2>1, <2>4, <2>5, AtNumber64
    <2> QED BY <2>1, <2>6
  <1> QED BY <1>1, <1>2 DEF Unambiguous

\* player_left has a header, and an error two numbers.
LEMMA PairReplies == Unambiguous("player_left") /\ Unambiguous("error")
  <1>1. ASSUME NEW r \in ReplyType("player_left"), NEW q \in ReplyType("player_left"),
               Encode("player_left", q) = Encode("player_left", r)
        PROVE  q = r
    <2> DEFINE u == q.room_id
               i == q.player_id
               v == r.room_id
               j == r.player_id
               s == Header(v, j)
    <2>1. /\ u \in 0 .. Max32 /\ v \in 0 .. Max32 /\ i \in 0 .. Max64 /\ j \in 0 .. Max64
          /\ q = [room_id |-> u, player_id |-> i] /\ r = [room_id |-> v, player_id |-> j]
      BY DEF ReplyType
    <2>2. Header(u, i) = s
      BY <1>1 DEF Encode, EncodePlayerLeft, Header
    <2> HIDE DEF u, v, i, j
    <2>3. s \in Seq(Byte)
      BY <2>1, HeaderFacts
    <2>4. At(s, 0, Header(u, i)) /\ At(s, 0, Header(v, j)) /\ 0 \in Nat
      BY <2>2, <2>3, AtStart
    <2> HIDE DEF s
    <2>5. u = v /\ i = j
      BY <2>1, <2>3, <2>4, HeaderFacts
    <2> QED BY <2>1, <2>5
  <1>2. ASSUME NEW r \in ReplyType("error"), NEW q \in ReplyType("error"),
               Encode("error", r) # {}, Encode("error", q) = Encode("error", r)
        PROVE  q = r
    <2> DEFINE u == q.request_type
               i == q.error_code
               v == r.request_type
               j == r.error_code
               a == Bytes(u, W16)
               b == Bytes(i, W16)
               c == Bytes(v, W16)
               d == Bytes(j, W16)
               s == c \o d
               p == 0 + W16
    <2>1. /\ u \in 0 .. Max16 /\ v \in 0 .. Max16 /\ i \in 0 .. Max16 /\ j \in 0 .. Max16
          /\ q = [request_type |-> u, error_code |-> i]
          /\ r = [request_type |-> v, error_code |-> j]
      BY DEF ReplyType
    <2>2. a \o b = s
      <3>1. Encode("error", r) \in {{}, {s}} /\ Encode("error", q) \in {{}, {a \o b}}
        BY DEF Encode, EncodeError, If
      <3> HIDE DEF s, a, b
      <3> QED BY <1>2, <3>1
    <2>3. W16 \in Nat /\ Max16 = Power(W16) - 1 /\ Power(W16) \in Nat /\ p \in Nat
      BY WidthFacts
    <2> HIDE DEF u, v, i, j
    <2>4. /\ u \in 0 .. Power(W16) - 1 /\ v \in 0 .. Power(W16) - 1
          /\ i \in 0 .. Power(W16) - 1 /\ j \in 0 .. Power(W16) - 1
          /\ u \in Nat /\ v \in Nat /\ i \in Nat /\ j \in Nat
      BY <2>1, <2>3
    <2>5. /\ a \in Seq(Byte) /\ b \in Seq(Byte) /\ c \in Seq(Byte) /\ d \in Seq(Byte)
          /\ Len(a) = W16 /\ Len(c) = W16
      BY <2>3, <2>4, BytesFacts
    <2> HIDE DEF a, b, c, d
    <2>6. s \in Seq(Byte)
      BY <2>5, CatFacts
    <2>7. At(s, 0, a \o b) /\ At(s, 0, c \o d) /\ 0 \in Nat
      BY <2>2, <2>6, AtStart
    <2> HIDE DEF s
    <2>8. At(s, 0, a) /\ At(s, 0 + Len(a), b) /\ At(s, 0, c) /\ At(s, 0 + Len(c), d)
      BY <2>5, <2>6, <2>7, AtCat
    <2>9. At(s, p, b) /\ At(s, p, d)
      BY <2>5, <2>8
    <2> HIDE DEF p
    <2>10. u = v
      BY <2>3, <2>4, <2>6, <2>7, <2>8, AtNumber DEF a, c
    <2>11. i = j
      BY <2>3, <2>4, <2>6, <2>9, AtNumber DEF b, d
    <2> QED BY <2>1, <2>10, <2>11
  <1> QED BY <1>1, <1>2 DEF Unambiguous

\* A string whose size fits its field, and a header with a string.
Short(a) == Len(a) <= Max16
Titled(u, i, a) == Header(u, i) \o Sized(a)

\* The strings of valid replies are short.
LEMMA ShortStrings ==
    ASSUME NEW a \in Seq(Byte),
           Len(a) \in 1 .. MaxNameSize \/ Len(a) \in 1 .. MaxChatSize \/ Len(a) \in 1 .. MaxTokenSize
    PROVE  Short(a)
  <1> DEFINE x == Len(a)
  <1>1. x \in 1 .. MaxNameSize \/ x \in 1 .. MaxChatSize \/ x \in 1 .. MaxTokenSize
    OBVIOUS
  <1>2. Max16 \in Nat
    BY WidthFacts
  <1>3. ASSUME NEW n \in 0 .. Max16, x \in 1 .. n
        PROVE  x <= Max16
    <2> HIDE DEF x
    <2> QED BY <1>2, <1>3
  <1> HIDE DEF x
  <1>4. x <= Max16
    BY <1>1, <1>3, ProtocolAssumption
  <1> QED BY <1>4 DEF x, Short

\* Headers with strings that are encoded alike are equal.
LEMMA TitledFacts ==
    ASSUME NEW u \in 0 .. Max32, NEW i \in 0 .. Max64, NEW a \in Seq(Byte), Short(a)
    PROVE  /\ Titled(u, i, a) \in Seq(Byte)
           /\ \A v \in 0 .. Max32, j \in 0 .. Max64, b \in Seq(Byte), s \in Seq(Byte), o \in Nat :
                /\ Short(b) /\ At(s, o, Titled(u, i, a)) /\ At(s, o, Titled(v, j, b))
                => u = v /\ i = j /\ a = b
           /\ \A v \in 0 .. Max32, j \in 0 .. Max64, b \in Seq(Byte) :
                /\ Short(b) /\ Titled(u, i, a) = Titled(v, j, b)
                => u = v /\ i = j /\ a = b
  <1>1. Titled(u, i, a) \in Seq(Byte)
    BY HeaderString DEF Short, Titled
  <1>2. ASSUME NEW v \in 0 .. Max32, NEW j \in 0 .. Max64, NEW b \in Seq(Byte),
               NEW s \in Seq(Byte), NEW o \in Nat,
               Short(b), At(s, o, Titled(u, i, a)), At(s, o, Titled(v, j, b))
        PROVE  u = v /\ i = j /\ a = b
    BY <1>2, HeaderString DEF Short, Titled
  <1>3. ASSUME NEW v \in 0 .. Max32, NEW j \in 0 .. Max64, NEW b \in Seq(Byte),
               Short(b), Titled(u, i, a) = Titled(v, j, b)
        PROVE  u = v /\ i = j /\ a = b
    <2> DEFINE s == Titled(u, i, a)
               o == 0
    <2>1. s \in Seq(Byte) /\ At(s, o, s) /\ At(s, o, Titled(v, j, b)) /\ o \in Nat
      BY <1>1, <1>3, AtStart
    <2> HIDE DEF o
    <2> QED BY <1>2, <1>3, <2>1
  <1> QED BY <1>1, <1>2, <1>3

\* player_joined and chat_event have a header and a string.
LEMMA StringReplies == Unambiguous("player_joined") /\ Unambiguous("chat_event")
  <1>1. ASSUME NEW r \in ReplyType("player_joined"), NEW q \in ReplyType("player_joined"),
               Encode("player_joined", r) # {}, Encode("player_joined", q) = Encode("player_joined", r)
        PROVE  q = r
    <2> DEFINE Fits(m) == Len(m) \in 1 .. MaxNameSize
    <2>1. PICK u \in 0 .. Max32, i \in 0 .. Max64, a \in Seq(Byte) :
            q = [room_id |-> u, player_id |-> i, player_name |-> a]
      BY DEF ReplyType
    <2>2. PICK v \in 0 .. Max32, j \in 0 .. Max64, b \in Seq(Byte) :
            r = [room_id |-> v, player_id |-> j, player_name |-> b]
      BY DEF ReplyType
    <2>3. /\ Encode("player_joined", q) = If(Fits(a), Titled(u, i, a))
          /\ Encode("player_joined", r) = If(Fits(b), Titled(v, j, b))
      BY <2>1, <2>2 DEF Encode, EncodePlayerJoined, Titled, Header, ValidName
    <2>4. (Fits(a) => Short(a)) /\ (Fits(b) => Short(b))
      BY ShortStrings
    <2> HIDE DEF Fits
    <2>5. Short(a) /\ Short(b) /\ Titled(u, i, a) = Titled(v, j, b)
      BY <1>1, <2>3, <2>4 DEF If
    <2>6. u = v /\ i = j /\ a = b
      BY <2>5, TitledFacts
    <2> QED BY <2>1, <2>2, <2>6
  <1>2. ASSUME NEW r \in ReplyType("chat_event"), NEW q \in ReplyType("chat_event"),
               Encode("chat_event", r) # {}, Encode("chat_event", q) = Encode("chat_event", r)
        PROVE  q = r
    <2> DEFINE Fits(m) == Len(m) \in 1 .. MaxChatSize
    <2>1. PICK u \in 0 .. Max32, i \in 0 .. Max64, a \in Seq(Byte) :
            q = [room_id |-> u, player_id |-> i, message |-> a]
      BY DEF ReplyType
    <2>2. PICK v \in 0 .. Max32, j \in 0 .. Max64, b \in Seq(Byte) :
            r = [room_id |-> v, player_id |-> j, message |-> b]
      BY DEF ReplyType
    <2>3. /\ Encode("chat_event", q) = If(Fits(a), Titled(u, i, a))
          /\ Encode("chat_event", r) = If(Fits(b), Titled(v, j, b))
      BY <2>1, <2>2 DEF Encode, EncodeChatEvent, Titled, Header
    <2>4. (Fits(a) => Short(a)) /\ (Fits(b) => Short(b))
      BY ShortStrings
    <2> HIDE DEF Fits
    <2>5. Short(a) /\ Short(b) /\ Titled(u, i, a) = Titled(v, j, b)
      BY <1>2, <2>3, <2>4 DEF If
    <2>6. u = v /\ i = j /\ a = b
      BY <2>5, TitledFacts
    <2> QED BY <2>1, <2>2, <2>6
  <1> QED BY <1>1, <1>2 DEF Unambiguous

\* Two byte strings one after the other, and two that are at one place of s.
Pair(a, b) == a \o b
Aligned(s, a, b) == \E p \in Nat : At(s, p, a) /\ At(s, p, b)

\* Two pairs of byte strings at one place: when the first ones are equal, the
\* second ones are at one place too.
LEMMA AlignedPairs ==
    ASSUME NEW s \in Seq(Byte), NEW a \in Seq(Byte), NEW b \in Seq(Byte),
           NEW c \in Seq(Byte), NEW d \in Seq(Byte), Aligned(s, Pair(a, b), Pair(c, d))
    PROVE  Aligned(s, a, c) /\ (a = c => Aligned(s, b, d))
  <1>1. PICK o \in Nat : At(s, o, a \o b) /\ At(s, o, c \o d)
    BY DEF Aligned, Pair
  <1> DEFINE p == o + Len(a)
  <1>2. p \in Nat
    OBVIOUS
  <1>3. At(s, o, a) /\ At(s, p, b) /\ At(s, o, c) /\ At(s, o + Len(c), d)
    BY <1>1, AtCat
  <1>4. a = c => At(s, p, d)
    BY <1>3
  <1> HIDE DEF p
  <1> QED BY <1>2, <1>3, <1>4 DEF Aligned

\* A byte string is at the place where it is.
LEMMA AlignedSelf ==
    ASSUME NEW s \in Seq(Byte)
    PROVE  Aligned(s, s, s)
  <1> DEFINE o == 0
  <1>1. At(s, o, s) /\ o \in Nat
    BY AtStart
  <1> HIDE DEF o
  <1> QED BY <1>1 DEF Aligned

\* The payloads of the replies with lists.
SnapshotBytes(u, i, m) == Header(u, i) \o StatesBytes(m)
JoinBytes(u, i, a, l) == Titled(u, i, a) \o MembersBytes(l)
Opening(u, i, n, t) == (Header(u, i) \o Bytes(n, W16)) \o Bytes64(t)
ResumeBytes(u, i, n, t, l, m) == (Opening(u, i, n, t) \o MembersBytes(l)) \o StatesBytes(m)

\* state_snapshot has a header and the states.
LEMMA SnapshotFacts ==
    ASSUME NEW u \in 0 .. Max32, NEW i \in 0 .. Max64, NEW m \in StateList, ValidStates(m),
           NEW v \in 0 .. Max32, NEW j \in 0 .. Max64, NEW l \in StateList, ValidStates(l),
           SnapshotBytes(u, i, m) = SnapshotBytes(v, j, l)
    PROVE  u = v /\ i = j /\ m = l
  <1> DEFINE s == SnapshotBytes(u, i, m)
             a == Header(u, i)
             b == StatesBytes(m)
             c == Header(v, j)
             d == StatesBytes(l)
  <1>1. a \in Seq(Byte) /\ b \in Seq(Byte) /\ c \in Seq(Byte) /\ d \in Seq(Byte)
    BY HeaderFacts, StatesFacts
  <1>2. s = Pair(a, b) /\ s = Pair(c, d)
    BY DEF SnapshotBytes, Pair
  <1> HIDE DEF a, b, c, d, s
  <1>3. s \in Seq(Byte)
    BY <1>1, <1>2, CatFacts DEF Pair
  <1>4. Aligned(s, a, c) /\ (a = c => Aligned(s, b, d))
    <2>1. Aligned(s, Pair(a, b), Pair(c, d))
      BY <1>2, <1>3, AlignedSelf
    <2> QED BY <1>1, <1>3, <2>1, AlignedPairs
  <1>5. u = v /\ i = j
    BY <1>3, <1>4, HeaderFacts DEF a, c, Aligned
  <1>6. Aligned(s, b, d)
    BY <1>4, <1>5 DEF a, c
  <1>7. m = l
    BY <1>3, <1>6, StatesFacts DEF b, d, Aligned
  <1> QED BY <1>5, <1>7

\* join_ok has a header, the token and the members.
LEMMA JoinFacts ==
    ASSUME NEW u \in 0 .. Max32, NEW i \in 0 .. Max64, NEW e \in Seq(Byte), Short(e),
           NEW m \in MemberList, ValidMembers(m),
           NEW v \in 0 .. Max32, NEW j \in 0 .. Max64, NEW f \in Seq(Byte), Short(f),
           NEW l \in MemberList, ValidMembers(l),
           JoinBytes(u, i, e, m) = JoinBytes(v, j, f, l)
    PROVE  u = v /\ i = j /\ e = f /\ m = l
  <1> DEFINE s == JoinBytes(u, i, e, m)
             a == Titled(u, i, e)
             b == MembersBytes(m)
             c == Titled(v, j, f)
             d == MembersBytes(l)
  <1>1. a \in Seq(Byte) /\ b \in Seq(Byte) /\ c \in Seq(Byte) /\ d \in Seq(Byte)
    BY TitledFacts, MembersFacts
  <1>2. s = Pair(a, b) /\ s = Pair(c, d)
    BY DEF JoinBytes, Pair
  <1> HIDE DEF a, b, c, d, s
  <1>3. s \in Seq(Byte)
    BY <1>1, <1>2, CatFacts DEF Pair
  <1>4. Aligned(s, a, c) /\ (a = c => Aligned(s, b, d))
    <2>1. Aligned(s, Pair(a, b), Pair(c, d))
      BY <1>2, <1>3, AlignedSelf
    <2> QED BY <1>1, <1>3, <2>1, AlignedPairs
  <1>5. u = v /\ i = j /\ e = f
    BY <1>3, <1>4, TitledFacts DEF a, c, Aligned
  <1>6. Aligned(s, b, d)
    BY <1>4, <1>5 DEF a, c
  <1>7. m = l
    BY <1>3, <1>6, MembersFacts DEF b, d, Aligned
  <1> QED BY <1>5, <1>7

\* resume_ok opens with a header, the state of the room and its tick.
LEMMA OpeningFacts ==
    ASSUME NEW u \in 0 .. Max32, NEW i \in 0 .. Max64, NEW n \in 0 .. Max16, NEW t \in 0 .. Max64
    PROVE  /\ Opening(u, i, n, t) \in Seq(Byte)
           /\ \A v \in 0 .. Max32, j \in 0 .. Max64, k \in 0 .. Max16, y \in 0 .. Max64,
                 s \in Seq(Byte), o \in Nat :
                At(s, o, Opening(u, i, n, t)) /\ At(s, o, Opening(v, j, k, y))
                => u = v /\ i = j /\ n = k /\ t = y
  <1>1. W16 \in Nat /\ Max16 = Power(W16) - 1 /\ Power(W16) \in Nat
    BY WidthFacts
  <1>2. ASSUME NEW v \in 0 .. Max32, NEW j \in 0 .. Max64, NEW k \in 0 .. Max16,
               NEW y \in 0 .. Max64
        PROVE  /\ Header(v, j) \in Seq(Byte) /\ Bytes(k, W16) \in Seq(Byte)
               /\ Header(v, j) \o Bytes(k, W16) \in Seq(Byte)
               /\ Bytes64(y) \in Seq(Byte) /\ Opening(v, j, k, y) \in Seq(Byte)
    <2> DEFINE a == Header(v, j)
               b == Bytes(k, W16)
               c == Bytes64(y)
    <2>1. k \in Nat
      OBVIOUS
    <2>2. a \in Seq(Byte) /\ b \in Seq(Byte) /\ c \in Seq(Byte)
      BY <1>1, <2>1, HeaderFacts, BytesFacts, Bytes64Facts
    <2> HIDE DEF a, b, c
    <2>3. a \o b \in Seq(Byte)
      BY <2>2, CatFacts
    <2>4. (a \o b) \o c \in Seq(Byte)
      BY <2>2, <2>3, CatFacts
    <2> QED BY <2>2, <2>3, <2>4 DEF a, b, c, Opening
  <1>3. ASSUME NEW v \in 0 .. Max32, NEW j \in 0 .. Max64, NEW k \in 0 .. Max16,
               NEW y \in 0 .. Max64, NEW s \in Seq(Byte), NEW o \in Nat,
               At(s, o, Opening(u, i, n, t)), At(s, o, Opening(v, j, k, y))
        PROVE  u = v /\ i = j /\ n = k /\ t = y
    <2> DEFINE a == Header(u, i)
               b == Bytes(n, W16)
               c == Bytes64(t)
               d == Header(v, j)
               e == Bytes(k, W16)
               f == Bytes64(y)
               x == a \o b
               z == d \o e
    <2>1. /\ a \in Seq(Byte) /\ b \in Seq(Byte) /\ c \in Seq(Byte) /\ x \in Seq(Byte)
          /\ d \in Seq(Byte) /\ e \in Seq(Byte) /\ f \in Seq(Byte) /\ z \in Seq(Byte)
      BY <1>2
    <2>2. Aligned(s, Opening(u, i, n, t), Opening(v, j, k, y))
      BY <1>3 DEF Aligned
    <2>3. Opening(u, i, n, t) = Pair(x, c) /\ Opening(v, j, k, y) = Pair(z, f)
      BY DEF Opening, Pair
    <2> HIDE DEF a, b, c, d, e, f, x, z
    <2>4. Aligned(s, x, z) /\ (x = z => Aligned(s, c, f))
      <3>1. Aligned(s, Pair(x, c), Pair(z, f))
        BY <2>2, <2>3
      <3> QED BY <2>1, <3>1, AlignedPairs
    <2>5. x = Pair(a, b) /\ z = Pair(d, e)
      BY DEF x, z, Pair
    <2>6. Aligned(s, a, d) /\ (a = d => Aligned(s, b, e))
      <3>1. Aligned(s, Pair(a, b), Pair(d, e))
        BY <2>4, <2>5
      <3> QED BY <2>1, <3>1, AlignedPairs
    <2>7. u = v /\ i = j
      BY <2>6, HeaderFacts DEF a, d, Aligned
    <2>8. Aligned(s, b, e)
      BY <2>6, <2>7 DEF a, d
    <2>9. n = k
      BY <1>1, <2>8, AtNumber DEF b, e, Aligned
    <2>10. Aligned(s, c, f)
      BY <2>4, <2>5, <2>7, <2>9 DEF a, b, d, e
    <2>11. t = y
      BY <2>10, AtNumber64 DEF c, f, Aligned
    <2> QED BY <2>7, <2>9, <2>11
  <1> QED BY <1>2, <1>3

\* What a resume_ok that is encoded consists of.
Resumed(u, i, n, t, g, m) ==
    /\ u \in 0 .. Max32 /\ i \in 0 .. Max64 /\ n \in 0 .. Max16 /\ t \in 0 .. Max64
    /\ g \in MemberList /\ ValidMembers(g) /\ m \in StateList /\ ValidStates(m)

\* After its opening, resume_ok has the members and the states.
LEMMA ResumeFacts ==
    ASSUME NEW u, NEW i, NEW n, NEW t, NEW g, NEW m, Resumed(u, i, n, t, g, m),
           NEW v, NEW j, NEW k, NEW y, NEW h, NEW l, Resumed(v, j, k, y, h, l),
           ResumeBytes(u, i, n, t, g, m) = ResumeBytes(v, j, k, y, h, l)
    PROVE  u = v /\ i = j /\ n = k /\ t = y /\ g = h /\ m = l
  <1> DEFINE s == ResumeBytes(u, i, n, t, g, m)
             a == Opening(u, i, n, t)
             b == MembersBytes(g)
             c == StatesBytes(m)
             d == Opening(v, j, k, y)
             e == MembersBytes(h)
             f == StatesBytes(l)
             x == a \o b
             z == d \o e
  <1>1. /\ a \in Seq(Byte) /\ b \in Seq(Byte) /\ c \in Seq(Byte)
        /\ d \in Seq(Byte) /\ e \in Seq(Byte) /\ f \in Seq(Byte)
    BY OpeningFacts, MembersFacts, StatesFacts DEF Resumed
  <1>2. s = Pair(x, c) /\ s = Pair(z, f)
    BY DEF ResumeBytes, Pair
  <1> HIDE DEF a, b, c, d, e, f, s
  <1>3. x \in Seq(Byte) /\ z \in Seq(Byte)
    BY <1>1, CatFacts
  <1> HIDE DEF x, z
  <1>4. s \in Seq(Byte)
    BY <1>1, <1>2, <1>3, CatFacts DEF Pair
  <1>5. Aligned(s, x, z) /\ (x = z => Aligned(s, c, f))
    <2>1. Aligned(s, Pair(x, c), Pair(z, f))
      BY <1>2, <1>4, AlignedSelf
    <2> QED BY <1>1, <1>3, <1>4, <2>1, AlignedPairs
  <1>6. x = Pair(a, b) /\ z = Pair(d, e)
    BY DEF x, z, Pair
  <1>7. Aligned(s, a, d) /\ (a = d => Aligned(s, b, e))
    <2>1. Aligned(s, Pair(a, b), Pair(d, e))
      BY <1>5, <1>6
    <2> QED BY <1>1, <1>4, <2>1, AlignedPairs
  <1>8. u = v /\ i = j /\ n = k /\ t = y
    BY <1>4, <1>7, OpeningFacts DEF a, d, Aligned, Resumed
  <1>9. Aligned(s, b, e)
    BY <1>7, <1>8 DEF a, d
  <1>10. g = h
    BY <1>4, <1>9, MembersFacts DEF b, e, Aligned, Resumed
  <1>11. Aligned(s, c, f)
    BY <1>5, <1>6, <1>8, <1>10 DEF a, b, d, e
  <1>12. m = l
    BY <1>4, <1>11, StatesFacts DEF c, f, Aligned, Resumed
  <1> QED BY <1>8, <1>10, <1>12

\* state_snapshot, join_ok and resume_ok, whose lists have their sizes first.
LEMMA ListReplies ==
    Unambiguous("state_snapshot") /\ Unambiguous("join_ok") /\ Unambiguous("resume_ok")
  <1>1. ASSUME NEW r \in ReplyType("state_snapshot"), NEW q \in ReplyType("state_snapshot"),
               Encode("state_snapshot", r) # {},
               Encode("state_snapshot", q) = Encode("state_snapshot", r)
        PROVE  q = r
    <2>1. PICK u \in 0 .. Max32, i \in 0 .. Max64, m \in StateList :
            q = [room_id |-> u, tick_id |-> i, states |-> m]
      BY DEF ReplyType
    <2>2. PICK v \in 0 .. Max32, j \in 0 .. Max64, l \in StateList :
            r = [room_id |-> v, tick_id |-> j, states |-> l]
      BY DEF ReplyType
    <2>3. /\ Encode("state_snapshot", q) = If(ValidStates(m), SnapshotBytes(u, i, m))
          /\ Encode("state_snapshot", r) = If(ValidStates(l), SnapshotBytes(v, j, l))
      BY <2>1, <2>2 DEF Encode, EncodeStateSnapshot, SnapshotBytes, Header
    <2>4. ValidStates(m) /\ ValidStates(l) /\ SnapshotBytes(u, i, m) = SnapshotBytes(v, j, l)
      BY <1>1, <2>3 DEF If
    <2>5. u = v /\ i = j /\ m = l
      BY <2>4, SnapshotFacts
    <2> QED BY <2>1, <2>2, <2>5
  <1>2. ASSUME NEW r \in ReplyType("join_ok"), NEW q \in ReplyType("join_ok"),
               Encode("join_ok", r) # {}, Encode("join_ok", q) = Encode("join_ok", r)
        PROVE  q = r
    <2> DEFINE Fits(a, l) == Len(a) \in 1 .. MaxTokenSize /\ ValidMembers(l)
    <2>1. PICK u \in 0 .. Max32, i \in 0 .. Max64, a \in Seq(Byte), m \in MemberList :
            q = [room_id |-> u, player_id |-> i, token |-> a, members |-> m]
      BY DEF ReplyType
    <2>2. PICK v \in 0 .. Max32, j \in 0 .. Max64, b \in Seq(Byte), l \in MemberList :
            r = [room_id |-> v, player_id |-> j, token |-> b, members |-> l]
      BY DEF ReplyType
    <2>3. /\ Encode("join_ok", q) = If(Fits(a, m), JoinBytes(u, i, a, m))
          /\ Encode("join_ok", r) = If(Fits(b, l), JoinBytes(v, j, b, l))
      BY <2>1, <2>2 DEF Encode, EncodeJoinOk, JoinBytes, Titled, Header
    <2>4. /\ Fits(a, m) => Short(a) /\ ValidMembers(m)
          /\ Fits(b, l) => Short(b) /\ ValidMembers(l)
      BY ShortStrings
    <2> HIDE DEF Fits
    <2>5. /\ Short(a) /\ ValidMembers(m) /\ Short(b) /\ ValidMembers(l)
          /\ JoinBytes(u, i, a, m) = JoinBytes(v, j, b, l)
      BY <1>2, <2>3, <2>4 DEF If
    <2>6. u = v /\ i = j /\ a = b /\ m = l
      BY <2>5, JoinFacts
    <2> QED BY <2>1, <2>2, <2>6
  <1>3. ASSUME NEW r \in ReplyType("resume_ok"), NEW q \in ReplyType("resume_ok"),
               Encode("resume_ok", r) # {}, Encode("resume_ok", q) = Encode("resume_ok", r)
        PROVE  q = r
    <2>1. PICK u \in 0 .. Max32, i \in 0 .. Max64, n \in 0 .. Max16, t \in 0 .. Max64,
               g \in MemberList, m \in StateList :
            q = [room_id |-> u, player_id |-> i, state |-> n, tick_id |-> t,
                 members |-> g, states |-> m]
      BY DEF ReplyType
    <2>2. PICK v \in 0 .. Max32, j \in 0 .. Max64, k \in 0 .. Max16, y \in 0 .. Max64,
               h \in MemberList, l \in StateList :
            r = [room_id |-> v, player_id |-> j, state |-> k, tick_id |-> y,
                 members |-> h, states |-> l]
      BY DEF ReplyType
    <2>3. /\ Encode("resume_ok", q)
               = If(ValidMembers(g) /\ ValidStates(m), ResumeBytes(u, i, n, t, g, m))
          /\ Encode("resume_ok", r)
               = If(ValidMembers(h) /\ ValidStates(l), ResumeBytes(v, j, k, y, h, l))
      BY <2>1, <2>2 DEF Encode, EncodeResumeOk, ResumeBytes, Opening, Header
    <2>4. /\ Resumed(u, i, n, t, g, m) /\ Resumed(v, j, k, y, h, l)
          /\ ResumeBytes(u, i, n, t, g, m) = ResumeBytes(v, j, k, y, h, l)
      BY <1>3, <2>3 DEF If, Resumed
    <2>5. u = v /\ i = j /\ n = k /\ t = y /\ g = h /\ m = l
      BY <2>4, ResumeFacts
    <2> QED BY <2>1, <2>2, <2>5
  <1> QED BY <1>1, <1>2, <1>3 DEF Unambiguous

\* The reply on the bench is one the server sends.
SentReply ==
    reply # NoReply =>
      \E kind \in DOMAIN Replies : \E r \in Replies[kind] : reply = [kind |-> kind, body |-> r]

(***************************************************************************)
(* The bytes of a reply determine it (protocol.cpp:176): the replies of    *)
(* every kind, with lists, strings and numbers of any size the encoder     *)
(* lets through.                                                           *)
(***************************************************************************)
THEOREM RepliesTheorem == Spec => []RepliesAreUnambiguous
  <1>1. WireInit => SentReply
    BY DEF WireInit, SentReply
  <1>2. SentReply /\ [WireNext]_wireVars => SentReply'
    <2> SUFFICES ASSUME SentReply, [WireNext]_wireVars
                 PROVE  SentReply'
      OBVIOUS
    <2>1. CASE UNCHANGED reply
      BY <2>1 DEF SentReply
    <2>2. ASSUME NEW kind \in DOMAIN Replies, SendReply(kind)
          PROVE  SentReply'
      BY <2>2 DEF SendReply, SentReply
    <2> QED
      BY <2>1, <2>2 DEF WireNext, wireVars, talkVars, Stream, ExtendPayload
  <1>3. SentReply => RepliesAreUnambiguous
    <2> SUFFICES ASSUME SentReply, reply # NoReply
                 PROVE  \A other \in Replies[reply.kind] :
                          /\ Encode(reply.kind, reply.body) # {}
                          /\ Encode(reply.kind, other) = Encode(reply.kind, reply.body)
                          => other = reply.body
      BY DEF RepliesAreUnambiguous
    <2>1. PICK kind \in DOMAIN Replies :
            \E r \in Replies[kind] : reply = [kind |-> kind, body |-> r]
      BY DEF SentReply
    <2>2. PICK r \in Replies[kind] : reply = [kind |-> kind, body |-> r]
      BY <2>1
    <2>3. reply.kind = kind /\ reply.body = r
      BY <2>2
    <2>4. Replies[kind] \subseteq ReplyType(kind) /\ kind \in ReplyKinds
      BY WireAssumption
    <2>5. Unambiguous(kind)
      BY <2>4, NumberReplies, PairReplies, StringReplies, ListReplies DEF ReplyKinds
    <2>6. \A other \in Replies[kind] :
            Encode(kind, r) # {} /\ Encode(kind, other) = Encode(kind, r) => other = r
      BY <2>4, <2>5 DEF Unambiguous
    <2> QED BY <2>3, <2>6
  <1> QED BY <1>1, <1>2, <1>3, TalkIsWire, PTL DEF WireSpec

-----------------------------------------------------------------------------
(* The checksum. *)

\* The prime of the checksum can be divided out again.
LEMMA PrimeIsInvertible ==
    ASSUME NEW x \in 0 .. Max64, NEW y \in 0 .. Max64,
           (x * FnvPrime) % (Max64 + 1) = (y * FnvPrime) % (Max64 + 1)
    PROVE  x = y
  <1> DEFINE m == Max64 + 1
             p == FnvPrime
  <1>12. p \in 0 .. Max64 /\ Max64 \in Nat
    BY WidthFacts, ChecksumAssumption
  <1>1. m \in Nat /\ m > 0 /\ p \in Nat /\ x \in Nat /\ y \in Nat /\ x < m /\ y < m
    <2> HIDE DEF p
    <2> QED BY <1>12
  <1>2. PICK v \in Nat : (p * v) % m = 1
    <2>1. PICK v \in 0 .. Max64 : (FnvPrime * v) % (Max64 + 1) = 1
      BY ChecksumAssumption, Zenon
    <2>2. v \in Nat
      BY <1>12
    <2> QED BY <2>1, <2>2
  <1>3. (x * p) % m = (y * p) % m
    OBVIOUS
  <1> HIDE DEF m, p
  <1> DEFINE q == (p * v) \div m
             a == (x * p) \div m
             b == (y * p) \div m
             r == (x * p) % m
  <1>4. q \in Nat /\ p * v = q * m + 1
    <2>1. p * v \in Nat
      BY <1>1
    <2> DEFINE d == p * v
    <2>2. d \div m \in Nat /\ d = (d \div m) * m + (d % m)
      <3> HIDE DEF d
      <3> QED BY <1>1, <2>1, Division DEF d
    <2> QED BY <1>2, <2>2
  <1>5. a \in Nat /\ r \in Nat /\ x * p = a * m + r
    <2>1. x * p \in Nat
      BY <1>1
    <2> DEFINE d == x * p
    <2>2. d \div m \in Nat /\ d % m \in Nat /\ d = (d \div m) * m + (d % m)
      <3> HIDE DEF d
      <3> QED BY <1>1, <2>1, Division DEF d
    <2> QED BY <2>2
  <1>6. b \in Nat /\ y * p = b * m + r
    <2>1. y * p \in Nat
      BY <1>1
    <2> DEFINE d == y * p
    <2>2. d \div m \in Nat /\ d = (d \div m) * m + (d % m)
      <3> HIDE DEF d
      <3> QED BY <1>1, <2>1, Division DEF d
    <2> QED BY <1>3, <2>2
  <1> HIDE DEF q, a, b, r
  <1>7. ASSUME NEW z \in Nat, NEW c \in Nat, z * p = c * m + r
        PROVE  z = r * v + (c * v - z * q) * m
    <2>1. (z * p) * v = z * (p * v)
      BY <1>1
    <2>2. z * (p * v) = z * (q * m) + z
      BY <1>1, <1>4
    <2>3. (c * m + r) * v = (c * v) * m + r * v
      BY <1>1, <1>5
    <2>4. (c * v - z * q) * m = (c * v) * m - z * (q * m)
      BY <1>1, <1>4
    <2>5. (z * p) * v = (c * m + r) * v
      BY <1>7
    <2>6. /\ z * (q * m) \in Nat /\ (c * v) * m \in Nat /\ r * v \in Nat
          /\ (c * v - z * q) * m \in Int
      BY <1>1, <1>4, <1>5
    <2> DEFINE e == z * (q * m)
               f == (c * v) * m
               g == r * v
               h == (c * v - z * q) * m
    <2>7. e + z = f + g /\ h = f - e /\ e \in Nat /\ f \in Nat /\ g \in Nat
      BY <2>1, <2>2, <2>3, <2>4, <2>5, <2>6
    <2> HIDE DEF e, f, g, h
    <2>8. z = g + h
      BY <2>7
    <2> QED BY <2>8 DEF g, h
  <1> DEFINE i == a * v - x * q
             j == b * v - y * q
             s == r * v
  <1>8. i \in Int /\ j \in Int /\ s \in Nat
    BY <1>1, <1>4, <1>5, <1>6
  <1>9. x = s + i * m /\ y = s + j * m
    BY <1>1, <1>5, <1>6, <1>7
  <1> HIDE DEF i, j, s
  <1>10. x - y = (i - j) * m
    <2>1. (i - j) * m = i * m - j * m /\ i * m \in Int /\ j * m \in Int
      BY <1>1, <1>8
    <2> QED BY <1>1, <1>8, <1>9, <2>1
  <1>11. i - j = 0
    <2>1. CASE i - j >= 1
      <3>1. (i - j) * m >= m
        BY <1>1, <1>8, <2>1
      <3> QED BY <1>1, <1>10, <3>1
    <2>2. CASE i - j <= -1
      <3>1. (i - j) * m <= -m
        BY <1>1, <1>8, <2>2
      <3> QED BY <1>1, <1>10, <3>1
    <2> QED BY <1>8, <2>1, <2>2
  <1> QED BY <1>1, <1>8, <1>10, <1>11

\* One step of the checksum.
Mix(hash, byte) == (ExclusiveOr[hash][byte] * FnvPrime) % (Max64 + 1)

\* A step can be undone for the hash, and it tells the bytes apart.
LEMMA MixFacts ==
    ASSUME NEW g \in 0 .. Max64, NEW b \in Byte
    PROVE  /\ Mix(g, b) \in 0 .. Max64
           /\ \A h \in 0 .. Max64 : Mix(h, b) = Mix(g, b) => h = g
           /\ \A c \in Byte : Mix(g, c) = Mix(g, b) => c = b
  <1>1. \A h \in 0 .. Max64, c \in Byte : ExclusiveOr[h][c] \in 0 .. Max64
    BY ChecksumAssumption
  <1>2. Mix(g, b) \in 0 .. Max64
    <2> DEFINE d == ExclusiveOr[g][b] * FnvPrime
               m == Max64 + 1
    <2>1. ExclusiveOr[g][b] \in Nat /\ FnvPrime \in Nat /\ m \in Nat /\ m > 0
      <3> DEFINE e == ExclusiveOr[g][b]
                 p == FnvPrime
      <3>1. e \in 0 .. Max64 /\ p \in 0 .. Max64 /\ Max64 \in Nat
        BY <1>1, WidthFacts, ChecksumAssumption
      <3> HIDE DEF e, p
      <3>2. e \in Nat /\ p \in Nat /\ m \in Nat /\ m > 0
        BY <3>1
      <3> QED BY <3>2 DEF e, p
    <2>2. d \in Nat
      <3> DEFINE e == ExclusiveOr[g][b]
      <3> HIDE DEF e
      <3> QED BY <2>1 DEF e
    <2> HIDE DEF d
    <2>3. d % m \in 0 .. m - 1
      BY <2>1, <2>2, Division
    <2>4. m - 1 = Max64
      BY WidthFacts
    <2> QED BY <2>3, <2>4 DEF Mix, d
  <1>3. ASSUME NEW h \in 0 .. Max64, NEW c \in Byte, Mix(h, c) = Mix(g, b)
        PROVE  ExclusiveOr[h][c] = ExclusiveOr[g][b]
    <2> DEFINE x == ExclusiveOr[h][c]
               y == ExclusiveOr[g][b]
    <2>1. x \in 0 .. Max64 /\ y \in 0 .. Max64
      BY <1>1
    <2>2. (x * FnvPrime) % (Max64 + 1) = (y * FnvPrime) % (Max64 + 1)
      BY <1>3 DEF Mix
    <2> HIDE DEF x, y
    <2>3. x = y
      BY <2>1, <2>2, PrimeIsInvertible
    <2> QED BY <2>3 DEF x, y
  <1>4. ASSUME NEW h \in 0 .. Max64, Mix(h, b) = Mix(g, b) PROVE h = g
    <2>1. ExclusiveOr[h][b] = ExclusiveOr[g][b]
      BY <1>3, <1>4
    <2>2. /\ ExclusiveOr[ExclusiveOr[h][b]][b] = h
          /\ ExclusiveOr[ExclusiveOr[g][b]][b] = g
      BY ChecksumAssumption
    <2> QED BY <2>1, <2>2
  <1>5. ASSUME NEW c \in Byte, Mix(g, c) = Mix(g, b) PROVE c = b
    BY <1>3, <1>5, ChecksumAssumption
  <1> QED BY <1>2, <1>4, <1>5

\* Checksum(s) is the last of the hashes of the prefixes of s.
LEMMA ChecksumTable ==
    ASSUME NEW s \in Seq(Byte)
    PROVE  \E f \in [0 .. Len(s) -> 0 .. Max64] :
             /\ f[0] = FnvBasis /\ \A i \in 1 .. Len(s) : f[i] = Mix(f[i - 1], s[i])
             /\ Checksum(s) = f[Len(s)]
  <1> DEFINE n == Len(s)
             H == 0 .. Max64
             F(f) == [i \in 0 .. Len(s) |-> IF i = 0 THEN FnvBasis ELSE Mix(f[i - 1], s[i])]
             step == [i \in 1 .. n |-> [v \in H |-> Mix(v, s[i])]]
             c == CHOOSE f : f = F(f)
  <1>1. FnvBasis \in H /\ n \in Nat /\ \A i \in 1 .. n : s[i] \in Byte
    BY ChecksumAssumption
  <1>2. Checksum(s) = c[n]
    BY DEF Checksum, Fold, Mix
  <1> HIDE DEF n
  <1>3. step \in [1 .. n -> [H -> H]]
    <2>1. ASSUME NEW i \in 1 .. n, NEW v \in H PROVE Mix(v, s[i]) \in H
      BY <1>1, MixFacts
    <2> HIDE DEF H
    <2> QED BY <2>1
  <1>4. PICK g \in [0 .. n -> H] : Table(g, n, FnvBasis, step)
    <2> HIDE DEF step, H
    <2> QED BY <1>1, <1>3, TableExists
  <1> HIDE DEF H
  <1>5. g[0] = FnvBasis /\ \A i \in 1 .. n : g[i] = Mix(g[i - 1], s[i])
    <2>1. ASSUME NEW i \in 1 .. n PROVE g[i] = Mix(g[i - 1], s[i])
      <3>1. g[i - 1] \in H
        BY <1>1
      <3>2. step[i][g[i - 1]] = Mix(g[i - 1], s[i])
        BY <3>1
      <3> QED BY <1>4, <3>2 DEF Table
    <2> QED BY <1>4, <2>1 DEF Table
  <1>6. \A f : F(f) = [i \in 0 .. n |-> IF i = 0 THEN FnvBasis ELSE Mix(f[i - 1], s[i])]
    BY DEF n
  <1>7. g = F(g)
    BY <1>1, <1>5, <1>6
  <1>8. c = F(c)
    <2> HIDE DEF F
    <2> QED BY <1>7
  <1>9. c = [i \in 0 .. n |-> IF i = 0 THEN FnvBasis ELSE Mix(c[i - 1], s[i])]
    <2> HIDE DEF F, c
    <2> QED BY <1>6, <1>8
  <1> HIDE DEF c
  <1>10. c[0] = FnvBasis /\ \A i \in 1 .. n : c[i] = Mix(c[i - 1], s[i])
    BY <1>1, <1>9
  <1> DEFINE T == {k \in 0 .. n : c[k] = g[k]}
  <1>11. \A k \in 0 .. n : k \in T
    <2>1. 0 \in T
      BY <1>1, <1>5, <1>10
    <2>2. ASSUME NEW k \in 0 .. n - 1, k \in T PROVE k + 1 \in T
      <3>1. k + 1 \in 1 .. n /\ k + 1 \in 0 .. n /\ (k + 1) - 1 = k /\ c[k] = g[k]
        BY <1>1, <2>2
      <3>2. c[k + 1] = Mix(c[k], s[k + 1]) /\ g[k + 1] = Mix(g[k], s[k + 1])
        BY <1>5, <1>10, <3>1
      <3> QED BY <3>1, <3>2
    <2> HIDE DEF T
    <2> QED BY <1>1, <2>1, <2>2, UpTo
  <1>12. c[n] = g[n]
    BY <1>1, <1>11
  <1> QED BY <1>2, <1>5, <1>12 DEF n, H

\* One other byte makes another checksum.
LEMMA ChecksumTellsBytes ==
    ASSUME NEW s \in Seq(Byte), NEW t \in Seq(Byte), Len(t) = Len(s), NEW k \in 1 .. Len(s),
           t[k] # s[k], \A i \in 1 .. Len(s) : i # k => t[i] = s[i]
    PROVE  Checksum(s) \in 0 .. Max64 /\ Checksum(t) # Checksum(s)
  <1> DEFINE n == Len(s)
  <1>1. n \in Nat /\ Len(t) = n /\ k \in 1 .. n
        /\ \A i \in 1 .. n : s[i] \in Byte /\ t[i] \in Byte
    OBVIOUS
  <1>2. PICK f \in [0 .. n -> 0 .. Max64] :
             /\ f[0] = FnvBasis /\ \A i \in 1 .. n : f[i] = Mix(f[i - 1], s[i])
             /\ Checksum(s) = f[n]
    BY ChecksumTable
  <1>3. PICK g \in [0 .. n -> 0 .. Max64] :
             /\ g[0] = FnvBasis /\ \A i \in 1 .. n : g[i] = Mix(g[i - 1], t[i])
             /\ Checksum(t) = g[n]
    BY <1>1, ChecksumTable
  <1>4. t[k] # s[k] /\ \A i \in 1 .. n : i # k => t[i] = s[i]
    OBVIOUS
  <1> HIDE DEF n
  <1> DEFINE T == {j \in 0 .. n : (j < k => g[j] = f[j]) /\ (j >= k => g[j] # f[j])}
  <1>5. 0 \in T
    BY <1>1, <1>2, <1>3
  <1>6. ASSUME NEW j \in 0 .. n - 1, j \in T PROVE j + 1 \in T
    <2> DEFINE l == j + 1
    <2>1. /\ l \in 1 .. n /\ l \in 0 .. n /\ l - 1 = j
          /\ f[j] \in 0 .. Max64 /\ g[j] \in 0 .. Max64
          /\ s[l] \in Byte /\ t[l] \in Byte
          /\ f[l] = Mix(f[j], s[l]) /\ g[l] = Mix(g[j], t[l])
      BY <1>1, <1>2, <1>3, SMTT(30)
    <2>5. j < k => g[j] = f[j]
      BY <1>6
    <2>6. j >= k => g[j] # f[j]
      BY <1>6
    <2> HIDE DEF l
    <2>7. /\ g[j] = f[j] /\ t[l] # s[l] => g[l] # f[l]
          /\ g[j] # f[j] /\ t[l] = s[l] => g[l] # f[l]
      <3> DEFINE u == f[j]
                 v == g[j]
                 b == s[l]
                 c == t[l]
      <3>1. u \in 0 .. Max64 /\ v \in 0 .. Max64 /\ b \in Byte /\ c \in Byte
        BY <2>1
      <3>2. f[l] = Mix(u, b) /\ g[l] = Mix(v, c)
        BY <2>1
      <3> HIDE DEF u, v, b, c
      <3>3. v = u /\ c # b => Mix(v, c) # Mix(u, b)
        BY <3>1, MixFacts
      <3>4. v # u /\ c = b => Mix(v, c) # Mix(u, b)
        BY <3>1, MixFacts
      <3> QED BY <3>2, <3>3, <3>4 DEF u, v, b, c
    <2>2. CASE l < k
      <3>1. g[j] = f[j] /\ t[l] = s[l]
        BY <1>1, <1>4, <2>1, <2>2, <2>5
      <3> QED BY <1>1, <2>1, <2>2, <3>1 DEF l
    <2>3. CASE l = k
      <3>1. g[j] = f[j] /\ t[l] # s[l]
        <4>1. j < k
          BY <1>1, <2>1, <2>3
        <4> QED BY <1>4, <2>3, <2>5, <4>1
      <3>2. g[l] # f[l]
        BY <2>7, <3>1
      <3> QED BY <1>1, <2>1, <2>3, <3>2 DEF l
    <2>4. CASE l > k
      <3>1. g[j] # f[j] /\ t[l] = s[l]
        BY <1>1, <1>4, <2>1, <2>4, <2>6
      <3>2. g[l] # f[l]
        BY <2>7, <3>1
      <3> QED BY <1>1, <2>1, <2>4, <3>2 DEF l
    <2> QED BY <1>1, <2>1, <2>2, <2>3, <2>4, SMTT(30) DEF l
  <1>7. \A j \in 0 .. n : j \in T
    <2> HIDE DEF T
    <2> QED BY <1>1, <1>5, <1>6, UpTo
  <1>8. g[n] # f[n] /\ f[n] \in 0 .. Max64
    BY <1>1, <1>7
  <1> QED BY <1>2, <1>3, <1>8

-----------------------------------------------------------------------------
(* Fields in a row. *)

\* The width of the fields of a row.
Total(widths) == Fold(LAMBDA sum, width : sum + width, 0, widths)

\* Total(s) is the last of the totals of the prefixes of s.
LEMMA TotalTable ==
    ASSUME NEW s \in Seq(Nat)
    PROVE  \E f \in [0 .. Len(s) -> Nat] :
             /\ f[0] = 0 /\ \A i \in 1 .. Len(s) : f[i] = f[i - 1] + s[i]
             /\ Total(s) = f[Len(s)]
  <1> DEFINE n == Len(s)
             F(f) == [i \in 0 .. Len(s) |-> IF i = 0 THEN 0 ELSE f[i - 1] + s[i]]
             step == [i \in 1 .. n |-> [v \in Nat |-> v + s[i]]]
             c == CHOOSE f : f = F(f)
  <1>1. n \in Nat /\ \A i \in 1 .. n : s[i] \in Nat
    OBVIOUS
  <1>2. Total(s) = c[n]
    BY DEF Total, Fold
  <1> HIDE DEF n
  <1>3. step \in [1 .. n -> [Nat -> Nat]]
    BY <1>1
  <1>4. PICK g \in [0 .. n -> Nat] : Table(g, n, 0, step)
    <2> HIDE DEF step
    <2> QED BY <1>1, <1>3, TableExists
  <1>5. g[0] = 0 /\ \A i \in 1 .. n : g[i] = g[i - 1] + s[i]
    <2>1. ASSUME NEW i \in 1 .. n PROVE g[i] = g[i - 1] + s[i]
      <3>1. g[i - 1] \in Nat
        BY <1>1
      <3>2. step[i][g[i - 1]] = g[i - 1] + s[i]
        BY <3>1
      <3> QED BY <1>4, <3>2 DEF Table
    <2> QED BY <1>4, <2>1 DEF Table
  <1>6. \A f : F(f) = [i \in 0 .. n |-> IF i = 0 THEN 0 ELSE f[i - 1] + s[i]]
    BY DEF n
  <1>7. g = F(g)
    BY <1>1, <1>5, <1>6
  <1>8. c = F(c)
    <2> HIDE DEF F
    <2> QED BY <1>7
  <1>9. c = [i \in 0 .. n |-> IF i = 0 THEN 0 ELSE c[i - 1] + s[i]]
    <2> HIDE DEF F, c
    <2> QED BY <1>6, <1>8
  <1> HIDE DEF c
  <1>10. c[0] = 0 /\ \A i \in 1 .. n : c[i] = c[i - 1] + s[i]
    BY <1>1, <1>9
  <1> DEFINE T == {k \in 0 .. n : c[k] = g[k]}
  <1>11. \A k \in 0 .. n : k \in T
    <2>1. 0 \in T
      BY <1>1, <1>5, <1>10
    <2>2. ASSUME NEW k \in 0 .. n - 1, k \in T PROVE k + 1 \in T
      <3>1. k + 1 \in 1 .. n /\ k + 1 \in 0 .. n /\ (k + 1) - 1 = k /\ c[k] = g[k]
        BY <1>1, <2>2
      <3>2. c[k + 1] = c[k] + s[k + 1] /\ g[k + 1] = g[k] + s[k + 1]
        BY <1>5, <1>10, <3>1
      <3> QED BY <3>1, <3>2
    <2> HIDE DEF T
    <2> QED BY <1>1, <2>1, <2>2, UpTo
  <1>12. c[n] = g[n]
    BY <1>1, <1>11
  <1> QED BY <1>2, <1>5, <1>12 DEF n

\* One field more adds its width.
LEMMA TotalMore ==
    ASSUME NEW w \in Seq(Nat)
    PROVE  /\ Total(SubSeq(w, 1, 0)) = 0
           /\ \A i \in 1 .. Len(w) :
                /\ Total(SubSeq(w, 1, i - 1)) \in Nat
                /\ Total(SubSeq(w, 1, i)) = Total(SubSeq(w, 1, i - 1)) + w[i]
  <1>1. ASSUME NEW i \in 0 .. Len(w)
        PROVE  /\ SubSeq(w, 1, i) \in Seq(Nat) /\ Len(SubSeq(w, 1, i)) = i
               /\ \A k \in 1 .. i : SubSeq(w, 1, i)[k] = w[k]
    OBVIOUS
  <1>2. ASSUME NEW i \in 0 .. Len(w)
        PROVE  \E f \in [0 .. i -> Nat] :
                 /\ f[0] = 0 /\ \A k \in 1 .. i : f[k] = f[k - 1] + w[k]
                 /\ Total(SubSeq(w, 1, i)) = f[i]
    <2> DEFINE s == SubSeq(w, 1, i)
    <2>1. s \in Seq(Nat) /\ Len(s) = i /\ \A k \in 1 .. i : s[k] = w[k]
      BY <1>1
    <2> HIDE DEF s
    <2>2. PICK f \in [0 .. i -> Nat] :
             f[0] = 0 /\ (\A k \in 1 .. i : f[k] = f[k - 1] + s[k]) /\ Total(s) = f[i]
      BY <2>1, TotalTable
    <2>3. \A k \in 1 .. i : f[k] = f[k - 1] + w[k]
      BY <2>1, <2>2
    <2> QED BY <2>2, <2>3 DEF s
  <1>3. Total(SubSeq(w, 1, 0)) = 0
    <2> DEFINE z == 0
    <2>1. z \in 0 .. Len(w)
      OBVIOUS
    <2> HIDE DEF z
    <2>2. PICK f \in [0 .. z -> Nat] : f[0] = 0 /\ Total(SubSeq(w, 1, z)) = f[z]
      BY <1>2, <2>1
    <2> QED BY <2>2 DEF z
  <1>4. ASSUME NEW i \in 1 .. Len(w)
        PROVE  /\ Total(SubSeq(w, 1, i - 1)) \in Nat
               /\ Total(SubSeq(w, 1, i)) = Total(SubSeq(w, 1, i - 1)) + w[i]
    <2> DEFINE h == i - 1
    <2>1. h \in 0 .. Len(w) /\ i \in 0 .. Len(w) /\ h \in Nat /\ h + 1 = i
      OBVIOUS
    <2> HIDE DEF h
    <2>2. PICK f \in [0 .. i -> Nat] :
             /\ f[0] = 0 /\ \A k \in 1 .. i : f[k] = f[k - 1] + w[k]
             /\ Total(SubSeq(w, 1, i)) = f[i]
      BY <1>2, <2>1
    <2>3. PICK g \in [0 .. h -> Nat] :
             /\ g[0] = 0 /\ \A k \in 1 .. h : g[k] = g[k - 1] + w[k]
             /\ Total(SubSeq(w, 1, h)) = g[h]
      BY <1>2, <2>1
    <2> DEFINE T == {k \in 0 .. h : g[k] = f[k]}
    <2>4. 0 \in T
      BY <2>1, <2>2, <2>3
    <2>5. ASSUME NEW k \in 0 .. h - 1, k \in T PROVE k + 1 \in T
      <3>1. k + 1 \in 1 .. h /\ k + 1 \in 1 .. i /\ k + 1 \in 0 .. h /\ (k + 1) - 1 = k
            /\ g[k] = f[k]
        BY <2>1, <2>5
      <3>2. g[k + 1] = g[k] + w[k + 1] /\ f[k + 1] = f[k] + w[k + 1]
        BY <2>2, <2>3, <3>1
      <3> QED BY <3>1, <3>2
    <2>6. \A k \in 0 .. h : k \in T
      <3> HIDE DEF T
      <3> QED BY <2>1, <2>4, <2>5, UpTo
    <2>7. g[h] = f[h] /\ f[h] \in Nat
      BY <2>1, <2>6
    <2>8. f[i] = f[h] + w[i]
      BY <2>1, <2>2, SMTT(30)
    <2> QED BY <2>2, <2>3, <2>7, <2>8 DEF h
  <1> QED BY <1>3, <1>4

\* The first fields of a row, each after the ones before it.
LEMMA FixedFacts ==
    ASSUME NEW w \in Seq(Nat), NEW data \in Seq(Byte), NEW o \in Nat
    PROVE  \E b \in [0 .. Len(w) -> Nat] :
             /\ b[0] = 0
             /\ \A i \in 1 .. Len(w) :
                  /\ b[i] = b[i - 1] + w[i]
                  /\ Fixed(data, o, w)[i] = Field(data, o + b[i - 1], w[i])
  <1> DEFINE b == [i \in 0 .. Len(w) |-> Total(SubSeq(w, 1, i))]
  <1>1. b[0] = 0
    BY TotalMore
  <1>2. ASSUME NEW i \in 1 .. Len(w)
        PROVE  /\ b[i - 1] = Total(SubSeq(w, 1, i - 1)) /\ b[i - 1] \in Nat
               /\ b[i] = b[i - 1] + w[i] /\ b[i] \in Nat
    <2>1. i - 1 \in 0 .. Len(w) /\ i \in 0 .. Len(w) /\ w[i] \in Nat
      OBVIOUS
    <2>2. b[i - 1] = Total(SubSeq(w, 1, i - 1)) /\ b[i] = Total(SubSeq(w, 1, i))
      BY <2>1
    <2>3. /\ Total(SubSeq(w, 1, i - 1)) \in Nat
          /\ Total(SubSeq(w, 1, i)) = Total(SubSeq(w, 1, i - 1)) + w[i]
      BY TotalMore
    <2> HIDE DEF b
    <2> QED BY <2>1, <2>2, <2>3
  <1>3. b \in [0 .. Len(w) -> Nat]
    <2>1. ASSUME NEW i \in 0 .. Len(w) PROVE b[i] \in Nat
      <3>1. i = 0 \/ i \in 1 .. Len(w)
        OBVIOUS
      <3> HIDE DEF b
      <3> QED BY <1>1, <1>2, <3>1
    <2>2. b = [i \in 0 .. Len(w) |-> b[i]]
      OBVIOUS
    <2> HIDE DEF b
    <2> QED BY <2>1, <2>2
  <1>4. ASSUME NEW i \in 1 .. Len(w)
        PROVE  Fixed(data, o, w)[i] = Field(data, o + Total(SubSeq(w, 1, i - 1)), w[i])
    <2>1. i \in DOMAIN w
      OBVIOUS
    <2> QED BY <2>1, Zenon DEF Fixed, Total
  <1> HIDE DEF b
  <1>5. \A i \in 1 .. Len(w) : Fixed(data, o, w)[i] = Field(data, o + b[i - 1], w[i])
    BY <1>2, <1>4, Zenon
  <1> QED BY <1>1, <1>2, <1>3, <1>5

\* A number that is there is the field there.
LEMMA AtField ==
    ASSUME NEW s \in Seq(Byte), NEW o \in Nat, NEW w \in Nat, NEW v \in 0 .. Power(w) - 1,
           At(s, o, Bytes(v, w))
    PROVE  Field(s, o, w) = v /\ o + w <= Len(s)
  <1> DEFINE b == Bytes(v, w)
             t == SubSeq(s, o + 1, o + w)
  <1>1. v \in Nat
    BY PowerLaws
  <1>2. b \in Seq(Byte) /\ Len(b) = w
    BY <1>1, BytesFacts
  <1>3. o + w <= Len(s) /\ \A i \in 1 .. w : s[o + i] = b[i]
    <2> HIDE DEF b
    <2>1. At(s, o, b)
      BY DEF b
    <2> QED BY <1>2, <2>1 DEF At
  <1>4. /\ o + 1 \in 1 .. Len(s) + 1 /\ o + w \in 0 .. Len(s) /\ o + 1 <= o + w + 1
        /\ o + w + 1 - (o + 1) = w /\ \A i \in 1 .. w : (o + 1) + i - 1 = o + i
    BY <1>3
  <1>5. /\ t \in Seq(Byte) /\ Len(t) = o + w + 1 - (o + 1)
        /\ \A i \in 1 .. o + w + 1 - (o + 1) : t[i] = s[(o + 1) + i - 1]
    BY <1>4, PieceFacts
  <1>6. Field(s, o, w) = Value(t)
    BY DEF Field
  <1> HIDE DEF b, t
  <1>7. Len(t) = w /\ \A i \in 1 .. w : t[i] = b[i]
    BY <1>3, <1>4, <1>5
  <1>8. t = b
    BY <1>2, <1>5, <1>7, SameBytes
  <1>9. Value(b) = v
    BY ValueOfBytes DEF b
  <1> QED BY <1>3, <1>6, <1>8, <1>9

\* A string that is there is the piece there.
LEMMA AtPiece ==
    ASSUME NEW s \in Seq(Byte), NEW o \in Nat, NEW a \in Seq(Byte), At(s, o, a)
    PROVE  SubSeq(s, o + 1, o + Len(a)) = a /\ o + Len(a) <= Len(s)
  <1> DEFINE w == Len(a)
             t == SubSeq(s, o + 1, o + w)
  <1>1. w \in Nat /\ o + w <= Len(s) /\ \A i \in 1 .. w : s[o + i] = a[i]
    BY DEF At
  <1> HIDE DEF w
  <1>2. /\ o + 1 \in 1 .. Len(s) + 1 /\ o + w \in 0 .. Len(s) /\ o + 1 <= o + w + 1
        /\ o + w + 1 - (o + 1) = w /\ \A i \in 1 .. w : (o + 1) + i - 1 = o + i
    BY <1>1
  <1>3. /\ t \in Seq(Byte) /\ Len(t) = o + w + 1 - (o + 1)
        /\ \A i \in 1 .. o + w + 1 - (o + 1) : t[i] = s[(o + 1) + i - 1]
    BY <1>2, PieceFacts
  <1> HIDE DEF t
  <1>4. Len(t) = w /\ \A i \in 1 .. w : t[i] = a[i]
    BY <1>1, <1>2, <1>3
  <1>5. t = a
    BY <1>1, <1>3, <1>4, SameBytes DEF w
  <1> QED BY <1>1, <1>5 DEF t, w

-----------------------------------------------------------------------------
(* The records of a checkpoint as bytes. *)

\* Two byte strings one after the other: their length, and where they are.
LEMMA PairFacts ==
    ASSUME NEW a \in Seq(Byte), NEW b \in Seq(Byte)
    PROVE  /\ Pair(a, b) \in Seq(Byte) /\ Len(Pair(a, b)) = Len(a) + Len(b)
           /\ Len(a) \in Nat /\ Len(b) \in Nat
           /\ \A s \in Seq(Byte), o \in Nat :
                At(s, o, Pair(a, b)) => At(s, o, a) /\ At(s, o + Len(a), b)
  <1>1. a \o b \in Seq(Byte) /\ Len(a \o b) = Len(a) + Len(b) /\ Len(a) \in Nat /\ Len(b) \in Nat
    BY CatFacts
  <1>2. ASSUME NEW s \in Seq(Byte), NEW o \in Nat, At(s, o, a \o b)
        PROVE  At(s, o, a) /\ At(s, o + Len(a), b)
    BY <1>2, AtCat
  <1> QED BY <1>1, <1>2 DEF Pair

\* The byte that stands for the state of a room.
StateByte(state) == (CHOOSE i \in DOMAIN States : States[i] = state) - 1

\* It is one of three, and the state is found by it.
LEMMA StateByteFacts ==
    ASSUME NEW state \in {"waiting", "running", "finished"}
    PROVE  /\ StateByte(state) \in 0 .. 2 /\ StateByte(state) \in Byte
           /\ StateByte(state) + 1 \in DOMAIN States
           /\ States[StateByte(state) + 1] = state
  <1>1. DOMAIN States = 1 .. 3
    BY DEF States
  <1>2. States[1] = "waiting" /\ States[2] = "running" /\ States[3] = "finished"
    BY DEF States
  <1>3. \E i \in DOMAIN States : States[i] = state
    <2>1. 1 \in DOMAIN States /\ 2 \in DOMAIN States /\ 3 \in DOMAIN States
      BY <1>1
    <2> QED BY <1>2, <2>1
  <1> DEFINE k == CHOOSE i \in DOMAIN States : States[i] = state
  <1>4. k \in DOMAIN States /\ States[k] = state
    BY <1>3
  <1>5. StateByte(state) = k - 1
    BY DEF StateByte
  <1> HIDE DEF k
  <1>6. k - 1 \in 0 .. 2 /\ (k - 1) + 1 = k /\ k \in 1 .. 3
    BY <1>1, <1>4
  <1>7. 0 .. 2 \subseteq Byte
    BY ByteType, CheckpointAssumption
  <1> QED BY <1>4, <1>5, <1>6, <1>7

\* The bytes of the fields of a room before its lists.
RoomFields(r) ==
    Pair(Pair(Pair(Pair(Bytes(r.room_id, W32), Bytes(r.capacity, W64)),
                   Bytes(r.next_player_id, W64)),
              <<StateByte(r.state)>>),
         Bytes(r.tick_id, W64))

\* The lists as bytes, record by record.
CheckpointMembers(l) == [i \in DOMAIN l |-> EncodedMember(l[i])]
CheckpointStates(l) == [i \in DOMAIN l |-> EncodedGameState(l[i])]
CheckpointRooms(l) == [i \in DOMAIN l |-> EncodedRoom(l[i])]
CheckpointSessions(l) == [i \in DOMAIN l |-> EncodedSession(l[i])]

\* What the encoders of the records do.
LEMMA RecordBytes ==
    /\ \A m : EncodedMember(m) =
                Pair(Pair(Bytes(m.player_id, W64), Bytes(Len(m.player_name), W32)), m.player_name)
    /\ \A g : EncodedGameState(g) =
                Pair(Pair(Pair(Bytes(g.player_id, W64), Bytes(ToBits(g.x), W32)),
                          Bytes(ToBits(g.y), W32)),
                     Bytes(ToBits(g.hp), W32))
    /\ \A s : EncodedSession(s) =
                Pair(Pair(Pair(Bytes(Len(s.token), W32), s.token), Bytes(s.room_id, W32)),
                     Bytes(s.player_id, W64))
    /\ \A r : EncodedRoom(r) =
                Pair(Pair(Pair(Pair(RoomFields(r), Bytes(Len(r.members), W32)),
                               Concat(CheckpointMembers(r.members))),
                          Bytes(Len(r.game_states), W32)),
                     Concat(CheckpointStates(r.game_states)))
  <1>1. \A m : EncodedMember(m) =
                Pair(Pair(Bytes(m.player_id, W64), Bytes(Len(m.player_name), W32)), m.player_name)
    BY Zenon DEF EncodedMember, Pair
  <1>2. \A g : EncodedGameState(g) =
                Pair(Pair(Pair(Bytes(g.player_id, W64), Bytes(ToBits(g.x), W32)),
                          Bytes(ToBits(g.y), W32)),
                     Bytes(ToBits(g.hp), W32))
    BY Zenon DEF EncodedGameState, Pair
  <1>3. \A s : EncodedSession(s) =
                Pair(Pair(Pair(Bytes(Len(s.token), W32), s.token), Bytes(s.room_id, W32)),
                     Bytes(s.player_id, W64))
    BY Zenon DEF EncodedSession, Pair
  <1>4. \A r : EncodedRoom(r) =
                Pair(Pair(Pair(Pair(RoomFields(r), Bytes(Len(r.members), W32)),
                               Concat(CheckpointMembers(r.members))),
                          Bytes(Len(r.game_states), W32)),
                     Concat(CheckpointStates(r.game_states)))
    BY Zenon DEF EncodedRoom, Pair, RoomFields, StateByte, Records, CheckpointMembers,
             CheckpointStates
  <1> QED BY <1>1, <1>2, <1>3, <1>4

\* The bytes of a number of 32 or 64 bits.
LEMMA NumberBytes ==
    ASSUME NEW v \in Nat
    PROVE  /\ Bytes(v, W32) \in Seq(Byte) /\ Len(Bytes(v, W32)) = W32
           /\ Bytes(v, W64) \in Seq(Byte) /\ Len(Bytes(v, W64)) = W64
  BY WidthFacts, BytesFacts

\* A list of byte strings put together.
LEMMA PartsFacts ==
    ASSUME NEW n \in Nat, NEW p, p = [i \in 1 .. n |-> p[i]], \A i \in 1 .. n : p[i] \in Seq(Byte)
    PROVE  p \in Seq(Seq(Byte)) /\ Len(p) = n /\ Concat(p) \in Seq(Byte)
  <1>1. p \in [1 .. n -> Seq(Byte)]
    <2> DEFINE S == Seq(Byte)
    <2>1. \A i \in 1 .. n : p[i] \in S
      OBVIOUS
    <2> HIDE DEF S
    <2>2. p \in [1 .. n -> S]
      BY <2>1
    <2> QED BY <2>2 DEF S
  <1>2. p \in Seq(Seq(Byte)) /\ Len(p) = n
    <2> DEFINE S == Seq(Byte)
    <2>1. p \in [1 .. n -> S]
      BY <1>1
    <2> HIDE DEF S
    <2>2. p \in Seq(S) /\ Len(p) = n
      BY <2>1
    <2> QED BY <2>2 DEF S
  <1>3. <<>> \in Seq(Byte)
    OBVIOUS
  <1> QED BY <1>2, <1>3, ConcatAppend

\* The bytes of a member.
LEMMA MemberType ==
    ASSUME NEW m \in Member
    PROVE  /\ m.player_id \in 0 .. Max64 /\ m.player_name \in Seq(Byte)
           /\ EncodedMember(m) \in Seq(Byte)
           /\ Len(EncodedMember(m)) = MinMemberSize + Len(m.player_name)
  <1> DEFINE a == Bytes(m.player_id, W64)
             b == Bytes(Len(m.player_name), W32)
             c == m.player_name
             x == Pair(a, b)
             n == Len(c)
  <1>1. m.player_id \in 0 .. Max64 /\ m.player_name \in Seq(Byte)
    BY DEF Member
  <1>2. m.player_id \in Nat /\ Len(m.player_name) \in Nat
    BY <1>1, WidthTypes
  <1>3. a \in Seq(Byte) /\ b \in Seq(Byte) /\ c \in Seq(Byte) /\ Len(a) = W64 /\ Len(b) = W32
    BY <1>1, <1>2, NumberBytes
  <1>4. EncodedMember(m) = Pair(x, c)
    BY RecordBytes
  <1> HIDE DEF a, b, c
  <1>5. x \in Seq(Byte) /\ Len(x) = W64 + W32
    BY <1>3, PairFacts
  <1> HIDE DEF x
  <1>6. Pair(x, c) \in Seq(Byte) /\ Len(Pair(x, c)) = Len(x) + n
    BY <1>3, <1>5, PairFacts
  <1>7. Len(Pair(x, c)) = MinMemberSize + n
    BY <1>5, <1>6 DEF MinMemberSize
  <1> QED BY <1>1, <1>4, <1>6, <1>7 DEF c

\* The bits of an integer that may be negative.
LEMMA BitsFacts ==
    ASSUME NEW v \in Int32s
    PROVE  /\ ToBits(v) \in 0 .. Max32 /\ FromBits(ToBits(v)) = v /\ ToBits(v) \in Nat
           /\ Bytes(ToBits(v), W32) \in Seq(Byte) /\ Len(Bytes(ToBits(v), W32)) = W32
  <1>1. 0 \in 0 .. Max32 /\ Max32 \in Nat
    BY WidthFacts
  <1>2. ToBits(v) \in 0 .. Max32 /\ FromBits(ToBits(v)) = v
    BY <1>1, BitsExact
  <1>3. ToBits(v) \in Nat
    BY <1>1, <1>2
  <1> QED BY <1>2, <1>3, NumberBytes

\* The bytes of a player's state.
LEMMA StateType ==
    ASSUME NEW g \in State
    PROVE  /\ g.player_id \in 0 .. Max64 /\ g.x \in Int32s /\ g.y \in Int32s /\ g.hp \in Int32s
           /\ EncodedGameState(g) \in Seq(Byte) /\ Len(EncodedGameState(g)) = GameStateSize
  <1> DEFINE a == Bytes(g.player_id, W64)
             b == Bytes(ToBits(g.x), W32)
             c == Bytes(ToBits(g.y), W32)
             d == Bytes(ToBits(g.hp), W32)
             x == Pair(a, b)
             y == Pair(x, c)
  <1>1. g.player_id \in 0 .. Max64 /\ g.x \in Int32s /\ g.y \in Int32s /\ g.hp \in Int32s
    BY DEF State
  <1>2. g.player_id \in Nat
    BY <1>1, WidthFacts
  <1>3. /\ a \in Seq(Byte) /\ b \in Seq(Byte) /\ c \in Seq(Byte) /\ d \in Seq(Byte)
        /\ Len(a) = W64 /\ Len(b) = W32 /\ Len(c) = W32 /\ Len(d) = W32
    BY <1>1, <1>2, NumberBytes, BitsFacts
  <1>4. EncodedGameState(g) = Pair(y, d)
    BY RecordBytes
  <1> HIDE DEF a, b, c, d
  <1>5. x \in Seq(Byte) /\ Len(x) = W64 + W32
    BY <1>3, PairFacts, ZenonT(60)
  <1> HIDE DEF x
  <1>6. y \in Seq(Byte) /\ Len(y) = W64 + W32 + W32
    BY <1>3, <1>5, PairFacts
  <1> HIDE DEF y
  <1>7. Pair(y, d) \in Seq(Byte) /\ Len(Pair(y, d)) = W64 + W32 + W32 + W32
    BY <1>3, <1>6, PairFacts
  <1>8. GameStateSize = W64 + W32 + W32 + W32
    BY WidthFacts DEF GameStateSize
  <1> QED BY <1>1, <1>4, <1>7, <1>8

\* The bytes of a session.
LEMMA SessionBytes ==
    ASSUME NEW s \in SessionType
    PROVE  /\ s.token \in Seq(Byte) /\ s.room_id \in 0 .. Max32 /\ s.player_id \in 0 .. Max64
           /\ EncodedSession(s) \in Seq(Byte)
           /\ Len(EncodedSession(s)) = W32 + Len(s.token) + W32 + W64
  <1> DEFINE a == Bytes(Len(s.token), W32)
             b == s.token
             c == Bytes(s.room_id, W32)
             d == Bytes(s.player_id, W64)
             x == Pair(a, b)
             y == Pair(x, c)
             n == Len(b)
  <1>1. s.token \in Seq(Byte) /\ s.room_id \in 0 .. Max32 /\ s.player_id \in 0 .. Max64
    BY DEF SessionType
  <1>2. s.room_id \in Nat /\ s.player_id \in Nat /\ n \in Nat
    BY <1>1, WidthTypes
  <1>3. /\ a \in Seq(Byte) /\ b \in Seq(Byte) /\ c \in Seq(Byte) /\ d \in Seq(Byte)
        /\ Len(a) = W32 /\ Len(c) = W32 /\ Len(d) = W64
    BY <1>1, <1>2, NumberBytes
  <1>4. EncodedSession(s) = Pair(y, d)
    BY RecordBytes
  <1> HIDE DEF a, b, c, d
  <1>5. x \in Seq(Byte) /\ Len(x) = W32 + n
    BY <1>3, PairFacts
  <1> HIDE DEF x, n
  <1>6. y \in Seq(Byte) /\ Len(y) = W32 + n + W32
    BY <1>2, <1>3, <1>5, PairFacts
  <1> HIDE DEF y
  <1>7. Pair(y, d) \in Seq(Byte) /\ Len(Pair(y, d)) = W32 + n + W32 + W64
    BY <1>2, <1>3, <1>6, PairFacts
  <1> QED BY <1>1, <1>4, <1>7 DEF n, b

\* The members and the states of a room as bytes.
LEMMA ListsType ==
    /\ \A l \in MemberList :
         /\ l \in Seq(Member) /\ Len(l) \in Nat /\ \A i \in 1 .. Len(l) : l[i] \in Member
         /\ CheckpointMembers(l) \in Seq(Seq(Byte)) /\ Len(CheckpointMembers(l)) = Len(l)
         /\ \A i \in 1 .. Len(l) : CheckpointMembers(l)[i] = EncodedMember(l[i])
         /\ Concat(CheckpointMembers(l)) \in Seq(Byte)
    /\ \A l \in StateList :
         /\ l \in Seq(State) /\ Len(l) \in Nat /\ \A i \in 1 .. Len(l) : l[i] \in State
         /\ CheckpointStates(l) \in Seq(Seq(Byte)) /\ Len(CheckpointStates(l)) = Len(l)
         /\ \A i \in 1 .. Len(l) : CheckpointStates(l)[i] = EncodedGameState(l[i])
         /\ Concat(CheckpointStates(l)) \in Seq(Byte)
  <1>1. ASSUME NEW l \in MemberList
        PROVE  /\ l \in Seq(Member) /\ Len(l) \in Nat /\ \A i \in 1 .. Len(l) : l[i] \in Member
               /\ CheckpointMembers(l) \in Seq(Seq(Byte)) /\ Len(CheckpointMembers(l)) = Len(l)
               /\ \A i \in 1 .. Len(l) : CheckpointMembers(l)[i] = EncodedMember(l[i])
               /\ Concat(CheckpointMembers(l)) \in Seq(Byte)
    <2> DEFINE n == Len(l)
               p == CheckpointMembers(l)
    <2>1. l \in Seq(Member)
      BY DEF MemberList, Member
    <2>2. n \in Nat /\ DOMAIN l = 1 .. n /\ \A i \in 1 .. n : l[i] \in Member
      BY <2>1
    <2> HIDE DEF n
    <2>3. p = [i \in 1 .. n |-> EncodedMember(l[i])]
      BY <2>2, Zenon DEF CheckpointMembers
    <2>4. \A i \in 1 .. n : p[i] = EncodedMember(l[i])
      BY <2>3, Zenon
    <2>5. p = [i \in 1 .. n |-> p[i]]
      BY <2>3
    <2> HIDE DEF p
    <2>6. \A i \in 1 .. n : p[i] \in Seq(Byte)
      BY <2>2, <2>4, MemberType
    <2>7. p \in Seq(Seq(Byte)) /\ Len(p) = n /\ Concat(p) \in Seq(Byte)
      BY <2>2, <2>5, <2>6, PartsFacts
    <2> QED BY <2>1, <2>2, <2>4, <2>7 DEF n, p
  <1>2. ASSUME NEW l \in StateList
        PROVE  /\ l \in Seq(State) /\ Len(l) \in Nat /\ \A i \in 1 .. Len(l) : l[i] \in State
               /\ CheckpointStates(l) \in Seq(Seq(Byte)) /\ Len(CheckpointStates(l)) = Len(l)
               /\ \A i \in 1 .. Len(l) : CheckpointStates(l)[i] = EncodedGameState(l[i])
               /\ Concat(CheckpointStates(l)) \in Seq(Byte)
    <2> DEFINE n == Len(l)
               p == CheckpointStates(l)
    <2>1. l \in Seq(State)
      BY DEF StateList, State
    <2>2. n \in Nat /\ DOMAIN l = 1 .. n /\ \A i \in 1 .. n : l[i] \in State
      BY <2>1
    <2> HIDE DEF n
    <2>3. p = [i \in 1 .. n |-> EncodedGameState(l[i])]
      BY <2>2, Zenon DEF CheckpointStates
    <2>4. \A i \in 1 .. n : p[i] = EncodedGameState(l[i])
      BY <2>3, Zenon
    <2>5. p = [i \in 1 .. n |-> p[i]]
      BY <2>3
    <2> HIDE DEF p
    <2>6. \A i \in 1 .. n : p[i] \in Seq(Byte)
      BY <2>2, <2>4, StateType
    <2>7. p \in Seq(Seq(Byte)) /\ Len(p) = n /\ Concat(p) \in Seq(Byte)
      BY <2>2, <2>5, <2>6, PartsFacts
    <2> QED BY <2>1, <2>2, <2>4, <2>7 DEF n, p
  <1> QED BY <1>1, <1>2

\* The bytes before the lists of a room.
LEMMA RoomFieldsType ==
    ASSUME NEW r \in RoomType
    PROVE  /\ r.room_id \in 0 .. Max32 /\ r.capacity \in 0 .. Max64
           /\ r.next_player_id \in 0 .. Max64 /\ r.state \in {"waiting", "running", "finished"}
           /\ r.tick_id \in 0 .. Max64 /\ r.members \in MemberList /\ r.game_states \in StateList
           /\ RoomFields(r) \in Seq(Byte) /\ Len(RoomFields(r)) = W32 + W64 + W64 + 1 + W64
           /\ \A s \in Seq(Byte), o \in Nat :
                At(s, o, RoomFields(r)) =>
                  /\ At(s, o, Bytes(r.room_id, W32))
                  /\ At(s, o + W32, Bytes(r.capacity, W64))
                  /\ At(s, o + W32 + W64, Bytes(r.next_player_id, W64))
                  /\ At(s, o + W32 + W64 + W64, <<StateByte(r.state)>>)
                  /\ At(s, o + W32 + W64 + W64 + 1, Bytes(r.tick_id, W64))
  <1> DEFINE a == Bytes(r.room_id, W32)
             b == Bytes(r.capacity, W64)
             c == Bytes(r.next_player_id, W64)
             d == <<StateByte(r.state)>>
             e == Bytes(r.tick_id, W64)
             x == Pair(a, b)
             y == Pair(x, c)
             z == Pair(y, d)
             t == Pair(z, e)
  <1>1. /\ r.room_id \in 0 .. Max32 /\ r.capacity \in 0 .. Max64
        /\ r.next_player_id \in 0 .. Max64 /\ r.state \in {"waiting", "running", "finished"}
        /\ r.tick_id \in 0 .. Max64 /\ r.members \in MemberList /\ r.game_states \in StateList
    BY DEF RoomType
  <1>2. r.room_id \in Nat /\ r.capacity \in Nat /\ r.next_player_id \in Nat /\ r.tick_id \in Nat
    BY <1>1, WidthFacts
  <1>3. /\ a \in Seq(Byte) /\ b \in Seq(Byte) /\ c \in Seq(Byte) /\ e \in Seq(Byte)
        /\ Len(a) = W32 /\ Len(b) = W64 /\ Len(c) = W64 /\ Len(e) = W64
    BY <1>2, NumberBytes
  <1>4. d \in Seq(Byte) /\ Len(d) = 1
    BY <1>1, StateByteFacts
  <1>5. RoomFields(r) = t
    BY Zenon DEF RoomFields
  <1> HIDE DEF a, b, c, d, e
  <1>6. x \in Seq(Byte) /\ Len(x) = W32 + W64
    BY <1>3, PairFacts, ZenonT(60)
  <1>7. ASSUME NEW s \in Seq(Byte), NEW o \in Nat, At(s, o, x)
        PROVE  At(s, o, a) /\ At(s, o + W32, b)
    BY <1>3, <1>7, PairFacts
  <1> HIDE DEF x
  <1>8. y \in Seq(Byte) /\ Len(y) = W32 + W64 + W64
    BY <1>3, <1>6, PairFacts
  <1>9. ASSUME NEW s \in Seq(Byte), NEW o \in Nat, At(s, o, y)
        PROVE  At(s, o, x) /\ At(s, o + Len(x), c)
    BY <1>3, <1>6, <1>9, PairFacts
  <1> HIDE DEF y
  <1>10. z \in Seq(Byte) /\ Len(z) = W32 + W64 + W64 + 1
    BY <1>4, <1>8, PairFacts
  <1>11. ASSUME NEW s \in Seq(Byte), NEW o \in Nat, At(s, o, z)
         PROVE  At(s, o, y) /\ At(s, o + Len(y), d)
    BY <1>4, <1>8, <1>11, PairFacts
  <1> HIDE DEF z
  <1>12. t \in Seq(Byte) /\ Len(t) = W32 + W64 + W64 + 1 + W64
    BY <1>3, <1>10, PairFacts
  <1>13. ASSUME NEW s \in Seq(Byte), NEW o \in Nat, At(s, o, t)
         PROVE  At(s, o, z) /\ At(s, o + Len(z), e)
    BY <1>3, <1>10, <1>13, PairFacts
  <1> HIDE DEF t
  <1>14. ASSUME NEW s \in Seq(Byte), NEW o \in Nat, At(s, o, t)
         PROVE  /\ At(s, o, a) /\ At(s, o + W32, b) /\ At(s, o + W32 + W64, c)
                /\ At(s, o + W32 + W64 + W64, d) /\ At(s, o + W32 + W64 + W64 + 1, e)
    <2>1. At(s, o, z) /\ At(s, o + Len(z), e)
      BY <1>13, <1>14
    <2>2. At(s, o, y) /\ At(s, o + Len(y), d)
      BY <1>11, <2>1
    <2>3. At(s, o, x) /\ At(s, o + Len(x), c)
      BY <1>9, <2>2
    <2>4. At(s, o, a) /\ At(s, o + W32, b)
      BY <1>7, <2>3
    <2>5. /\ o + Len(x) = o + W32 + W64 /\ o + Len(y) = o + W32 + W64 + W64
          /\ o + Len(z) = o + W32 + W64 + W64 + 1
      BY <1>6, <1>8, <1>10, WidthFacts
    <2> QED BY <2>1, <2>2, <2>3, <2>4, <2>5
  <1> QED BY <1>1, <1>5, <1>12, <1>14 DEF a, b, c, d, e

\* The bytes of a room.
LEMMA RoomBytes ==
    ASSUME NEW r \in RoomType
    PROVE  LET a == Concat(CheckpointMembers(r.members))
               b == Concat(CheckpointStates(r.game_states))
           IN  /\ EncodedRoom(r) \in Seq(Byte) /\ a \in Seq(Byte) /\ b \in Seq(Byte)
               /\ Len(EncodedRoom(r)) = MinRoomSize + Len(a) + Len(b)
               /\ \A s \in Seq(Byte), o \in Nat :
                    At(s, o, EncodedRoom(r)) =>
                      /\ At(s, o, RoomFields(r))
                      /\ At(s, o + MinRoomSize - W32 - W32, Bytes(Len(r.members), W32))
                      /\ At(s, o + MinRoomSize - W32, a)
                      /\ At(s, o + MinRoomSize - W32 + Len(a), Bytes(Len(r.game_states), W32))
                      /\ At(s, o + MinRoomSize + Len(a), b)
  <1> DEFINE f == RoomFields(r)
             c == Bytes(Len(r.members), W32)
             a == Concat(CheckpointMembers(r.members))
             d == Bytes(Len(r.game_states), W32)
             b == Concat(CheckpointStates(r.game_states))
             x == Pair(f, c)
             y == Pair(x, a)
             z == Pair(y, d)
             t == Pair(z, b)
             n == Len(a)
             m == Len(b)
             k == W32 + W64 + W64 + 1 + W64
  <1>1. f \in Seq(Byte) /\ Len(f) = k /\ r.members \in MemberList /\ r.game_states \in StateList
    BY RoomFieldsType
  <1>2. Len(r.members) \in Nat /\ Len(r.game_states) \in Nat /\ a \in Seq(Byte) /\ b \in Seq(Byte)
    BY <1>1, ListsType
  <1>3. c \in Seq(Byte) /\ Len(c) = W32 /\ d \in Seq(Byte) /\ Len(d) = W32
    BY <1>2, NumberBytes
  <1>4. EncodedRoom(r) = t
    BY RecordBytes, Zenon
  <1>5. n \in Nat /\ m \in Nat
    BY <1>2
  <1>6. k \in Nat /\ W32 \in Nat /\ MinRoomSize = k + W32 + W32
    BY WidthFacts DEF MinRoomSize
  <1> HIDE DEF a, b, c, d, f, k
  <1>7. x \in Seq(Byte) /\ Len(x) = k + W32
    BY <1>1, <1>3, PairFacts
  <1>8. ASSUME NEW s \in Seq(Byte), NEW o \in Nat, At(s, o, x)
        PROVE  At(s, o, f) /\ At(s, o + k, c)
    BY <1>1, <1>3, <1>8, PairFacts
  <1> HIDE DEF x
  <1>9. y \in Seq(Byte) /\ Len(y) = k + W32 + n
    BY <1>2, <1>7, PairFacts
  <1>10. ASSUME NEW s \in Seq(Byte), NEW o \in Nat, At(s, o, y)
         PROVE  At(s, o, x) /\ At(s, o + Len(x), a)
    BY <1>2, <1>7, <1>10, PairFacts
  <1> HIDE DEF y, n
  <1>11. z \in Seq(Byte) /\ Len(z) = k + W32 + n + W32
    BY <1>3, <1>9, PairFacts
  <1>12. ASSUME NEW s \in Seq(Byte), NEW o \in Nat, At(s, o, z)
         PROVE  At(s, o, y) /\ At(s, o + Len(y), d)
    BY <1>3, <1>9, <1>12, PairFacts
  <1> HIDE DEF z
  <1>13. t \in Seq(Byte) /\ Len(t) = k + W32 + n + W32 + m
    BY <1>2, <1>11, PairFacts
  <1>14. ASSUME NEW s \in Seq(Byte), NEW o \in Nat, At(s, o, t)
         PROVE  At(s, o, z) /\ At(s, o + Len(z), b)
    BY <1>2, <1>11, <1>14, PairFacts
  <1> HIDE DEF t, m
  <1>15. Len(t) = MinRoomSize + n + m
    BY <1>5, <1>6, <1>13
  <1>16. ASSUME NEW s \in Seq(Byte), NEW o \in Nat, At(s, o, t)
         PROVE  /\ At(s, o, f) /\ At(s, o + MinRoomSize - W32 - W32, c)
                /\ At(s, o + MinRoomSize - W32, a)
                /\ At(s, o + MinRoomSize - W32 + n, d) /\ At(s, o + MinRoomSize + n, b)
    <2>1. At(s, o, z) /\ At(s, o + Len(z), b)
      BY <1>14, <1>16
    <2>2. At(s, o, y) /\ At(s, o + Len(y), d)
      BY <1>12, <2>1
    <2>3. At(s, o, x) /\ At(s, o + Len(x), a)
      BY <1>10, <2>2
    <2>4. At(s, o, f) /\ At(s, o + k, c)
      BY <1>8, <2>3
    <2>5. /\ o + k = o + MinRoomSize - W32 - W32 /\ o + Len(x) = o + MinRoomSize - W32
          /\ o + Len(y) = o + MinRoomSize - W32 + n /\ o + Len(z) = o + MinRoomSize + n
      BY <1>5, <1>6, <1>7, <1>9, <1>11
    <2> QED BY <2>1, <2>2, <2>3, <2>4, <2>5
  <1> QED BY <1>2, <1>4, <1>13, <1>15, <1>16 DEF a, b, c, d, f, n, m

\* The rooms and the sessions of a checkpoint as bytes.
LEMMA CheckpointLists ==
    /\ \A l \in Seq(RoomType) :
         /\ CheckpointRooms(l) \in Seq(Seq(Byte)) /\ Len(CheckpointRooms(l)) = Len(l)
         /\ \A i \in 1 .. Len(l) : CheckpointRooms(l)[i] = EncodedRoom(l[i])
         /\ Concat(CheckpointRooms(l)) \in Seq(Byte)
    /\ \A l \in Seq(SessionType) :
         /\ CheckpointSessions(l) \in Seq(Seq(Byte)) /\ Len(CheckpointSessions(l)) = Len(l)
         /\ \A i \in 1 .. Len(l) : CheckpointSessions(l)[i] = EncodedSession(l[i])
         /\ Concat(CheckpointSessions(l)) \in Seq(Byte)
  <1>1. ASSUME NEW l \in Seq(RoomType)
        PROVE  /\ CheckpointRooms(l) \in Seq(Seq(Byte)) /\ Len(CheckpointRooms(l)) = Len(l)
               /\ \A i \in 1 .. Len(l) : CheckpointRooms(l)[i] = EncodedRoom(l[i])
               /\ Concat(CheckpointRooms(l)) \in Seq(Byte)
    <2> DEFINE n == Len(l)
               p == CheckpointRooms(l)
    <2>2. n \in Nat /\ DOMAIN l = 1 .. n /\ \A i \in 1 .. n : l[i] \in RoomType
      OBVIOUS
    <2> HIDE DEF n
    <2>3. p = [i \in 1 .. n |-> EncodedRoom(l[i])]
      BY <2>2, Zenon DEF CheckpointRooms
    <2>4. \A i \in 1 .. n : p[i] = EncodedRoom(l[i])
      BY <2>3, Zenon
    <2>5. p = [i \in 1 .. n |-> p[i]]
      BY <2>3
    <2> HIDE DEF p
    <2>6. \A i \in 1 .. n : p[i] \in Seq(Byte)
      BY <2>2, <2>4, RoomBytes
    <2>7. p \in Seq(Seq(Byte)) /\ Len(p) = n /\ Concat(p) \in Seq(Byte)
      BY <2>2, <2>5, <2>6, PartsFacts
    <2> QED BY <2>2, <2>4, <2>7 DEF n, p
  <1>2. ASSUME NEW l \in Seq(SessionType)
        PROVE  /\ CheckpointSessions(l) \in Seq(Seq(Byte)) /\ Len(CheckpointSessions(l)) = Len(l)
               /\ \A i \in 1 .. Len(l) : CheckpointSessions(l)[i] = EncodedSession(l[i])
               /\ Concat(CheckpointSessions(l)) \in Seq(Byte)
    <2> DEFINE n == Len(l)
               p == CheckpointSessions(l)
    <2>2. n \in Nat /\ DOMAIN l = 1 .. n /\ \A i \in 1 .. n : l[i] \in SessionType
      OBVIOUS
    <2> HIDE DEF n
    <2>3. p = [i \in 1 .. n |-> EncodedSession(l[i])]
      BY <2>2, Zenon DEF CheckpointSessions
    <2>4. \A i \in 1 .. n : p[i] = EncodedSession(l[i])
      BY <2>3, Zenon
    <2>5. p = [i \in 1 .. n |-> p[i]]
      BY <2>3
    <2> HIDE DEF p
    <2>6. \A i \in 1 .. n : p[i] \in Seq(Byte)
      BY <2>2, <2>4, SessionBytes
    <2>7. p \in Seq(Seq(Byte)) /\ Len(p) = n /\ Concat(p) \in Seq(Byte)
      BY <2>2, <2>5, <2>6, PartsFacts
    <2> QED BY <2>2, <2>4, <2>7 DEF n, p
  <1> QED BY <1>1, <1>2

-----------------------------------------------------------------------------
(* The checkpoint file. *)

\* The records of a checkpoint, and the header with what it says of them.
Payload(cp) == Pair(Concat(CheckpointRooms(cp.rooms)), Concat(CheckpointSessions(cp.sessions)))
FileHeader(cp, size, checksum) ==
    Pair(Pair(Pair(Pair(Pair(Pair(Magic, Bytes(Version, W32)), Bytes(cp.generation, W64)),
                        Bytes(Len(cp.rooms), W32)),
                   Bytes(Len(cp.sessions), W32)),
              Bytes(size, W64)),
         Bytes(checksum, W64))
FileBytes(cp) == Pair(FileHeader(cp, Len(Payload(cp)), Checksum(Payload(cp))), Payload(cp))

\* A checkpoint that is not refused is encoded as these bytes.
LEMMA EncodeFacts ==
    ASSUME NEW cp, EncodeCheckpoint(cp).state = "success"
    PROVE  /\ EncodeCheckpoint(cp) = [state |-> "success", data |-> FileBytes(cp)]
           /\ cp.generation # 0 /\ ~(Len(cp.rooms) > Max32) /\ ~(Len(cp.sessions) > Max32)
           /\ ValidKeys(cp) /\ \A i \in DOMAIN cp.rooms : RoomFitsU32(cp.rooms[i])
           /\ ~(Len(FileBytes(cp)) > MaxFile)
  <1>1. EncodeCheckpoint(cp) =
          IF cp.generation = 0
          THEN [state |-> "invalid_checkpoint"]
          ELSE IF Len(cp.rooms) > Max32 \/ Len(cp.sessions) > Max32
          THEN [state |-> "too_large"]
          ELSE IF ~ValidKeys(cp)
          THEN [state |-> "invalid_checkpoint"]
          ELSE IF \/ \E i \in DOMAIN cp.rooms : ~RoomFitsU32(cp.rooms[i])
                  \/ Len(FileBytes(cp)) > MaxFile
          THEN [state |-> "too_large"]
          ELSE [state |-> "success", data |-> FileBytes(cp)]
    BY Zenon DEF EncodeCheckpoint, FileBytes, FileHeader, Payload, Pair, Records, CheckpointRooms,
             CheckpointSessions
  <1> DEFINE bad1 == [state |-> "invalid_checkpoint"]
             bad2 == [state |-> "too_large"]
  <1>2. EncodeCheckpoint(cp) # bad1 /\ EncodeCheckpoint(cp) # bad2
    <2>1. bad1.state # "success" /\ bad2.state # "success"
      OBVIOUS
    <2> HIDE DEF bad1, bad2
    <2> QED BY <2>1
  <1> QED BY <1>1, <1>2, Zenon

\* Where the parts of the header are.
LEMMA HeaderParts ==
    ASSUME NEW cp \in CheckpointType, NEW size \in Nat, NEW checksum \in Nat
    PROVE  /\ FileHeader(cp, size, checksum) \in Seq(Byte)
           /\ Len(FileHeader(cp, size, checksum)) = HeaderSize
           /\ \A s \in Seq(Byte) :
                At(s, 0, FileHeader(cp, size, checksum)) =>
                  /\ At(s, 0, Magic) /\ At(s, Len(Magic), Bytes(Version, W32))
                  /\ At(s, Len(Magic) + W32, Bytes(cp.generation, W64))
                  /\ At(s, Len(Magic) + W32 + W64, Bytes(Len(cp.rooms), W32))
                  /\ At(s, Len(Magic) + W32 + W64 + W32, Bytes(Len(cp.sessions), W32))
                  /\ At(s, Len(Magic) + W32 + W64 + W32 + W32, Bytes(size, W64))
                  /\ At(s, Len(Magic) + W32 + W64 + W32 + W32 + W64, Bytes(checksum, W64))
  <1> DEFINE a == Magic
             b == Bytes(Version, W32)
             c == Bytes(cp.generation, W64)
             d == Bytes(Len(cp.rooms), W32)
             e == Bytes(Len(cp.sessions), W32)
             f == Bytes(size, W64)
             g == Bytes(checksum, W64)
             p1 == Pair(a, b)
             p2 == Pair(p1, c)
             p3 == Pair(p2, d)
             p4 == Pair(p3, e)
             p5 == Pair(p4, f)
             p6 == Pair(p5, g)
             n == Len(a)
             o == 0
  <1>1. cp.generation \in Nat /\ Len(cp.rooms) \in Nat /\ Len(cp.sessions) \in Nat /\ Version \in Nat
    <2>1. /\ cp.generation \in 0 .. Max64 /\ cp.rooms \in Seq(RoomType)
          /\ cp.sessions \in Seq(SessionType)
      BY DEF CheckpointType
    <2>2. Len(cp.rooms) \in Nat /\ Len(cp.sessions) \in Nat
      BY <2>1
    <2> QED BY <2>1, <2>2, WidthFacts, CheckpointAssumption
  <1>2. a \in Seq(Byte) /\ n \in Nat /\ o \in Nat
    BY CheckpointAssumption
  <1>3. /\ b \in Seq(Byte) /\ c \in Seq(Byte) /\ d \in Seq(Byte) /\ e \in Seq(Byte)
        /\ f \in Seq(Byte) /\ g \in Seq(Byte)
        /\ Len(b) = W32 /\ Len(c) = W64 /\ Len(d) = W32 /\ Len(e) = W32 /\ Len(f) = W64
        /\ Len(g) = W64
    BY <1>1, NumberBytes
  <1>4. FileHeader(cp, size, checksum) = p6
    BY Zenon DEF FileHeader
  <1> HIDE DEF b, c, d, e, f, g, o
  <1>5. a \in Seq(Byte) /\ b \in Seq(Byte) /\ Len(b) = W32 /\ n = Len(a)
    BY <1>2, <1>3
  <1> HIDE DEF a
  <1>10. p1 \in Seq(Byte) /\ Len(p1) = Len(a) + Len(b)
    BY <1>5, PairFacts
  <1>11. p1 \in Seq(Byte) /\ Len(p1) = n + W32
    BY <1>5, <1>10
  <1>21. ASSUME NEW s \in Seq(Byte), At(s, o, p1) PROVE At(s, o, a) /\ At(s, o + Len(a), b)
    BY <1>2, <1>3, <1>21, PairFacts
  <1> HIDE DEF n, p1
  <1>12. p2 \in Seq(Byte) /\ Len(p2) = n + W32 + W64
    BY <1>3, <1>11, PairFacts
  <1>22. ASSUME NEW s \in Seq(Byte), At(s, o, p2) PROVE At(s, o, p1) /\ At(s, o + Len(p1), c)
    BY <1>2, <1>3, <1>11, <1>22, PairFacts
  <1> HIDE DEF p2
  <1>13. p3 \in Seq(Byte) /\ Len(p3) = n + W32 + W64 + W32
    BY <1>3, <1>12, PairFacts
  <1>23. ASSUME NEW s \in Seq(Byte), At(s, o, p3) PROVE At(s, o, p2) /\ At(s, o + Len(p2), d)
    BY <1>2, <1>3, <1>12, <1>23, PairFacts
  <1> HIDE DEF p3
  <1>14. p4 \in Seq(Byte) /\ Len(p4) = n + W32 + W64 + W32 + W32
    BY <1>3, <1>13, PairFacts
  <1>24. ASSUME NEW s \in Seq(Byte), At(s, o, p4) PROVE At(s, o, p3) /\ At(s, o + Len(p3), e)
    BY <1>2, <1>3, <1>13, <1>24, PairFacts
  <1> HIDE DEF p4
  <1>15. p5 \in Seq(Byte) /\ Len(p5) = n + W32 + W64 + W32 + W32 + W64
    BY <1>3, <1>14, PairFacts
  <1>25. ASSUME NEW s \in Seq(Byte), At(s, o, p5) PROVE At(s, o, p4) /\ At(s, o + Len(p4), f)
    BY <1>2, <1>3, <1>14, <1>25, PairFacts
  <1> HIDE DEF p5
  <1>16. p6 \in Seq(Byte) /\ Len(p6) = n + W32 + W64 + W32 + W32 + W64 + W64
    BY <1>3, <1>15, PairFacts
  <1>26. ASSUME NEW s \in Seq(Byte), At(s, o, p6) PROVE At(s, o, p5) /\ At(s, o + Len(p5), g)
    BY <1>2, <1>3, <1>15, <1>26, PairFacts
  <1> HIDE DEF p6
  <1>17. HeaderSize = n + W32 + W64 + W32 + W32 + W64 + W64
    BY DEF HeaderSize, n, a
  <1>18. ASSUME NEW s \in Seq(Byte), At(s, o, p6)
         PROVE  /\ At(s, o, a) /\ At(s, n, b) /\ At(s, n + W32, c) /\ At(s, n + W32 + W64, d)
                /\ At(s, n + W32 + W64 + W32, e) /\ At(s, n + W32 + W64 + W32 + W32, f)
                /\ At(s, n + W32 + W64 + W32 + W32 + W64, g)
    <2>1. At(s, o, p5) /\ At(s, o + Len(p5), g)
      BY <1>18, <1>26
    <2>2. At(s, o, p4) /\ At(s, o + Len(p4), f)
      BY <1>25, <2>1
    <2>3. At(s, o, p3) /\ At(s, o + Len(p3), e)
      BY <1>24, <2>2
    <2>4. At(s, o, p2) /\ At(s, o + Len(p2), d)
      BY <1>23, <2>3
    <2>5. At(s, o, p1) /\ At(s, o + Len(p1), c)
      BY <1>22, <2>4
    <2>6. At(s, o, a) /\ At(s, o + Len(a), b)
      BY <1>21, <2>5
    <2>7. /\ o + Len(a) = n /\ o + Len(p1) = n + W32 /\ o + Len(p2) = n + W32 + W64
          /\ o + Len(p3) = n + W32 + W64 + W32 /\ o + Len(p4) = n + W32 + W64 + W32 + W32
          /\ o + Len(p5) = n + W32 + W64 + W32 + W32 + W64
      BY <1>2, <1>11, <1>12, <1>13, <1>14, <1>15, WidthFacts DEF o, n
    <2> QED BY <2>1, <2>2, <2>3, <2>4, <2>5, <2>6, <2>7
  <1> QED BY <1>4, <1>16, <1>17, <1>18 DEF a, b, c, d, e, f, g, n, o

\* A checksum has 64 bits.
LEMMA ChecksumRange == \A s \in Seq(Byte) : Checksum(s) \in 0 .. Max64
  <1> SUFFICES ASSUME NEW s \in Seq(Byte) PROVE Checksum(s) \in 0 .. Max64
    OBVIOUS
  <1> DEFINE n == Len(s)
  <1>1. PICK f \in [0 .. n -> 0 .. Max64] : Checksum(s) = f[n]
    BY ChecksumTable
  <1>2. n \in 0 .. n
    OBVIOUS
  <1> HIDE DEF n
  <1> QED BY <1>1, <1>2

\* The bytes of a file, and where its parts are.
LEMMA FileFacts ==
    ASSUME NEW cp \in CheckpointType, EncodeCheckpoint(cp).state = "success",
           NEW d, d = EncodeCheckpoint(cp).data, NEW p, p = Payload(cp)
    PROVE  /\ d \in Seq(Byte) /\ p \in Seq(Byte) /\ HeaderSize \in Nat
           /\ Len(d) = HeaderSize + Len(p) /\ Len(d) <= MaxFile
           /\ Len(p) \in 0 .. Max64 /\ Checksum(p) \in 0 .. Max64
           /\ SubSeq(d, HeaderSize + 1, Len(d)) = p
           /\ At(d, 0, Magic) /\ At(d, Len(Magic), Bytes(Version, W32))
           /\ At(d, Len(Magic) + W32, Bytes(cp.generation, W64))
           /\ At(d, Len(Magic) + W32 + W64, Bytes(Len(cp.rooms), W32))
           /\ At(d, Len(Magic) + W32 + W64 + W32, Bytes(Len(cp.sessions), W32))
           /\ At(d, Len(Magic) + W32 + W64 + W32 + W32, Bytes(Len(p), W64))
           /\ At(d, Len(Magic) + W32 + W64 + W32 + W32 + W64, Bytes(Checksum(p), W64))
           /\ At(d, HeaderSize, p)
           /\ At(d, HeaderSize, Concat(CheckpointRooms(cp.rooms)))
           /\ At(d, HeaderSize + Len(Concat(CheckpointRooms(cp.rooms))),
                 Concat(CheckpointSessions(cp.sessions)))
           /\ Len(p) = Len(Concat(CheckpointRooms(cp.rooms)))
                         + Len(Concat(CheckpointSessions(cp.sessions)))
  <1> DEFINE x == Concat(CheckpointRooms(cp.rooms))
             y == Concat(CheckpointSessions(cp.sessions))
             k == Checksum(p)
             m == Len(p)
             h == FileHeader(cp, m, k)
             o == 0
             z == HeaderSize
  <1>1. cp.rooms \in Seq(RoomType) /\ cp.sessions \in Seq(SessionType)
    BY DEF CheckpointType
  <1>2. x \in Seq(Byte) /\ y \in Seq(Byte)
    BY <1>1, CheckpointLists
  <1>3. p = Pair(x, y) /\ d = Pair(h, p) /\ ~(Len(d) > MaxFile)
    <2>1. p = Pair(x, y)
      BY DEF Payload
    <2>2. EncodeCheckpoint(cp) = [state |-> "success", data |-> FileBytes(cp)]
      BY EncodeFacts, Zenon
    <2>3. d = FileBytes(cp)
      BY <2>2
    <2>4. FileBytes(cp) = Pair(h, p)
      BY Zenon DEF FileBytes
    <2>5. ~(Len(FileBytes(cp)) > MaxFile)
      BY EncodeFacts
    <2> QED BY <2>1, <2>3, <2>4, <2>5
  <1> HIDE DEF x, y
  <1>4. p \in Seq(Byte) /\ Len(p) = Len(x) + Len(y)
    BY <1>2, <1>3, PairFacts
  <1>5. k \in 0 .. Max64 /\ k \in Nat /\ m \in Nat
    BY <1>4, ChecksumRange, WidthTypes
  <1> HIDE DEF k, m
  <1>6. h \in Seq(Byte) /\ Len(h) = HeaderSize
    BY <1>5, HeaderParts
  <1>7. \A s \in Seq(Byte) :
                At(s, 0, h) =>
                  /\ At(s, 0, Magic) /\ At(s, Len(Magic), Bytes(Version, W32))
                  /\ At(s, Len(Magic) + W32, Bytes(cp.generation, W64))
                  /\ At(s, Len(Magic) + W32 + W64, Bytes(Len(cp.rooms), W32))
                  /\ At(s, Len(Magic) + W32 + W64 + W32, Bytes(Len(cp.sessions), W32))
                  /\ At(s, Len(Magic) + W32 + W64 + W32 + W32, Bytes(m, W64))
                  /\ At(s, Len(Magic) + W32 + W64 + W32 + W32 + W64, Bytes(k, W64))
    BY <1>5, HeaderParts, Zenon
  <1> HIDE DEF h
  <1>8. d \in Seq(Byte) /\ Len(d) = Len(h) + Len(p) /\ Len(h) \in Nat /\ Len(p) \in Nat
    BY <1>3, <1>4, <1>6, PairFacts
  <1>9. d \in Seq(Byte) /\ o \in Nat /\ At(d, o, d)
    <2>1. At(d, 0, d)
      BY <1>8, AtStart
    <2> QED BY <1>8, <2>1
  <1> HIDE DEF o
  <1>10. At(d, o, h) /\ At(d, o + Len(h), p)
    <2>1. At(d, o, Pair(h, p))
      BY <1>3, <1>9
    <2> QED BY <1>4, <1>6, <1>9, <2>1, PairFacts
  <1>11. o + Len(h) = z /\ z \in Nat
    BY <1>6, <1>8 DEF o
  <1>12. At(d, z, p)
    BY <1>10, <1>11
  <1> HIDE DEF z
  <1>13. At(d, z, x) /\ At(d, z + Len(x), y)
    <2>1. At(d, z, Pair(x, y))
      BY <1>3, <1>12
    <2> QED BY <1>2, <1>9, <1>11, <2>1, PairFacts
  <1>14. At(d, 0, h)
    BY <1>10 DEF o
  <1>15. MaxFile \in 0 .. Max64 /\ Max64 \in Nat
    BY CheckpointAssumption, WidthFacts
  <1>16. Len(d) = z + m /\ Len(d) <= MaxFile /\ m \in 0 .. Max64
    <2> DEFINE l == Len(d)
    <2>1. l \in Nat /\ l = z + m /\ ~(l > MaxFile)
      BY <1>3, <1>6, <1>8, <1>11 DEF m, z
    <2> HIDE DEF l
    <2>2. l = z + m /\ l <= MaxFile /\ m \in 0 .. Max64
      BY <1>5, <1>11, <1>15, <2>1
    <2> QED BY <2>2 DEF l
  <1>17. SubSeq(d, z + 1, Len(d)) = p
    <2>1. SubSeq(d, z + 1, z + Len(p)) = p
      BY <1>4, <1>9, <1>11, <1>12, AtPiece
    <2> QED BY <1>16, <2>1 DEF m
  <1> QED BY <1>4, <1>5, <1>7, <1>9, <1>11, <1>12, <1>13, <1>14, <1>16, <1>17
          DEF x, y, k, m, z

\* What a file that is read says of itself.
LEMMA DecodeFacts ==
    ASSUME NEW s \in Seq(Byte), DecodeCheckpoint(s).state = "success"
    PROVE  /\ Len(s) >= HeaderSize /\ SubSeq(s, 1, Len(Magic)) = Magic
           /\ Field(s, Len(Magic), W32) = Version
           /\ Field(s, Len(Magic) + W32 + W64 + W32 + W32, W64)
                = Len(SubSeq(s, HeaderSize + 1, Len(s)))
           /\ Field(s, Len(Magic) + W32 + W64 + W32 + W32 + W64, W64)
                = Checksum(SubSeq(s, HeaderSize + 1, Len(s)))
  <1> DEFINE w == <<W32, W64, W32, W32, W64, W64>>
             n == Len(Magic)
             header == Fixed(s, n, w)
             p == SubSeq(s, HeaderSize + 1, Len(s))
             bad1 == [state |-> "invalid_checkpoint"]
             bad2 == [state |-> "too_large"]
             bad3 == [state |-> "malformed_data"]
             bad4 == [state |-> "unsupported_version"]
             bad5 == [state |-> "checksum_mismatch"]
  <1>1. DecodeCheckpoint(s) =
          IF Len(s) > MaxFile THEN bad2
          ELSE IF Len(s) < HeaderSize \/ SubSeq(s, 1, n) # Magic THEN bad3
          ELSE IF header[1] # Version THEN bad4
          ELSE IF header[2] = 0 THEN bad1
          ELSE IF header[5] # Len(p) THEN bad3
          ELSE IF header[6] # Checksum(p) THEN bad5
          ELSE DecodeRooms(s, header)
    BY Zenon DEF DecodeCheckpoint
  <1>2. /\ bad1.state # "success" /\ bad2.state # "success" /\ bad3.state # "success"
        /\ bad4.state # "success" /\ bad5.state # "success"
    OBVIOUS
  <1> HIDE DEF bad1, bad2, bad3, bad4, bad5
  <1>3. /\ DecodeCheckpoint(s) # bad1 /\ DecodeCheckpoint(s) # bad2 /\ DecodeCheckpoint(s) # bad3
        /\ DecodeCheckpoint(s) # bad4 /\ DecodeCheckpoint(s) # bad5
    BY <1>2
  <1>4. n \in Nat /\ W32 \in Nat /\ W64 \in Nat
    BY CheckpointAssumption, WidthFacts
  <1>5. w \in Seq(Nat) /\ Len(w) = 6 /\ w[1] = W32 /\ w[2] = W64 /\ w[3] = W32 /\ w[4] = W32
        /\ w[5] = W64 /\ w[6] = W64
    BY <1>4
  <1> HIDE DEF w, n, p
  <1>6. /\ ~(Len(s) < HeaderSize) /\ SubSeq(s, 1, n) = Magic /\ header[1] = Version
        /\ header[5] = Len(p) /\ header[6] = Checksum(p)
    BY <1>1, <1>3, Zenon
  <1>11. PICK b \in [0 .. Len(w) -> Nat] :
           /\ b[0] = 0
           /\ \A i \in 1 .. Len(w) :
                /\ b[i] = b[i - 1] + w[i]
                /\ Fixed(s, n, w)[i] = Field(s, n + b[i - 1], w[i])
    <2>1. n \in Nat /\ w \in Seq(Nat)
      BY <1>4, <1>5
    <2> QED BY <2>1, FixedFacts
  <1>7. /\ b \in [0 .. 6 -> Nat] /\ b[0] = 0
        /\ \A i \in 1 .. 6 : b[i] = b[i - 1] + w[i] /\ header[i] = Field(s, n + b[i - 1], w[i])
    BY <1>5, <1>11
  <1> HIDE DEF header
  <1>8. /\ header[1] = Field(s, n + b[0], w[1]) /\ b[1] = b[0] + w[1]
        /\ b[2] = b[1] + w[2] /\ b[3] = b[2] + w[3] /\ b[4] = b[3] + w[4]
        /\ header[5] = Field(s, n + b[4], w[5]) /\ b[5] = b[4] + w[5]
        /\ header[6] = Field(s, n + b[5], w[6])
    BY <1>7, SMTT(30)
  <1>9. /\ n + b[0] = n /\ n + b[4] = n + W32 + W64 + W32 + W32
        /\ n + b[5] = n + W32 + W64 + W32 + W32 + W64
    BY <1>4, <1>5, <1>7, <1>8
  <1>10. Len(s) >= HeaderSize
    BY <1>4, <1>6 DEF HeaderSize, n
  <1> QED BY <1>5, <1>6, <1>8, <1>9, <1>10 DEF n, p

\* Fields of two byte strings at one place are equal when their bytes are.
LEMMA FieldAgree ==
    ASSUME NEW s \in Seq(Byte), NEW t \in Seq(Byte), NEW o \in Nat, NEW w \in Nat,
           o + w <= Len(s), o + w <= Len(t)
    PROVE  Field(s, o, w) = Field(t, o, w) <=> \A j \in 1 .. w : s[o + j] = t[o + j]
  <1> DEFINE a == SubSeq(s, o + 1, o + w)
             b == SubSeq(t, o + 1, o + w)
  <1>1. /\ o + 1 \in 1 .. Len(s) + 1 /\ o + w \in 0 .. Len(s)
        /\ o + 1 \in 1 .. Len(t) + 1 /\ o + w \in 0 .. Len(t)
        /\ o + 1 <= o + w + 1 /\ o + w + 1 - (o + 1) = w
        /\ \A i \in 1 .. w : (o + 1) + i - 1 = o + i
    OBVIOUS
  <1>2. /\ a \in Seq(Byte) /\ Len(a) = o + w + 1 - (o + 1)
        /\ \A i \in 1 .. o + w + 1 - (o + 1) : a[i] = s[(o + 1) + i - 1]
    BY <1>1, PieceFacts
  <1>3. /\ b \in Seq(Byte) /\ Len(b) = o + w + 1 - (o + 1)
        /\ \A i \in 1 .. o + w + 1 - (o + 1) : b[i] = t[(o + 1) + i - 1]
    BY <1>1, PieceFacts
  <1>4. Bytes(Field(s, o, w), w) = a /\ Bytes(Field(t, o, w), w) = b
    BY FieldFacts
  <1>5. Field(s, o, w) = Value(a) /\ Field(t, o, w) = Value(b)
    BY DEF Field
  <1> HIDE DEF a, b
  <1>6. Len(a) = w /\ Len(b) = w /\ \A i \in 1 .. w : a[i] = s[o + i] /\ b[i] = t[o + i]
    BY <1>1, <1>2, <1>3
  <1>7. (\A i \in 1 .. w : a[i] = b[i]) => a = b
    BY <1>2, <1>3, <1>6, SameBytes
  <1>8. Field(s, o, w) = Field(t, o, w) <=> a = b
    BY <1>4, <1>5, Zenon
  <1> QED BY <1>6, <1>7, <1>8

\* A file as storage may leave it: as it was written, with one other byte, or
\* with another length.
Damaged(written, data, damage) ==
    \/ damage = "none" /\ data = written
    \/ /\ damage = "byte" /\ Len(data) = Len(written)
       /\ \E i \in 1 .. Len(written) :
            /\ data[i] # written[i]
            /\ \A j \in 1 .. Len(written) : j # i => data[j] = written[j]
    \/ /\ damage = "length" /\ Len(data) # Len(written)
       /\ \A j \in 1 .. Len(written) : j <= Len(data) => data[j] = written[j]

\* What the header of a file and of what is left of it have in common.
LEMMA HeadersAgree ==
    ASSUME NEW cp \in CheckpointType, EncodeCheckpoint(cp).state = "success",
           NEW d, d = EncodeCheckpoint(cp).data,
           NEW s \in Seq(Byte), DecodeCheckpoint(s).state = "success"
    PROVE  /\ d \in Seq(Byte) /\ Len(d) >= HeaderSize /\ Len(s) >= HeaderSize /\ HeaderSize \in Nat
           /\ \A j \in 1 .. Len(Magic) : s[j] = d[j]
           /\ Field(s, Len(Magic), W32) = Field(d, Len(Magic), W32)
           /\ Field(d, Len(Magic) + W32 + W64 + W32 + W32, W64) = Len(d) - HeaderSize
           /\ Field(s, Len(Magic) + W32 + W64 + W32 + W32, W64) = Len(s) - HeaderSize
           /\ Field(d, Len(Magic) + W32 + W64 + W32 + W32 + W64, W64)
                = Checksum(SubSeq(d, HeaderSize + 1, Len(d)))
           /\ Field(s, Len(Magic) + W32 + W64 + W32 + W32 + W64, W64)
                = Checksum(SubSeq(s, HeaderSize + 1, Len(s)))
  <1> DEFINE p == Payload(cp)
             n == Len(Magic)
             c == n + W32 + W64 + W32 + W32
             e == c + W64
             h == HeaderSize
             v == Len(p)
             k == Checksum(p)
  <1>1. /\ d \in Seq(Byte) /\ p \in Seq(Byte) /\ h \in Nat /\ Len(d) = h + v
        /\ v \in 0 .. Max64 /\ k \in 0 .. Max64 /\ SubSeq(d, h + 1, Len(d)) = p
        /\ At(d, 0, Magic) /\ At(d, n, Bytes(Version, W32))
        /\ At(d, c, Bytes(v, W64)) /\ At(d, e, Bytes(k, W64))
    BY FileFacts
  <1>2. /\ Len(s) >= h /\ SubSeq(s, 1, n) = Magic /\ Field(s, n, W32) = Version
        /\ Field(s, c, W64) = Len(SubSeq(s, h + 1, Len(s)))
        /\ Field(s, e, W64) = Checksum(SubSeq(s, h + 1, Len(s)))
    BY DecodeFacts
  <1>3. Magic \in Seq(Byte) /\ n \in Nat /\ Version \in 0 .. Max32
    BY CheckpointAssumption
  <1>4. c \in Nat /\ e \in Nat /\ n <= h
    BY <1>3, WidthFacts, SMTT(30) DEF HeaderSize
  <1>5. Max32 = Power(W32) - 1 /\ Max64 = Power(W64) - 1 /\ W32 \in Nat /\ W64 \in Nat
    BY WidthFacts
  <1> HIDE DEF p, n, c, e, h, v, k
  <1>6. Field(d, n, W32) = Version
    BY <1>1, <1>3, <1>5, AtField
  <1>7. Field(d, c, W64) = v /\ Field(d, e, W64) = k
    <2>1. v \in 0 .. Power(W64) - 1 /\ k \in 0 .. Power(W64) - 1
      BY <1>1, <1>5
    <2> QED BY <1>1, <1>4, <1>5, <2>1, AtField
  <1>8. v = Len(d) - h /\ Len(d) >= h
    <2>1. v \in Nat
      BY <1>1, WidthFacts
    <2> QED BY <1>1, <2>1
  <1>9. Len(SubSeq(s, h + 1, Len(s))) = Len(s) - h
    <2> DEFINE l == Len(s)
    <2>1. l \in Nat /\ h + 1 \in 1 .. l + 1 /\ l \in 0 .. l /\ h + 1 <= l + 1
          /\ l + 1 - (h + 1) = l - h
      BY <1>1, <1>2
    <2> QED BY <2>1, PieceFacts
  <1>10. \A j \in 1 .. n : s[j] = d[j]
    <2>1. \A j \in 1 .. n : d[j] = Magic[j]
      <3>1. \A j \in 1 .. Len(Magic) : d[0 + j] = Magic[j]
        BY <1>1 DEF At
      <3> QED BY <3>1 DEF n
    <2> DEFINE l == Len(s)
               q == SubSeq(s, 1, n)
    <2>2. l \in Nat /\ 1 \in 1 .. l + 1 /\ n \in 0 .. l /\ 1 <= n + 1 /\ n + 1 - 1 = n
          /\ \A i \in 1 .. n : 1 + i - 1 = i
      BY <1>1, <1>2, <1>3, <1>4
    <2>3. \A i \in 1 .. n + 1 - 1 : q[i] = s[1 + i - 1]
      BY <2>2, PieceFacts
    <2>4. q = Magic
      BY <1>2
    <2> HIDE DEF q
    <2>5. \A i \in 1 .. n : q[i] = s[i]
      BY <2>2, <2>3
    <2> QED BY <2>1, <2>4, <2>5
  <1> QED BY <1>1, <1>2, <1>6, <1>7, <1>8, <1>9, <1>10 DEF n, c, e, h, k

\* A damaged file that is read keeps every byte that is checked: another
\* length contradicts the size in the header, another byte of the payload or of
\* the checksum makes the two disagree.
LEMMA DamageFacts ==
    ASSUME NEW cp \in CheckpointType, EncodeCheckpoint(cp).state = "success",
           NEW d, d = EncodeCheckpoint(cp).data,
           NEW s \in Seq(Byte), DecodeCheckpoint(s).state = "success",
           NEW damage, Damaged(d, s, damage)
    PROVE  Len(s) = Len(d) /\ \A j \in DOMAIN s \ UncheckedBytes : s[j] = d[j]
  <1> DEFINE n == Len(Magic)
             b == n + W32
             c == n + W32 + W64 + W32 + W32
             e == c + W64
             h == HeaderSize
             l == Len(s)
             m == Len(d)
  <1>1. /\ d \in Seq(Byte) /\ m >= h /\ l >= h /\ h \in Nat
        /\ \A j \in 1 .. n : s[j] = d[j]
        /\ Field(s, n, W32) = Field(d, n, W32)
        /\ Field(d, c, W64) = m - h /\ Field(s, c, W64) = l - h
        /\ Field(d, e, W64) = Checksum(SubSeq(d, h + 1, m))
        /\ Field(s, e, W64) = Checksum(SubSeq(s, h + 1, l))
    BY HeadersAgree
  <1>2. W32 \in Nat /\ W64 \in Nat /\ n \in Nat
    BY WidthFacts, CheckpointAssumption
  <1>3. /\ n \in Nat /\ b = n + W32 /\ b \in Nat /\ c \in Nat /\ b <= c /\ e = c + W64 /\ e \in Nat
        /\ h = e + W64
    <2>1. h = n + W32 + W64 + W32 + W32 + W64 + W64
      BY DEF HeaderSize
    <2> HIDE DEF n, h
    <2> QED BY <1>2, <2>1
  <1>4. l \in Nat /\ m \in Nat /\ DOMAIN s = 1 .. l
    BY <1>1
  <1>5. UncheckedBytes = b + 1 .. c
    BY DEF UncheckedBytes
  <1>6. \/ l = m /\ s = d
        \/ l = m /\ \E i \in 1 .. m : s[i] # d[i] /\ \A j \in 1 .. m : j # i => s[j] = d[j]
        \/ l # m /\ \A j \in 1 .. m : j <= l => s[j] = d[j]
    BY Zenon DEF Damaged
  <1> HIDE DEF n, b, c, e, h, l, m
  <1>7. /\ b <= l /\ b <= m /\ c + W64 <= l /\ c + W64 <= m /\ e + W64 <= l /\ e + W64 <= m
    BY <1>1, <1>2, <1>3, <1>4
  <1>8. /\ Field(s, c, W64) = Field(d, c, W64) <=> \A j \in 1 .. W64 : s[c + j] = d[c + j]
        /\ Field(s, e, W64) = Field(d, e, W64) <=> \A j \in 1 .. W64 : s[e + j] = d[e + j]
        /\ \A j \in 1 .. W32 : s[n + j] = d[n + j]
    <2>1. n + W32 <= l /\ n + W32 <= m
      BY <1>3, <1>7
    <2>5. /\ d \in Seq(Byte) /\ n \in Nat /\ c \in Nat /\ e \in Nat /\ W32 \in Nat /\ W64 \in Nat
          /\ n + W32 <= Len(s) /\ n + W32 <= Len(d) /\ c + W64 <= Len(s) /\ c + W64 <= Len(d)
          /\ e + W64 <= Len(s) /\ e + W64 <= Len(d)
      BY <1>1, <1>2, <1>3, <1>7, <2>1 DEF l, m
    <2>2. Field(s, c, W64) = Field(d, c, W64) <=> \A j \in 1 .. W64 : s[c + j] = d[c + j]
      BY <2>5, FieldAgree, ZenonT(60)
    <2>3. Field(s, e, W64) = Field(d, e, W64) <=> \A j \in 1 .. W64 : s[e + j] = d[e + j]
      BY <2>5, FieldAgree, ZenonT(60)
    <2>4. Field(s, n, W32) = Field(d, n, W32) <=> \A j \in 1 .. W32 : s[n + j] = d[n + j]
      BY <2>5, FieldAgree, ZenonT(60)
    <2> QED BY <1>1, <2>2, <2>3, <2>4
  <1>9. CASE l = m /\ s = d
    BY <1>9 DEF l, m
  <1>10. CASE l # m /\ \A j \in 1 .. m : j <= l => s[j] = d[j]
    <2>1. \A j \in 1 .. W64 : s[c + j] = d[c + j]
      <3> SUFFICES ASSUME NEW j \in 1 .. W64 PROVE s[c + j] = d[c + j]
        OBVIOUS
      <3>1. c + j \in 1 .. m /\ c + j <= l
        BY <1>2, <1>3, <1>4, <1>7
      <3> QED BY <1>10, <3>1
    <2>2. m - h = l - h
      BY <1>1, <1>8, <2>1
    <2> QED BY <1>1, <1>4, <1>10, <2>2
  <1>11. CASE l = m /\ \E i \in 1 .. m : s[i] # d[i] /\ \A j \in 1 .. m : j # i => s[j] = d[j]
    <2>1. PICK i \in 1 .. m : s[i] # d[i] /\ \A j \in 1 .. m : j # i => s[j] = d[j]
      BY <1>11
    <2>2. i \in Nat /\ i >= 1 /\ i <= m
      BY <1>4
    <2>3. ~(i <= n)
      BY <1>1, <1>3, <2>1, <2>2
    <2>4. ~(i > n /\ i <= b)
      <3> SUFFICES ASSUME i > n, i <= b PROVE FALSE
        OBVIOUS
      <3>1. i - n \in 1 .. W32 /\ n + (i - n) = i
        BY <1>2, <1>3, <2>2
      <3> QED BY <1>8, <2>1, <3>1
    <2>5. ~(i > c /\ i <= e)
      <3> SUFFICES ASSUME i > c, i <= e PROVE FALSE
        OBVIOUS
      <3>1. i - c \in 1 .. W64 /\ c + (i - c) = i
        BY <1>2, <1>3, <2>2
      <3>2. Field(s, c, W64) = Field(d, c, W64)
        BY <1>1, <1>11
      <3> QED BY <1>8, <2>1, <3>1, <3>2
    <2> DEFINE p == SubSeq(d, h + 1, m)
               q == SubSeq(s, h + 1, l)
               k == m - h
    <2>6. /\ p \in Seq(Byte) /\ q \in Seq(Byte) /\ Len(p) = k /\ Len(q) = k /\ k \in Nat
          /\ \A j \in 1 .. k : p[j] = d[h + j] /\ q[j] = s[h + j]
      <3>1. /\ h + 1 \in 1 .. m + 1 /\ m \in 0 .. m /\ h + 1 <= m + 1 /\ m + 1 - (h + 1) = k
            /\ \A j \in 1 .. k : (h + 1) + j - 1 = h + j
        BY <1>1, <1>4
      <3>2. /\ p \in Seq(Byte) /\ Len(p) = m + 1 - (h + 1)
            /\ \A j \in 1 .. m + 1 - (h + 1) : p[j] = d[(h + 1) + j - 1]
        BY <1>1, <3>1, PieceFacts DEF m
      <3>3. /\ q \in Seq(Byte) /\ Len(q) = m + 1 - (h + 1)
            /\ \A j \in 1 .. m + 1 - (h + 1) : q[j] = s[(h + 1) + j - 1]
        <4>1. l = m
          BY <1>11
        <4> QED BY <3>1, <4>1, PieceFacts DEF l
      <3> HIDE DEF p, q
      <3>4. k \in Nat
        BY <1>1, <1>4
      <3> QED BY <3>1, <3>2, <3>3, <3>4
    <2>7. Field(s, e, W64) = Checksum(q) /\ Field(d, e, W64) = Checksum(p)
      BY <1>1
    <2> HIDE DEF p, q
    <2>8. ~(i > e /\ i <= h)
      <3> SUFFICES ASSUME i > e, i <= h PROVE FALSE
        OBVIOUS
      <3>1. i - e \in 1 .. W64 /\ e + (i - e) = i
        BY <1>2, <1>3, <2>2
      <3>2. \A j \in 1 .. k : q[j] = p[j]
        <4> SUFFICES ASSUME NEW j \in 1 .. k PROVE s[h + j] = d[h + j]
          BY <2>6
        <4>1. h + j \in 1 .. m /\ h + j # i
          BY <1>1, <1>4, <2>2
        <4> QED BY <2>1, <4>1
      <3>3. q = p
        BY <2>6, <3>2, SameBytes
      <3> QED BY <1>8, <2>1, <2>7, <3>1, <3>3
    <2>9. ~(i > h)
      <3> SUFFICES ASSUME i > h PROVE FALSE
        OBVIOUS
      <3> DEFINE g == i - h
      <3>1. g \in 1 .. k /\ h + g = i
        BY <1>1, <1>4, <2>2
      <3>2. \A j \in 1 .. W64 : s[e + j] = d[e + j]
        <4> SUFFICES ASSUME NEW j \in 1 .. W64 PROVE s[e + j] = d[e + j]
          OBVIOUS
        <4>1. e + j \in 1 .. m /\ e + j # i
          BY <1>2, <1>3, <1>4, <1>7, <2>2
        <4> QED BY <2>1, <4>1
      <3>3. Checksum(q) = Checksum(p)
        BY <1>8, <2>7, <3>2
      <3> HIDE DEF g, k
      <3>4. q[g] # p[g]
        BY <2>1, <2>6, <3>1
      <3>5. \A j \in 1 .. k : j # g => q[j] = p[j]
        <4> SUFFICES ASSUME NEW j \in 1 .. k, j # g PROVE s[h + j] = d[h + j]
          BY <2>6
        <4>1. h + j \in 1 .. m /\ h + j # i
          BY <1>1, <1>4, <2>2, <3>1 DEF k, g
        <4> QED BY <2>1, <4>1
      <3> QED BY <2>6, <3>1, <3>3, <3>4, <3>5, ChecksumTellsBytes
    <2>10. i \in b + 1 .. c
      BY <1>3, <2>2, <2>3, <2>4, <2>5, <2>8, <2>9
    <2>11. \A j \in 1 .. m : j \notin b + 1 .. c => s[j] = d[j]
      BY <2>1, <2>10
    <2> QED BY <1>4, <1>5, <1>11, <2>11 DEF l, m
  <1> QED BY <1>6, <1>9, <1>10, <1>11

\* The file is there only as it was written, or as storage has left it.
FileInv ==
    \/ file = NoFile
    \/ file = [damage |-> "refused", checkpoint |-> file.checkpoint]
    \/ /\ file = [damage |-> file.damage, checkpoint |-> file.checkpoint, data |-> file.data]
       /\ file.checkpoint \in Checkpoints
       /\ EncodeCheckpoint(file.checkpoint).state = "success"
       /\ file.data \in Seq(Byte)
       /\ Damaged(EncodeCheckpoint(file.checkpoint).data, file.data, file.damage)

\* Storage damages a file once.
LEMMA FileDamage ==
    ASSUME FileInv, file.damage = "none", NEW damage, NEW data \in Seq(Byte),
           file' = [file EXCEPT !.damage = damage, !.data = data],
           Damaged(file.data, data, damage)
    PROVE  FileInv'
  <1>1. /\ file = [damage |-> file.damage, checkpoint |-> file.checkpoint, data |-> file.data]
        /\ file.checkpoint \in Checkpoints
        /\ EncodeCheckpoint(file.checkpoint).state = "success"
        /\ Damaged(EncodeCheckpoint(file.checkpoint).data, file.data, file.damage)
    BY DEF FileInv, NoFile
  <1>2. EncodeCheckpoint(file.checkpoint).data = file.data
    BY <1>1 DEF Damaged
  <1>3. file' = [damage |-> damage, checkpoint |-> file.checkpoint, data |-> data]
    BY <1>1
  <1>4. file'.damage = damage /\ file'.checkpoint = file.checkpoint /\ file'.data = data
    BY <1>3
  <1> QED BY <1>1, <1>2, <1>3, <1>4 DEF FileInv

\* Every step keeps the file so.
LEMMA FileNextInv == FileInv /\ [Next]_vars => FileInv'
  <1> SUFFICES ASSUME FileInv, [Next]_vars PROVE FileInv'
    OBVIOUS
  <1>1. CASE UNCHANGED file
    BY <1>1 DEF FileInv
  <1>2. ASSUME NEW cp \in Checkpoints, SaveFile(cp) PROVE FileInv'
    <2>1. CASE EncodeCheckpoint(cp).state = "success"
      <3> DEFINE d == EncodeCheckpoint(cp).data
      <3>1. file' = [damage |-> "none", checkpoint |-> cp, data |-> d]
        BY <1>2, <2>1 DEF SaveFile
      <3>2. file'.damage = "none" /\ file'.checkpoint = cp /\ file'.data = d
        BY <3>1
      <3>3. d \in Seq(Byte)
        <4>1. cp \in CheckpointType
          BY CodecsAssumption
        <4> QED BY <2>1, <4>1, FileFacts
      <3> HIDE DEF d
      <3>4. Damaged(d, d, "none")
        BY DEF Damaged
      <3> QED BY <2>1, <3>1, <3>2, <3>3, <3>4 DEF FileInv, d
    <2>2. CASE EncodeCheckpoint(cp).state # "success"
      <3>1. file' = [damage |-> "refused", checkpoint |-> cp]
        BY <1>2, <2>2 DEF SaveFile
      <3>2. file'.checkpoint = cp
        BY <3>1
      <3> QED BY <3>1, <3>2 DEF FileInv
    <2> QED BY <2>1, <2>2
  <1>3. file.damage = "none" => file.data \in Seq(Byte) /\ DOMAIN file.data = 1 .. Len(file.data)
    BY DEF FileInv, NoFile
  <1>4. ASSUME NEW i \in 1 .. MaxFile, NEW byte \in Byte, ChangeByte(i, byte) PROVE FileInv'
    <2> DEFINE w == file.data
               data == [w EXCEPT ![i] = byte]
    <2>1. /\ file.damage = "none" /\ w \in Seq(Byte) /\ i \in 1 .. Len(w) /\ w[i] # byte
      BY <1>3, <1>4 DEF ChangeByte
    <2>2. file' = [file EXCEPT !.damage = "byte", !.data = data]
      BY <1>4 DEF ChangeByte
    <2> HIDE DEF w
    <2>3. data \in Seq(Byte) /\ Len(data) = Len(w) /\ data[i] = byte
          /\ \A j \in 1 .. Len(w) : j # i => data[j] = w[j]
      BY <2>1
    <2> HIDE DEF data
    <2>4. Damaged(w, data, "byte")
      BY <2>1, <2>3 DEF Damaged
    <2> QED BY <2>1, <2>2, <2>3, <2>4, FileDamage DEF w
  <1>5. ASSUME NEW n \in 0 .. MaxFile, CutShort(n) PROVE FileInv'
    <2> DEFINE w == file.data
               data == SubSeq(w, 1, n)
    <2>1. file.damage = "none" /\ w \in Seq(Byte) /\ n < Len(w) /\ n \in Nat
      <3>1. n \in Nat
        BY CheckpointAssumption, WidthFacts
      <3> QED BY <1>3, <1>5, <3>1 DEF CutShort
    <2>2. file' = [file EXCEPT !.damage = "length", !.data = data]
      BY <1>5 DEF CutShort
    <2> HIDE DEF w
    <2>3. data \in Seq(Byte) /\ Len(data) = n /\ \A j \in 1 .. n : data[j] = w[j]
      BY <2>1
    <2> HIDE DEF data
    <2>4. Damaged(w, data, "length")
      BY <2>1, <2>3 DEF Damaged
    <2> QED BY <2>1, <2>2, <2>3, <2>4, FileDamage DEF w
  <1>6. ASSUME NEW byte \in Byte, Lengthen(byte) PROVE FileInv'
    <2> DEFINE w == file.data
               data == Append(w, byte)
    <2>1. file.damage = "none" /\ w \in Seq(Byte)
      BY <1>3, <1>6 DEF Lengthen
    <2>2. file' = [file EXCEPT !.damage = "length", !.data = data]
      BY <1>6 DEF Lengthen
    <2> HIDE DEF w
    <2>3. /\ data \in Seq(Byte) /\ Len(data) = Len(w) + 1 /\ Len(w) \in Nat
          /\ \A j \in 1 .. Len(w) : data[j] = w[j]
      BY <2>1
    <2> HIDE DEF data
    <2>4. Damaged(w, data, "length")
      BY <2>1, <2>3 DEF Damaged
    <2> QED BY <2>1, <2>2, <2>3, <2>4, FileDamage DEF w
  <1>7. UNCHANGED vars \/ Talk => UNCHANGED file
    BY DEF vars, Talk
  <1> QED BY <1>1, <1>2, <1>4, <1>5, <1>6, <1>7 DEF Next

(***************************************************************************)
(* A checkpoint file is read only with the length and with every byte it   *)
(* was written with, those of the generation and of the counts aside       *)
(* (checkpoint_codec.cpp:389): the checksum finds every single damaged     *)
(* byte, not just most of them.  For every checkpoint, width and FNV prime.*)
(***************************************************************************)
THEOREM DamageTheorem == Spec => []DamageIsRefused
  <1>1. Init => FileInv
    BY DEF Init, FileInv
  <1>2. FileInv => DamageIsRefused
    <2> SUFFICES ASSUME FileInv, file.damage \in {"none", "length", "byte"},
                        DecodeCheckpoint(file.data).state = "success"
                 PROVE  LET w == EncodeCheckpoint(file.checkpoint).data IN
                        /\ Len(file.data) = Len(w)
                        /\ \A i \in DOMAIN file.data \ UncheckedBytes : file.data[i] = w[i]
      BY Zenon DEF DamageIsRefused, Decoded, Written
    <2> DEFINE s == file.data
               cp == file.checkpoint
               d == EncodeCheckpoint(cp).data
               damage == file.damage
    <2>1. /\ cp \in CheckpointType /\ EncodeCheckpoint(cp).state = "success"
          /\ s \in Seq(Byte) /\ Damaged(d, s, damage) /\ DecodeCheckpoint(s).state = "success"
      BY CodecsAssumption DEF FileInv, NoFile
    <2>2. d = EncodeCheckpoint(cp).data
      OBVIOUS
    <2> HIDE DEF s, cp, d, damage
    <2>3. Len(s) = Len(d) /\ \A j \in DOMAIN s \ UncheckedBytes : s[j] = d[j]
      BY <2>1, <2>2, DamageFacts
    <2> QED BY <2>3 DEF s, cp, d
  <1> QED BY <1>1, <1>2, FileNextInv, PTL DEF Spec

-----------------------------------------------------------------------------
(* Reading the records back. *)

\* A reader at o that has read the records l.
ReaderAt(o, l) == [ok |-> TRUE, position |-> o, records |-> l]

\* Two fields of a record of three get other values.
LEMMA TwoFields ==
    ASSUME NEW t, NEW o, NEW l, NEW p, NEW y, NEW r, r = [ok |-> t, position |-> o, records |-> l],
           NEW z, z = [r EXCEPT !.position = p, !.records = y]
    PROVE  z = [ok |-> t, position |-> p, records |-> y]
  OBVIOUS

\* A reader goes on to p with one more record.
Advanced(r, p, m) == [r EXCEPT !.position = p, !.records = Append(@, m)]

\* It has read that record too.
LEMMA Advance ==
    ASSUME NEW o, NEW l, NEW p, NEW m
    PROVE  Advanced(ReaderAt(o, l), p, m) = ReaderAt(p, Append(l, m))
  <1> DEFINE r == ReaderAt(o, l)
             y == Append(l, m)
             z == Advanced(r, p, m)
             t == TRUE
  <1>1. r = [ok |-> t, position |-> o, records |-> l]
    BY DEF ReaderAt
  <1>2. r.records = l
    BY <1>1
  <1>3. z = [r EXCEPT !.position = p, !.records = y]
    BY <1>2, Zenon DEF Advanced
  <1> HIDE DEF r, y, t, z
  <1>4. z = [ok |-> t, position |-> p, records |-> y]
    BY <1>1, <1>3, TwoFields, Zenon
  <1> QED BY <1>4, Zenon DEF ReaderAt, y, t, z, r

\* Two fields in a row.
LEMMA RowOfTwo ==
    ASSUME NEW s \in Seq(Byte), NEW o \in Nat, NEW a \in Nat, NEW b \in Nat
    PROVE  LET f == Fixed(s, o, <<a, b>>) IN f[1] = Field(s, o, a) /\ f[2] = Field(s, o + a, b)
  <1> DEFINE w == <<a, b>>
  <1>1. w \in Seq(Nat) /\ Len(w) = 2 /\ w[1] = a /\ w[2] = b
    OBVIOUS
  <1> HIDE DEF w
  <1>2. PICK c \in [0 .. Len(w) -> Nat] :
           /\ c[0] = 0
           /\ \A i \in 1 .. Len(w) :
                c[i] = c[i - 1] + w[i] /\ Fixed(s, o, w)[i] = Field(s, o + c[i - 1], w[i])
    <2>1. w \in Seq(Nat)
      BY <1>1
    <2> QED BY <2>1, FixedFacts
  <1> DEFINE x == Fixed(s, o, w)
  <1>5. \A i \in 1 .. 2 : c[i] = c[i - 1] + w[i] /\ x[i] = Field(s, o + c[i - 1], w[i])
    BY <1>1, <1>2
  <1> HIDE DEF x
  <1>3. /\ x[1] = Field(s, o + c[0], w[1]) /\ c[1] = c[0] + w[1]
        /\ x[2] = Field(s, o + c[1], w[2])
    BY <1>5
  <1>4. o + c[0] = o /\ o + c[1] = o + a
    BY <1>1, <1>2, <1>3
  <1> QED BY <1>1, <1>3, <1>4 DEF w, x

\* The fields of a session after its token.
LEMMA SessionRow ==
    ASSUME NEW s \in Seq(Byte), NEW o \in Nat
    PROVE  LET f == Fixed(s, o, <<W32, W64>>) IN
           f[1] = Field(s, o, W32) /\ f[2] = Field(s, o + W32, W64)
  <1>1. W32 \in Nat /\ W64 \in Nat
    BY WidthFacts
  <1> QED BY <1>1, RowOfTwo, ZenonT(60)

\* Four fields in a row.
LEMMA RowOfFour ==
    ASSUME NEW s \in Seq(Byte), NEW o \in Nat, NEW a \in Nat, NEW b \in Nat, NEW d \in Nat,
           NEW e \in Nat
    PROVE  LET f == Fixed(s, o, <<a, b, d, e>>) IN
           /\ f[1] = Field(s, o, a) /\ f[2] = Field(s, o + a, b)
           /\ f[3] = Field(s, o + a + b, d) /\ f[4] = Field(s, o + a + b + d, e)
  <1> DEFINE w == <<a, b, d, e>>
  <1>1. w \in Seq(Nat) /\ Len(w) = 4 /\ w[1] = a /\ w[2] = b /\ w[3] = d /\ w[4] = e
    OBVIOUS
  <1> HIDE DEF w
  <1>2. PICK c \in [0 .. Len(w) -> Nat] :
           /\ c[0] = 0
           /\ \A i \in 1 .. Len(w) :
                c[i] = c[i - 1] + w[i] /\ Fixed(s, o, w)[i] = Field(s, o + c[i - 1], w[i])
    <2>1. w \in Seq(Nat)
      BY <1>1
    <2> QED BY <2>1, FixedFacts
  <1> DEFINE x == Fixed(s, o, w)
  <1>5. \A i \in 1 .. 4 : c[i] = c[i - 1] + w[i] /\ x[i] = Field(s, o + c[i - 1], w[i])
    BY <1>1, <1>2
  <1> HIDE DEF x
  <1>3. /\ x[1] = Field(s, o + c[0], w[1]) /\ c[1] = c[0] + w[1]
        /\ x[2] = Field(s, o + c[1], w[2]) /\ c[2] = c[1] + w[2]
        /\ x[3] = Field(s, o + c[2], w[3]) /\ c[3] = c[2] + w[3]
        /\ x[4] = Field(s, o + c[3], w[4])
    BY <1>5
  <1>4. o + c[0] = o /\ o + c[1] = o + a /\ o + c[2] = o + a + b /\ o + c[3] = o + a + b + d
    BY <1>1, <1>2, <1>3
  <1> QED BY <1>1, <1>3, <1>4 DEF w, x

\* What six fields in a row are.
SixFields(f, s, o, a, b, d, e, g, h) ==
    /\ f[1] = Field(s, o, a) /\ f[2] = Field(s, o + a, b)
    /\ f[3] = Field(s, o + a + b, d) /\ f[4] = Field(s, o + a + b + d, e)
    /\ f[5] = Field(s, o + a + b + d + e, g) /\ f[6] = Field(s, o + a + b + d + e + g, h)

\* Six fields in a row.
LEMMA RowOfSix ==
    ASSUME NEW s \in Seq(Byte), NEW o \in Nat, NEW a \in Nat, NEW b \in Nat, NEW d \in Nat,
           NEW e \in Nat, NEW g \in Nat, NEW h \in Nat
    PROVE  SixFields(Fixed(s, o, <<a, b, d, e, g, h>>), s, o, a, b, d, e, g, h)
  <1> DEFINE w == <<a, b, d, e, g, h>>
  <1>1. /\ w \in Seq(Nat) /\ Len(w) = 6 /\ w[1] = a /\ w[2] = b /\ w[3] = d /\ w[4] = e
        /\ w[5] = g /\ w[6] = h
    OBVIOUS
  <1> HIDE DEF w
  <1>2. PICK c \in [0 .. Len(w) -> Nat] :
           /\ c[0] = 0
           /\ \A i \in 1 .. Len(w) :
                c[i] = c[i - 1] + w[i] /\ Fixed(s, o, w)[i] = Field(s, o + c[i - 1], w[i])
    <2>1. w \in Seq(Nat)
      BY <1>1
    <2> QED BY <2>1, FixedFacts
  <1> DEFINE x == Fixed(s, o, w)
  <1>5. \A i \in 1 .. 6 : c[i] = c[i - 1] + w[i] /\ x[i] = Field(s, o + c[i - 1], w[i])
    BY <1>1, <1>2
  <1> HIDE DEF x
  <1>3. /\ x[1] = Field(s, o + c[0], w[1]) /\ c[1] = c[0] + w[1]
        /\ x[2] = Field(s, o + c[1], w[2]) /\ c[2] = c[1] + w[2]
        /\ x[3] = Field(s, o + c[2], w[3]) /\ c[3] = c[2] + w[3]
        /\ x[4] = Field(s, o + c[3], w[4]) /\ c[4] = c[3] + w[4]
        /\ x[5] = Field(s, o + c[4], w[5]) /\ c[5] = c[4] + w[5]
        /\ x[6] = Field(s, o + c[5], w[6])
    BY <1>5
  <1>4. /\ o + c[0] = o /\ o + c[1] = o + a /\ o + c[2] = o + a + b /\ o + c[3] = o + a + b + d
        /\ o + c[4] = o + a + b + d + e /\ o + c[5] = o + a + b + d + e + g
    BY <1>1, <1>2, <1>3
  <1> QED BY <1>1, <1>3, <1>4 DEF w, x, SixFields

\* A member is read back.
LEMMA MemberRead ==
    ASSUME NEW s \in Seq(Byte), NEW o \in Nat, NEW m \in Member, Len(m.player_name) <= Max32,
           At(s, o, EncodedMember(m)), NEW l
    PROVE  ReadMember(s, ReaderAt(o, l)) = ReaderAt(o + Len(EncodedMember(m)), Append(l, m))
  <1> DEFINE a == Bytes(m.player_id, W64)
             b == Bytes(Len(m.player_name), W32)
             c == m.player_name
             x == Pair(a, b)
             n == Len(c)
             v == m.player_id
             start == o + MinMemberSize
             field == Fixed(s, o, <<W64, W32>>)
  <1>1. v \in 0 .. Max64 /\ c \in Seq(Byte) /\ n \in Nat /\ n <= Max32
        /\ Len(EncodedMember(m)) = MinMemberSize + n
    BY MemberType
  <1>2. v \in Nat /\ v \in 0 .. Power(W64) - 1 /\ n \in 0 .. Power(W32) - 1
        /\ W32 \in Nat /\ W64 \in Nat /\ MinMemberSize = W64 + W32
    BY <1>1, WidthFacts DEF MinMemberSize
  <1>3. a \in Seq(Byte) /\ b \in Seq(Byte) /\ Len(a) = W64 /\ Len(b) = W32
    BY <1>1, <1>2, NumberBytes
  <1>4. EncodedMember(m) = Pair(x, c)
    BY RecordBytes
  <1>5. field[1] = Field(s, o, W64) /\ field[2] = Field(s, o + W64, W32)
    BY <1>2, RowOfTwo
  <1>6. m = [player_id |-> v, player_name |-> c]
    BY DEF Member
  <1>12. a = Bytes(v, W64) /\ b = Bytes(n, W32) /\ n = Len(c)
    OBVIOUS
  <1> HIDE DEF a, b, c, v, n
  <1>7. x \in Seq(Byte) /\ Len(x) = W64 + W32
    BY <1>3, PairFacts
  <1>8. At(s, o, x) /\ At(s, o + Len(x), c)
    <2>1. At(s, o, Pair(x, c))
      BY <1>4
    <2> HIDE DEF x
    <2> QED BY <1>1, <1>7, <2>1, PairFacts
  <1>9. At(s, o, a) /\ At(s, o + Len(a), b)
    BY <1>3, <1>8, PairFacts
  <1>10. At(s, o + W64, b) /\ At(s, start, c) /\ start \in Nat
    <2>1. o + Len(a) = o + W64 /\ o + Len(x) = start /\ start \in Nat
      BY <1>2, <1>3, <1>7
    <2> QED BY <1>8, <1>9, <2>1
  <1> HIDE DEF field, start
  <1>11. field[1] = v /\ field[2] = n
    <2>1. o + W64 \in Nat
      BY <1>2
    <2>2. Field(s, o, W64) = v
      BY <1>2, <1>9, <1>12, AtField
    <2>3. Field(s, o + W64, W32) = n
      BY <1>2, <1>10, <1>12, <2>1, AtField
    <2> QED BY <1>5, <2>2, <2>3
  <1>13. SubSeq(s, start + 1, start + n) = c /\ start + n <= Len(s)
    BY <1>1, <1>10, <1>12, AtPiece
  <1> DEFINE r == ReaderAt(o, l)
  <1>14. r.position = o /\ r.records = l
    BY DEF ReaderAt
  <1> DEFINE y == [player_id |-> field[1],
                   player_name |-> SubSeq(s, start + 1, start + field[2])]
  <1>15. ReadMember(s, r) =
           IF Remaining(s, r) < MinMemberSize \/ Len(s) - start < field[2]
           THEN Failed(r)
           ELSE Advanced(r, start + field[2], y)
    BY <1>14, Zenon DEF ReadMember, field, start, Advanced
  <1>16. ~(Remaining(s, r) < MinMemberSize \/ Len(s) - start < field[2])
    <2>1. Len(s) \in Nat
      OBVIOUS
    <2> QED BY <1>1, <1>2, <1>11, <1>13, <1>14, <2>1 DEF Remaining, start
  <1>17. y = m
    BY <1>6, <1>11, <1>13
  <1> HIDE DEF y
  <1>19. Advanced(r, start + field[2], y) = ReaderAt(start + n, Append(l, m))
    <2>1. Advanced(ReaderAt(o, l), start + n, m) = ReaderAt(start + n, Append(l, m))
      BY Advance
    <2>2. Advanced(r, start + field[2], y) = Advanced(r, start + n, m)
      BY <1>11, <1>17
    <2> QED BY <2>1, <2>2
  <1>18. start + n = o + Len(EncodedMember(m))
    BY <1>1, <1>2 DEF start
  <1> QED BY <1>15, <1>16, <1>18, <1>19, Zenon

\* The state of a player is read back.
LEMMA StateRead ==
    ASSUME NEW s \in Seq(Byte), NEW o \in Nat, NEW g \in State, At(s, o, EncodedGameState(g)), NEW l
    PROVE  ReadGameState(s, ReaderAt(o, l)) = ReaderAt(o + Len(EncodedGameState(g)), Append(l, g))
  <1> DEFINE va == g.player_id
             vb == ToBits(g.x)
             vc == ToBits(g.y)
             vd == ToBits(g.hp)
             a == Bytes(va, W64)
             b == Bytes(vb, W32)
             c == Bytes(vc, W32)
             d == Bytes(vd, W32)
             x == Pair(a, b)
             y == Pair(x, c)
             field == Fixed(s, o, <<W64, W32, W32, W32>>)
             z == o + GameStateSize
  <1>1. va \in 0 .. Max64 /\ g.x \in Int32s /\ g.y \in Int32s /\ g.hp \in Int32s
        /\ Len(EncodedGameState(g)) = GameStateSize
    BY StateType
  <1>2. va \in Nat /\ va \in 0 .. Power(W64) - 1 /\ Max32 = Power(W32) - 1
        /\ W32 \in Nat /\ W64 \in Nat /\ GameStateSize = W64 + W32 + W32 + W32
    BY <1>1, WidthFacts DEF GameStateSize
  <1>3. /\ vb \in 0 .. Max32 /\ FromBits(vb) = g.x /\ vc \in 0 .. Max32 /\ FromBits(vc) = g.y
        /\ vd \in 0 .. Max32 /\ FromBits(vd) = g.hp
        /\ b \in Seq(Byte) /\ Len(b) = W32 /\ c \in Seq(Byte) /\ Len(c) = W32
        /\ d \in Seq(Byte) /\ Len(d) = W32
    BY <1>1, BitsFacts
  <1>25. vb \in 0 .. Power(W32) - 1 /\ vc \in 0 .. Power(W32) - 1 /\ vd \in 0 .. Power(W32) - 1
    BY <1>2, <1>3
  <1>4. a \in Seq(Byte) /\ Len(a) = W64
    BY <1>2, NumberBytes
  <1>5. EncodedGameState(g) = Pair(y, d)
    BY RecordBytes
  <1>6. /\ field[1] = Field(s, o, W64) /\ field[2] = Field(s, o + W64, W32)
        /\ field[3] = Field(s, o + W64 + W32, W32) /\ field[4] = Field(s, o + W64 + W32 + W32, W32)
    BY <1>2, RowOfFour, SMTT(30)
  <1>7. g = [player_id |-> va, x |-> g.x, y |-> g.y, hp |-> g.hp]
    BY DEF State
  <1>8. /\ a = Bytes(va, W64) /\ b = Bytes(vb, W32) /\ c = Bytes(vc, W32) /\ d = Bytes(vd, W32)
    OBVIOUS
  <1> HIDE DEF a, b, c, d, va, vb, vc, vd, field
  <1>9. x \in Seq(Byte) /\ Len(x) = W64 + W32
    BY <1>3, <1>4, PairFacts
  <1> HIDE DEF x
  <1>10. y \in Seq(Byte) /\ Len(y) = W64 + W32 + W32
    BY <1>3, <1>9, PairFacts
  <1> HIDE DEF y
  <1>11. At(s, o, y) /\ At(s, o + Len(y), d)
    <2>1. At(s, o, Pair(y, d))
      BY <1>5
    <2> QED BY <1>3, <1>10, <2>1, PairFacts
  <1>12. At(s, o, x) /\ At(s, o + Len(x), c)
    <2>1. At(s, o, Pair(x, c))
      BY <1>11 DEF y
    <2> QED BY <1>3, <1>9, <2>1, PairFacts
  <1>13. At(s, o, a) /\ At(s, o + Len(a), b)
    <2>1. At(s, o, Pair(a, b))
      BY <1>12 DEF x
    <2> QED BY <1>3, <1>4, <2>1, PairFacts
  <1>14. /\ o + Len(a) = o + W64 /\ o + Len(x) = o + W64 + W32 /\ o + Len(y) = o + W64 + W32 + W32
         /\ o + W64 \in Nat /\ o + W64 + W32 \in Nat /\ o + W64 + W32 + W32 \in Nat
    BY <1>2, <1>4, <1>9, <1>10
  <1>15. field[1] = va
    BY <1>2, <1>6, <1>8, <1>13, AtField
  <1>16. field[2] = vb
    <2> DEFINE p == o + W64
    <2>1. p \in Nat /\ At(s, p, b) /\ field[2] = Field(s, p, W32)
      BY <1>6, <1>13, <1>14
    <2> HIDE DEF p
    <2> QED BY <1>2, <1>8, <1>25, <2>1, AtField
  <1>17. field[3] = vc
    <2> DEFINE p == o + W64 + W32
    <2>1. p \in Nat /\ At(s, p, c) /\ field[3] = Field(s, p, W32)
      BY <1>6, <1>12, <1>14
    <2> HIDE DEF p
    <2> QED BY <1>2, <1>8, <1>25, <2>1, AtField
  <1>18. field[4] = vd /\ z <= Len(s)
    <2> DEFINE p == o + W64 + W32 + W32
    <2>1. p \in Nat /\ At(s, p, d) /\ field[4] = Field(s, p, W32)
      BY <1>6, <1>11, <1>14
    <2>2. p + W32 = z
      BY <1>2
    <2> HIDE DEF p
    <2>3. field[4] = vd /\ p + W32 <= Len(s)
      BY <1>2, <1>8, <1>25, <2>1, AtField
    <2> QED BY <2>2, <2>3
  <1> DEFINE r == ReaderAt(o, l)
             q == [player_id |-> field[1], x |-> FromBits(field[2]),
                   y |-> FromBits(field[3]), hp |-> FromBits(field[4])]
  <1>19. r.position = o
    BY DEF ReaderAt
  <1>20. ReadGameState(s, r) =
           IF Remaining(s, r) < GameStateSize THEN Failed(r) ELSE Advanced(r, z, q)
    BY <1>19, Zenon DEF ReadGameState, field, Advanced
  <1>21. ~(Remaining(s, r) < GameStateSize)
    <2>1. Len(s) \in Nat
      OBVIOUS
    <2> QED BY <1>2, <1>18, <1>19, <2>1 DEF Remaining
  <1>22. q = g
    BY <1>3, <1>7, <1>15, <1>16, <1>17, <1>18
  <1> HIDE DEF q, z
  <1>23. Advanced(r, z, q) = ReaderAt(z, Append(l, g))
    <2>1. Advanced(ReaderAt(o, l), z, g) = ReaderAt(z, Append(l, g))
      BY Advance
    <2> QED BY <1>22, <2>1
  <1>24. z = o + Len(EncodedGameState(g))
    BY <1>1 DEF z
  <1> QED BY <1>20, <1>21, <1>23, <1>24, Zenon

\* A session is read back.
LEMMA SessionRead ==
    ASSUME NEW s \in Seq(Byte), NEW o \in Nat, NEW e \in SessionType, Len(e.token) <= Max32,
           At(s, o, EncodedSession(e)), NEW l
    PROVE  ReadSession(s, ReaderAt(o, l)) = ReaderAt(o + Len(EncodedSession(e)), Append(l, e))
  <1> DEFINE n == Len(e.token)
             t == e.token
             va == e.room_id
             vb == e.player_id
             a == Bytes(n, W32)
             c == Bytes(va, W32)
             d == Bytes(vb, W64)
             x == Pair(a, t)
             y == Pair(x, c)
             size == Field(s, o, W32)
             start == o + W32
             mid == o + W32 + n
             field == Fixed(s, start + size, <<W32, W64>>)
  <1>1. /\ t \in Seq(Byte) /\ va \in 0 .. Max32 /\ vb \in 0 .. Max64 /\ n \in Nat /\ n <= Max32
        /\ Len(EncodedSession(e)) = W32 + n + W32 + W64
    BY SessionBytes
  <1>2. /\ W32 \in Nat /\ W64 \in Nat /\ va \in Nat /\ vb \in Nat
        /\ n \in 0 .. Power(W32) - 1 /\ va \in 0 .. Power(W32) - 1 /\ vb \in 0 .. Power(W64) - 1
    BY <1>1, WidthFacts
  <1>3. /\ a \in Seq(Byte) /\ Len(a) = W32 /\ c \in Seq(Byte) /\ Len(c) = W32
        /\ d \in Seq(Byte) /\ Len(d) = W64
    BY <1>1, <1>2, NumberBytes
  <1>4. EncodedSession(e) = Pair(y, d)
    BY RecordBytes
  <1>5. e = [token |-> t, room_id |-> va, player_id |-> vb]
    BY DEF SessionType
  <1>6. a = Bytes(n, W32) /\ c = Bytes(va, W32) /\ d = Bytes(vb, W64) /\ n = Len(t)
    OBVIOUS
  <1> HIDE DEF a, c, d, t, n, va, vb
  <1>7. x \in Seq(Byte) /\ Len(x) = W32 + n
    <2>1. x \in Seq(Byte) /\ Len(x) = Len(a) + Len(t)
      BY <1>1, <1>3, PairFacts
    <2> QED BY <1>3, <1>6, <2>1
  <1> HIDE DEF x
  <1>8. y \in Seq(Byte) /\ Len(y) = W32 + n + W32
    BY <1>3, <1>7, PairFacts
  <1> HIDE DEF y
  <1>9. At(s, o, y) /\ At(s, o + Len(y), d)
    <2>1. At(s, o, Pair(y, d))
      BY <1>4
    <2> QED BY <1>3, <1>8, <2>1, PairFacts
  <1>10. At(s, o, x) /\ At(s, o + Len(x), c)
    <2>1. At(s, o, Pair(x, c))
      BY <1>9 DEF y
    <2> QED BY <1>3, <1>7, <2>1, PairFacts
  <1>11. At(s, o, a) /\ At(s, o + Len(a), t)
    <2>1. At(s, o, Pair(a, t))
      BY <1>10 DEF x
    <2> QED BY <1>1, <1>3, <2>1, PairFacts
  <1>12. /\ o + Len(a) = start /\ o + Len(x) = mid /\ o + Len(y) = mid + W32
         /\ start \in Nat /\ mid \in Nat /\ mid + W32 \in Nat /\ start + n = mid
    BY <1>1, <1>2, <1>3, <1>7, <1>8
  <1>13. size = n /\ o + W32 <= Len(s)
    BY <1>2, <1>6, <1>11, AtField
  <1> HIDE DEF size, start
  <1>14. SubSeq(s, start + 1, start + n) = t
    BY <1>1, <1>6, <1>11, <1>12, AtPiece
  <1>15. field[1] = Field(s, mid, W32) /\ field[2] = Field(s, mid + W32, W64)
    <2>1. field = Fixed(s, mid, <<W32, W64>>)
      BY <1>12, <1>13
    <2> HIDE DEF mid, field
    <2>2. mid \in Nat /\ W32 \in Nat /\ W64 \in Nat
      BY <1>2, <1>12
    <2> QED BY <2>1, <2>2, SessionRow
  <1> HIDE DEF mid, field
  <1>16. field[1] = va
    BY <1>2, <1>6, <1>10, <1>12, <1>15, AtField
  <1>17. field[2] = vb /\ mid + W32 + W64 <= Len(s)
    <2> DEFINE p == mid + W32
    <2>1. p \in Nat /\ At(s, p, d) /\ field[2] = Field(s, p, W64)
      BY <1>9, <1>12, <1>15
    <2> HIDE DEF p
    <2>2. field[2] = vb /\ p + W64 <= Len(s)
      BY <1>2, <1>6, <2>1, AtField
    <2> QED BY <2>2 DEF p
  <1> DEFINE r == ReaderAt(o, l)
             q == [token |-> SubSeq(s, start + 1, start + size),
                   room_id |-> field[1], player_id |-> field[2]]
             z == start + size + W32 + W64
  <1>18. r.position = o
    BY DEF ReaderAt
  <1>19. ReadSession(s, r) =
           IF Remaining(s, r) < W32 \/ Len(s) - start < size + W32 + W64
           THEN Failed(r) ELSE Advanced(r, z, q)
    BY <1>18, Zenon DEF ReadSession, field, size, start, Advanced
  <1>20. ~(Remaining(s, r) < W32 \/ Len(s) - start < size + W32 + W64)
    <2>1. Len(s) \in Nat
      OBVIOUS
    <2>2. ~(Remaining(s, r) < W32)
      BY <1>2, <1>13, <1>18, <2>1 DEF Remaining
    <2>3. ~(Len(s) - start < size + W32 + W64)
      BY <1>1, <1>2, <1>12, <1>13, <1>17, <2>1
    <2> QED BY <2>2, <2>3
  <1>21. q = e
    BY <1>5, <1>13, <1>14, <1>16, <1>17
  <1>22. z = o + Len(EncodedSession(e))
    BY <1>1, <1>2, <1>13 DEF start
  <1> HIDE DEF q, z
  <1>23. Advanced(r, z, q) = ReaderAt(z, Append(l, e))
    <2>1. Advanced(ReaderAt(o, l), z, e) = ReaderAt(z, Append(l, e))
      BY Advance
    <2> QED BY <1>21, <2>1
  <1> QED BY <1>19, <1>20, <1>22, <1>23, Zenon

\* Reading count records of each kind one after the other.
MembersStep(s, r) == IF r.ok THEN ReadMember(s, r) ELSE r
MembersPath(s, n, r, g) ==
    /\ g = [i \in 0 .. n |-> g[i]] /\ g[0] = r
    /\ \A i \in 1 .. n : g[i] = MembersStep(s, g[i - 1])
MembersRead(s, count, r) ==
    Fold(LAMBDA q, i : IF q.ok THEN ReadMember(s, q) ELSE q, r, [i \in 1 .. count |-> i])
StatesStep(s, r) == IF r.ok THEN ReadGameState(s, r) ELSE r
StatesPath(s, n, r, g) ==
    /\ g = [i \in 0 .. n |-> g[i]] /\ g[0] = r
    /\ \A i \in 1 .. n : g[i] = StatesStep(s, g[i - 1])
StatesRead(s, count, r) ==
    Fold(LAMBDA q, i : IF q.ok THEN ReadGameState(s, q) ELSE q, r, [i \in 1 .. count |-> i])
RoomsStep(s, r) == IF r.ok THEN ReadRoom(s, r) ELSE r
RoomsPath(s, n, r, g) ==
    /\ g = [i \in 0 .. n |-> g[i]] /\ g[0] = r
    /\ \A i \in 1 .. n : g[i] = RoomsStep(s, g[i - 1])
RoomsRead(s, count, r) ==
    Fold(LAMBDA q, i : IF q.ok THEN ReadRoom(s, q) ELSE q, r, [i \in 1 .. count |-> i])
SessionsStep(s, r) == IF r.ok THEN ReadSession(s, r) ELSE r
SessionsPath(s, n, r, g) ==
    /\ g = [i \in 0 .. n |-> g[i]] /\ g[0] = r
    /\ \A i \in 1 .. n : g[i] = SessionsStep(s, g[i - 1])
SessionsRead(s, count, r) ==
    Fold(LAMBDA q, i : IF q.ok THEN ReadSession(s, q) ELSE q, r, [i \in 1 .. count |-> i])

\* How a room is read.
LEMMA RoomReader ==
    \A s, o : ReadRoom(s, o) =
      LET field == Fixed(s, o.position, <<W32, W64, W64, 1, W64, W32>>)
          start == Reader(o.position + MinRoomSize - W32)
          members == MembersRead(s, field[6], start)
      IN  IF \/ Remaining(s, o) < MinRoomSize
             \/ field[4] + 1 \notin DOMAIN States
             \/ field[6] > (Remaining(s, start) - W32) \div MinMemberSize
          THEN Failed(o)
          ELSE AddRoom(o, field, members, ReadGameStates(s, members))
  BY Zenon DEF ReadRoom, Repeat, MembersRead

\* How the states of a room are read.
LEMMA StatesReader ==
    \A s, m : ReadGameStates(s, m) =
      LET count == Field(s, m.position, W32)
          start == Reader(m.position + W32)
      IN  IF ~m.ok \/ Remaining(s, m) < W32 \/ count > Remaining(s, start) \div GameStateSize
          THEN Failed(start)
          ELSE StatesRead(s, count, start)
  BY Zenon DEF ReadGameStates, Repeat, StatesRead

\* How the sessions are read.
LEMMA SessionsReader ==
    \A s, h, o : DecodeSessions(s, h, o) =
      LET sessions == SessionsRead(s, h[4], Reader(o.position))
      IN  IF ~o.ok \/ h[4] > Remaining(s, o) \div MinSessionSize
          THEN [state |-> "malformed_data"]
          ELSE Finish(s, [generation |-> h[2], rooms |-> o.records,
                          sessions |-> sessions.records], sessions)
  BY Zenon DEF DecodeSessions, Repeat, SessionsRead

\* How the rooms are read.
LEMMA RoomsReader ==
    \A s, h : DecodeRooms(s, h) =
      LET start == Reader(HeaderSize)
      IN  IF h[3] > Remaining(s, start) \div MinRoomSize
          THEN [state |-> "malformed_data"]
          ELSE DecodeSessions(s, h, RoomsRead(s, h[3], start))
  BY Zenon DEF DecodeRooms, Repeat, RoomsRead

\* Reading count members gives the last of the readers on the way.
LEMMA MembersRepeat ==
    ASSUME NEW s, NEW n \in Nat, NEW r, NEW g, MembersPath(s, n, r, g)
    PROVE  MembersRead(s, n, r) = g[n]
  <1> DEFINE e == [i \in 1 .. n |-> i]
             Op(q) == IF q.ok THEN ReadMember(s, q) ELSE q
             F(f) == [i \in 0 .. Len(e) |-> IF i = 0 THEN r ELSE Op(f[i - 1])]
             c == CHOOSE f : f = F(f)
  <1>1. Len(e) = n
    OBVIOUS
  <1>2. MembersRead(s, n, r) = c[Len(e)]
    BY Zenon DEF MembersRead, Fold
  <1>3. MembersRead(s, n, r) = c[n]
    BY <1>1, <1>2, Zenon
  <1>4. \A f : F(f) = [i \in 0 .. n |-> IF i = 0 THEN r ELSE Op(f[i - 1])]
    BY <1>1, Zenon
  <1> HIDE DEF e
  <1>5. g[0] = r /\ \A i \in 1 .. n : g[i] = Op(g[i - 1])
    BY Zenon DEF MembersPath, MembersStep
  <1>6. g = F(g)
    <2>1. ASSUME NEW i \in 0 .. n PROVE g[i] = IF i = 0 THEN r ELSE Op(g[i - 1])
      <3>1. i = 0 \/ i \in 1 .. n
        OBVIOUS
      <3> HIDE DEF Op
      <3> QED BY <1>5, <3>1, Zenon
    <2>2. g = [i \in 0 .. n |-> IF i = 0 THEN r ELSE Op(g[i - 1])]
      <3> HIDE DEF Op
      <3>1. g = [i \in 0 .. n |-> g[i]]
        BY DEF MembersPath
      <3> QED BY <2>1, <3>1, Zenon
    <2> HIDE DEF F, Op
    <2> QED BY <1>4, <2>2, Zenon
  <1>7. c = F(c)
    <2> HIDE DEF F, Op
    <2> QED BY <1>6
  <1>8. c = [i \in 0 .. n |-> IF i = 0 THEN r ELSE Op(c[i - 1])]
    <2> HIDE DEF F, c, Op
    <2> QED BY <1>4, <1>7
  <1> HIDE DEF c, Op
  <1>9. c[0] = r /\ \A i \in 1 .. n : c[i] = Op(c[i - 1])
    <2>1. 0 \in 0 .. n /\ \A i \in 1 .. n : i \in 0 .. n /\ i # 0
      OBVIOUS
    <2> QED BY <1>8, <2>1
  <1> DEFINE T == {k \in 0 .. n : c[k] = g[k]}
  <1>10. \A k \in 0 .. n : k \in T
    <2>1. 0 \in T
      BY <1>5, <1>9
    <2>2. ASSUME NEW k \in 0 .. n - 1, k \in T PROVE k + 1 \in T
      <3>1. k + 1 \in 1 .. n /\ k + 1 \in 0 .. n /\ (k + 1) - 1 = k /\ c[k] = g[k]
        BY <2>2
      <3>2. c[k + 1] = Op(c[k]) /\ g[k + 1] = Op(g[k])
        BY <1>5, <1>9, <3>1
      <3> QED BY <3>1, <3>2
    <2> HIDE DEF T
    <2> QED BY <2>1, <2>2, UpTo
  <1>11. c[n] = g[n]
    BY <1>10
  <1> QED BY <1>3, <1>11

\* Reading count states gives the last of the readers on the way.
LEMMA StatesRepeat ==
    ASSUME NEW s, NEW n \in Nat, NEW r, NEW g, StatesPath(s, n, r, g)
    PROVE  StatesRead(s, n, r) = g[n]
  <1> DEFINE e == [i \in 1 .. n |-> i]
             Op(q) == IF q.ok THEN ReadGameState(s, q) ELSE q
             F(f) == [i \in 0 .. Len(e) |-> IF i = 0 THEN r ELSE Op(f[i - 1])]
             c == CHOOSE f : f = F(f)
  <1>1. Len(e) = n
    OBVIOUS
  <1>2. StatesRead(s, n, r) = c[Len(e)]
    BY Zenon DEF StatesRead, Fold
  <1>3. StatesRead(s, n, r) = c[n]
    BY <1>1, <1>2, Zenon
  <1>4. \A f : F(f) = [i \in 0 .. n |-> IF i = 0 THEN r ELSE Op(f[i - 1])]
    BY <1>1, Zenon
  <1> HIDE DEF e
  <1>5. g[0] = r /\ \A i \in 1 .. n : g[i] = Op(g[i - 1])
    BY Zenon DEF StatesPath, StatesStep
  <1>6. g = F(g)
    <2>1. ASSUME NEW i \in 0 .. n PROVE g[i] = IF i = 0 THEN r ELSE Op(g[i - 1])
      <3>1. i = 0 \/ i \in 1 .. n
        OBVIOUS
      <3> HIDE DEF Op
      <3> QED BY <1>5, <3>1, Zenon
    <2>2. g = [i \in 0 .. n |-> IF i = 0 THEN r ELSE Op(g[i - 1])]
      <3> HIDE DEF Op
      <3>1. g = [i \in 0 .. n |-> g[i]]
        BY DEF StatesPath
      <3> QED BY <2>1, <3>1, Zenon
    <2> HIDE DEF F, Op
    <2> QED BY <1>4, <2>2, Zenon
  <1>7. c = F(c)
    <2> HIDE DEF F, Op
    <2> QED BY <1>6
  <1>8. c = [i \in 0 .. n |-> IF i = 0 THEN r ELSE Op(c[i - 1])]
    <2> HIDE DEF F, c, Op
    <2> QED BY <1>4, <1>7
  <1> HIDE DEF c, Op
  <1>9. c[0] = r /\ \A i \in 1 .. n : c[i] = Op(c[i - 1])
    <2>1. 0 \in 0 .. n /\ \A i \in 1 .. n : i \in 0 .. n /\ i # 0
      OBVIOUS
    <2> QED BY <1>8, <2>1
  <1> DEFINE T == {k \in 0 .. n : c[k] = g[k]}
  <1>10. \A k \in 0 .. n : k \in T
    <2>1. 0 \in T
      BY <1>5, <1>9
    <2>2. ASSUME NEW k \in 0 .. n - 1, k \in T PROVE k + 1 \in T
      <3>1. k + 1 \in 1 .. n /\ k + 1 \in 0 .. n /\ (k + 1) - 1 = k /\ c[k] = g[k]
        BY <2>2
      <3>2. c[k + 1] = Op(c[k]) /\ g[k + 1] = Op(g[k])
        BY <1>5, <1>9, <3>1
      <3> QED BY <3>1, <3>2
    <2> HIDE DEF T
    <2> QED BY <2>1, <2>2, UpTo
  <1>11. c[n] = g[n]
    BY <1>10
  <1> QED BY <1>3, <1>11

\* Reading count rooms gives the last of the readers on the way.
LEMMA RoomsRepeat ==
    ASSUME NEW s, NEW n \in Nat, NEW r, NEW g, RoomsPath(s, n, r, g)
    PROVE  RoomsRead(s, n, r) = g[n]
  <1> DEFINE e == [i \in 1 .. n |-> i]
             Op(q) == IF q.ok THEN ReadRoom(s, q) ELSE q
             F(f) == [i \in 0 .. Len(e) |-> IF i = 0 THEN r ELSE Op(f[i - 1])]
             c == CHOOSE f : f = F(f)
  <1>1. Len(e) = n
    OBVIOUS
  <1>2. RoomsRead(s, n, r) = c[Len(e)]
    BY Zenon DEF RoomsRead, Fold
  <1>3. RoomsRead(s, n, r) = c[n]
    BY <1>1, <1>2, Zenon
  <1>4. \A f : F(f) = [i \in 0 .. n |-> IF i = 0 THEN r ELSE Op(f[i - 1])]
    BY <1>1, Zenon
  <1> HIDE DEF e
  <1>5. g[0] = r /\ \A i \in 1 .. n : g[i] = Op(g[i - 1])
    BY Zenon DEF RoomsPath, RoomsStep
  <1>6. g = F(g)
    <2>1. ASSUME NEW i \in 0 .. n PROVE g[i] = IF i = 0 THEN r ELSE Op(g[i - 1])
      <3>1. i = 0 \/ i \in 1 .. n
        OBVIOUS
      <3> HIDE DEF Op
      <3> QED BY <1>5, <3>1, Zenon
    <2>2. g = [i \in 0 .. n |-> IF i = 0 THEN r ELSE Op(g[i - 1])]
      <3> HIDE DEF Op
      <3>1. g = [i \in 0 .. n |-> g[i]]
        BY DEF RoomsPath
      <3> QED BY <2>1, <3>1, Zenon
    <2> HIDE DEF F, Op
    <2> QED BY <1>4, <2>2, Zenon
  <1>7. c = F(c)
    <2> HIDE DEF F, Op
    <2> QED BY <1>6
  <1>8. c = [i \in 0 .. n |-> IF i = 0 THEN r ELSE Op(c[i - 1])]
    <2> HIDE DEF F, c, Op
    <2> QED BY <1>4, <1>7
  <1> HIDE DEF c, Op
  <1>9. c[0] = r /\ \A i \in 1 .. n : c[i] = Op(c[i - 1])
    <2>1. 0 \in 0 .. n /\ \A i \in 1 .. n : i \in 0 .. n /\ i # 0
      OBVIOUS
    <2> QED BY <1>8, <2>1
  <1> DEFINE T == {k \in 0 .. n : c[k] = g[k]}
  <1>10. \A k \in 0 .. n : k \in T
    <2>1. 0 \in T
      BY <1>5, <1>9
    <2>2. ASSUME NEW k \in 0 .. n - 1, k \in T PROVE k + 1 \in T
      <3>1. k + 1 \in 1 .. n /\ k + 1 \in 0 .. n /\ (k + 1) - 1 = k /\ c[k] = g[k]
        BY <2>2
      <3>2. c[k + 1] = Op(c[k]) /\ g[k + 1] = Op(g[k])
        BY <1>5, <1>9, <3>1
      <3> QED BY <3>1, <3>2
    <2> HIDE DEF T
    <2> QED BY <2>1, <2>2, UpTo
  <1>11. c[n] = g[n]
    BY <1>10
  <1> QED BY <1>3, <1>11

\* Reading count sessions gives the last of the readers on the way.
LEMMA SessionsRepeat ==
    ASSUME NEW s, NEW n \in Nat, NEW r, NEW g, SessionsPath(s, n, r, g)
    PROVE  SessionsRead(s, n, r) = g[n]
  <1> DEFINE e == [i \in 1 .. n |-> i]
             Op(q) == IF q.ok THEN ReadSession(s, q) ELSE q
             F(f) == [i \in 0 .. Len(e) |-> IF i = 0 THEN r ELSE Op(f[i - 1])]
             c == CHOOSE f : f = F(f)
  <1>1. Len(e) = n
    OBVIOUS
  <1>2. SessionsRead(s, n, r) = c[Len(e)]
    BY Zenon DEF SessionsRead, Fold
  <1>3. SessionsRead(s, n, r) = c[n]
    BY <1>1, <1>2, Zenon
  <1>4. \A f : F(f) = [i \in 0 .. n |-> IF i = 0 THEN r ELSE Op(f[i - 1])]
    BY <1>1, Zenon
  <1> HIDE DEF e
  <1>5. g[0] = r /\ \A i \in 1 .. n : g[i] = Op(g[i - 1])
    BY Zenon DEF SessionsPath, SessionsStep
  <1>6. g = F(g)
    <2>1. ASSUME NEW i \in 0 .. n PROVE g[i] = IF i = 0 THEN r ELSE Op(g[i - 1])
      <3>1. i = 0 \/ i \in 1 .. n
        OBVIOUS
      <3> HIDE DEF Op
      <3> QED BY <1>5, <3>1, Zenon
    <2>2. g = [i \in 0 .. n |-> IF i = 0 THEN r ELSE Op(g[i - 1])]
      <3> HIDE DEF Op
      <3>1. g = [i \in 0 .. n |-> g[i]]
        BY DEF SessionsPath
      <3> QED BY <2>1, <3>1, Zenon
    <2> HIDE DEF F, Op
    <2> QED BY <1>4, <2>2, Zenon
  <1>7. c = F(c)
    <2> HIDE DEF F, Op
    <2> QED BY <1>6
  <1>8. c = [i \in 0 .. n |-> IF i = 0 THEN r ELSE Op(c[i - 1])]
    <2> HIDE DEF F, c, Op
    <2> QED BY <1>4, <1>7
  <1> HIDE DEF c, Op
  <1>9. c[0] = r /\ \A i \in 1 .. n : c[i] = Op(c[i - 1])
    <2>1. 0 \in 0 .. n /\ \A i \in 1 .. n : i \in 0 .. n /\ i # 0
      OBVIOUS
    <2> QED BY <1>8, <2>1
  <1> DEFINE T == {k \in 0 .. n : c[k] = g[k]}
  <1>10. \A k \in 0 .. n : k \in T
    <2>1. 0 \in T
      BY <1>5, <1>9
    <2>2. ASSUME NEW k \in 0 .. n - 1, k \in T PROVE k + 1 \in T
      <3>1. k + 1 \in 1 .. n /\ k + 1 \in 0 .. n /\ (k + 1) - 1 = k /\ c[k] = g[k]
        BY <2>2
      <3>2. c[k + 1] = Op(c[k]) /\ g[k + 1] = Op(g[k])
        BY <1>5, <1>9, <3>1
      <3> QED BY <3>1, <3>2
    <2> HIDE DEF T
    <2> QED BY <2>1, <2>2, UpTo
  <1>11. c[n] = g[n]
    BY <1>10
  <1> QED BY <1>3, <1>11

\* A reader that has read nothing, and one that has read the records l.
LEMMA ReaderFacts ==
    /\ \A o : Reader(o) = ReaderAt(o, <<>>)
    /\ \A o, l : ReaderAt(o, l).ok = TRUE /\ ReaderAt(o, l).position = o
                /\ ReaderAt(o, l).records = l
    /\ \A o, l : ~Failed(ReaderAt(o, l)).ok
  <1>1. \A o : Reader(o) = ReaderAt(o, <<>>)
    BY Zenon DEF Reader, ReaderAt
  <1>2. \A o, l : ReaderAt(o, l).ok = TRUE /\ ReaderAt(o, l).position = o
                 /\ ReaderAt(o, l).records = l
    BY DEF ReaderAt
  <1>3. ASSUME NEW o, NEW l PROVE ~Failed(ReaderAt(o, l)).ok
    BY DEF Failed, ReaderAt
  <1> QED BY <1>1, <1>2, <1>3

\* One record more in a prefix of a list.
LEMMA PrefixMore ==
    ASSUME NEW V, NEW l \in Seq(V)
    PROVE  /\ SubSeq(l, 1, 0) = <<>> /\ SubSeq(l, 1, Len(l)) = l
           /\ \A i \in 1 .. Len(l) : Append(SubSeq(l, 1, i - 1), l[i]) = SubSeq(l, 1, i)
  OBVIOUS

\* The first members of a list are read when each of them is.
LEMMA MembersPrefix ==
    ASSUME NEW s, NEW V, NEW l \in Seq(V), NEW p, NEW m \in 0 .. Len(l),
           \A i \in 1 .. Len(l) : \A q :
             ReadMember(s, ReaderAt(p[i - 1], q)) = ReaderAt(p[i], Append(q, l[i]))
    PROVE  MembersRead(s, m, Reader(p[0])) = ReaderAt(p[m], SubSeq(l, 1, m))
  <1> DEFINE g == [i \in 0 .. m |-> ReaderAt(p[i], SubSeq(l, 1, i))]
             r == Reader(p[0])
  <1>1. m \in Nat /\ 0 \in 0 .. m /\ m \in 0 .. m
    OBVIOUS
  <1>2. \A i \in 0 .. m : g[i] = ReaderAt(p[i], SubSeq(l, 1, i))
    BY Zenon
  <1>3. g = [i \in 0 .. m |-> g[i]]
    BY Zenon
  <1> HIDE DEF g
  <1>4. g[0] = r
    BY <1>1, <1>2, PrefixMore, ReaderFacts, Zenon
  <1>5. ASSUME NEW i \in 1 .. m
        PROVE  g[i] = MembersStep(s, g[i - 1])
    <2>1. i \in 1 .. Len(l) /\ i \in 0 .. m /\ i - 1 \in 0 .. m
      OBVIOUS
    <2> DEFINE q == SubSeq(l, 1, i - 1)
    <2>2. g[i - 1] = ReaderAt(p[i - 1], q) /\ g[i] = ReaderAt(p[i], SubSeq(l, 1, i))
      BY <1>2, <2>1, Zenon
    <2>3. Append(q, l[i]) = SubSeq(l, 1, i)
      BY <2>1, PrefixMore
    <2> HIDE DEF q
    <2>4. ReadMember(s, ReaderAt(p[i - 1], q)) = ReaderAt(p[i], Append(q, l[i]))
      BY <2>1
    <2>7. ReaderAt(p[i - 1], q).ok
      BY ReaderFacts, Zenon
    <2>5. g[i - 1].ok
      BY <2>2, <2>7
    <2>6. g[i] = ReadMember(s, g[i - 1])
      BY <2>2, <2>3, <2>4, Zenon
    <2> QED BY <2>5, <2>6, Zenon DEF MembersStep
  <1>6. MembersRead(s, m, r) = g[m]
    <2>1. MembersPath(s, m, r, g)
      BY <1>3, <1>4, <1>5, Zenon DEF MembersPath
    <2> QED BY <1>1, <2>1, MembersRepeat, Zenon
  <1> QED BY <1>1, <1>2, <1>6, Zenon

\* The first states of a list are read when each of them is.
LEMMA StatesPrefix ==
    ASSUME NEW s, NEW V, NEW l \in Seq(V), NEW p, NEW m \in 0 .. Len(l),
           \A i \in 1 .. Len(l) : \A q :
             ReadGameState(s, ReaderAt(p[i - 1], q)) = ReaderAt(p[i], Append(q, l[i]))
    PROVE  StatesRead(s, m, Reader(p[0])) = ReaderAt(p[m], SubSeq(l, 1, m))
  <1> DEFINE g == [i \in 0 .. m |-> ReaderAt(p[i], SubSeq(l, 1, i))]
             r == Reader(p[0])
  <1>1. m \in Nat /\ 0 \in 0 .. m /\ m \in 0 .. m
    OBVIOUS
  <1>2. \A i \in 0 .. m : g[i] = ReaderAt(p[i], SubSeq(l, 1, i))
    BY Zenon
  <1>3. g = [i \in 0 .. m |-> g[i]]
    BY Zenon
  <1> HIDE DEF g
  <1>4. g[0] = r
    BY <1>1, <1>2, PrefixMore, ReaderFacts, Zenon
  <1>5. ASSUME NEW i \in 1 .. m
        PROVE  g[i] = StatesStep(s, g[i - 1])
    <2>1. i \in 1 .. Len(l) /\ i \in 0 .. m /\ i - 1 \in 0 .. m
      OBVIOUS
    <2> DEFINE q == SubSeq(l, 1, i - 1)
    <2>2. g[i - 1] = ReaderAt(p[i - 1], q) /\ g[i] = ReaderAt(p[i], SubSeq(l, 1, i))
      BY <1>2, <2>1, Zenon
    <2>3. Append(q, l[i]) = SubSeq(l, 1, i)
      BY <2>1, PrefixMore
    <2> HIDE DEF q
    <2>4. ReadGameState(s, ReaderAt(p[i - 1], q)) = ReaderAt(p[i], Append(q, l[i]))
      BY <2>1
    <2>7. ReaderAt(p[i - 1], q).ok
      BY ReaderFacts, Zenon
    <2>5. g[i - 1].ok
      BY <2>2, <2>7
    <2>6. g[i] = ReadGameState(s, g[i - 1])
      BY <2>2, <2>3, <2>4, Zenon
    <2> QED BY <2>5, <2>6, Zenon DEF StatesStep
  <1>6. StatesRead(s, m, r) = g[m]
    <2>1. StatesPath(s, m, r, g)
      BY <1>3, <1>4, <1>5, Zenon DEF StatesPath
    <2> QED BY <1>1, <2>1, StatesRepeat, Zenon
  <1> QED BY <1>1, <1>2, <1>6, Zenon

\* Every room of l is read between two positions of p.
RoomsAlong(s, l, p) ==
    \A i \in 1 .. Len(l) : \A q :
      ReadRoom(s, ReaderAt(p[i - 1], q)) = ReaderAt(p[i], Append(q, l[i]))

\* The first rooms of a list are read when each of them is.
LEMMA RoomsPrefix ==
    ASSUME NEW s, NEW V, NEW l \in Seq(V), NEW p, NEW m \in 0 .. Len(l),
           RoomsAlong(s, l, p)
    PROVE  RoomsRead(s, m, Reader(p[0])) = ReaderAt(p[m], SubSeq(l, 1, m))
  <1> DEFINE g == [i \in 0 .. m |-> ReaderAt(p[i], SubSeq(l, 1, i))]
             r == Reader(p[0])
  <1>1. m \in Nat /\ 0 \in 0 .. m /\ m \in 0 .. m
    OBVIOUS
  <1>2. \A i \in 0 .. m : g[i] = ReaderAt(p[i], SubSeq(l, 1, i))
    BY Zenon
  <1>3. g = [i \in 0 .. m |-> g[i]]
    BY Zenon
  <1> HIDE DEF g
  <1>4. g[0] = r
    BY <1>1, <1>2, PrefixMore, ReaderFacts, Zenon
  <1>5. ASSUME NEW i \in 1 .. m
        PROVE  g[i] = RoomsStep(s, g[i - 1])
    <2>1. i \in 1 .. Len(l) /\ i \in 0 .. m /\ i - 1 \in 0 .. m
      OBVIOUS
    <2> DEFINE q == SubSeq(l, 1, i - 1)
    <2>2. g[i - 1] = ReaderAt(p[i - 1], q) /\ g[i] = ReaderAt(p[i], SubSeq(l, 1, i))
      BY <1>2, <2>1, Zenon
    <2>3. Append(q, l[i]) = SubSeq(l, 1, i)
      BY <2>1, PrefixMore
    <2> HIDE DEF q
    <2>4. ReadRoom(s, ReaderAt(p[i - 1], q)) = ReaderAt(p[i], Append(q, l[i]))
      BY <2>1 DEF RoomsAlong
    <2>7. ReaderAt(p[i - 1], q).ok
      BY ReaderFacts, Zenon
    <2>5. g[i - 1].ok
      BY <2>2, <2>7
    <2>6. g[i] = ReadRoom(s, g[i - 1])
      BY <2>2, <2>3, <2>4, Zenon
    <2> QED BY <2>5, <2>6, Zenon DEF RoomsStep
  <1>6. RoomsRead(s, m, r) = g[m]
    <2>1. RoomsPath(s, m, r, g)
      BY <1>3, <1>4, <1>5, Zenon DEF RoomsPath
    <2> QED BY <1>1, <2>1, RoomsRepeat, Zenon
  <1> QED BY <1>1, <1>2, <1>6, Zenon

\* Every session of l is read between two positions of p.
SessionsAlong(s, l, p) ==
    \A i \in 1 .. Len(l) : \A q :
      ReadSession(s, ReaderAt(p[i - 1], q)) = ReaderAt(p[i], Append(q, l[i]))

\* The first sessions of a list are read when each of them is.
LEMMA SessionsPrefix ==
    ASSUME NEW s, NEW V, NEW l \in Seq(V), NEW p, NEW m \in 0 .. Len(l),
           SessionsAlong(s, l, p)
    PROVE  SessionsRead(s, m, Reader(p[0])) = ReaderAt(p[m], SubSeq(l, 1, m))
  <1> DEFINE g == [i \in 0 .. m |-> ReaderAt(p[i], SubSeq(l, 1, i))]
             r == Reader(p[0])
  <1>1. m \in Nat /\ 0 \in 0 .. m /\ m \in 0 .. m
    OBVIOUS
  <1>2. \A i \in 0 .. m : g[i] = ReaderAt(p[i], SubSeq(l, 1, i))
    BY Zenon
  <1>3. g = [i \in 0 .. m |-> g[i]]
    BY Zenon
  <1> HIDE DEF g
  <1>4. g[0] = r
    BY <1>1, <1>2, PrefixMore, ReaderFacts, Zenon
  <1>5. ASSUME NEW i \in 1 .. m
        PROVE  g[i] = SessionsStep(s, g[i - 1])
    <2>1. i \in 1 .. Len(l) /\ i \in 0 .. m /\ i - 1 \in 0 .. m
      OBVIOUS
    <2> DEFINE q == SubSeq(l, 1, i - 1)
    <2>2. g[i - 1] = ReaderAt(p[i - 1], q) /\ g[i] = ReaderAt(p[i], SubSeq(l, 1, i))
      BY <1>2, <2>1, Zenon
    <2>3. Append(q, l[i]) = SubSeq(l, 1, i)
      BY <2>1, PrefixMore
    <2> HIDE DEF q
    <2>4. ReadSession(s, ReaderAt(p[i - 1], q)) = ReaderAt(p[i], Append(q, l[i]))
      BY <2>1 DEF SessionsAlong
    <2>7. ReaderAt(p[i - 1], q).ok
      BY ReaderFacts, Zenon
    <2>5. g[i - 1].ok
      BY <2>2, <2>7
    <2>6. g[i] = ReadSession(s, g[i - 1])
      BY <2>2, <2>3, <2>4, Zenon
    <2> QED BY <2>5, <2>6, Zenon DEF SessionsStep
  <1>6. SessionsRead(s, m, r) = g[m]
    <2>1. SessionsPath(s, m, r, g)
      BY <1>3, <1>4, <1>5, Zenon DEF SessionsPath
    <2> QED BY <1>1, <2>1, SessionsRepeat, Zenon
  <1> QED BY <1>1, <1>2, <1>6, Zenon

\* Of too many rooms nothing is read when one fails after the last.
LEMMA RoomsBeyond ==
    ASSUME NEW s, NEW V, NEW l \in Seq(V), NEW p, NEW m \in Nat, m > Len(l),
           RoomsAlong(s, l, p),
           ReadRoom(s, ReaderAt(p[Len(l)], l)) = Failed(ReaderAt(p[Len(l)], l))
    PROVE  ~RoomsRead(s, m, Reader(p[0])).ok
  <1> DEFINE n == Len(l)
             end == ReaderAt(p[n], l)
             g == [i \in 0 .. m |-> IF i <= n THEN ReaderAt(p[i], SubSeq(l, 1, i)) ELSE Failed(end)]
             r == Reader(p[0])
  <1>1. n \in Nat /\ 0 \in 0 .. m /\ m \in 0 .. m /\ 0 <= n /\ ~(m <= n)
    OBVIOUS
  <1>2. \A i \in 0 .. m :
          g[i] = IF i <= n THEN ReaderAt(p[i], SubSeq(l, 1, i)) ELSE Failed(end)
    BY Zenon
  <1>3. g = [i \in 0 .. m |-> g[i]]
    BY Zenon
  <1>10. ReadRoom(s, end) = Failed(end) /\ end.ok /\ ~Failed(end).ok
    BY ReaderFacts, Zenon
  <1>11. end = ReaderAt(p[n], SubSeq(l, 1, n))
    BY PrefixMore, Zenon
  <1> HIDE DEF g, end
  <1>4. g[0] = r
    BY <1>1, <1>2, PrefixMore, ReaderFacts, Zenon
  <1>5. ASSUME NEW i \in 1 .. m
        PROVE  g[i] = RoomsStep(s, g[i - 1])
    <2>1. i \in 0 .. m /\ i - 1 \in 0 .. m
      OBVIOUS
    <2>2. CASE i <= n
      <3>1. i \in 1 .. Len(l) /\ i - 1 <= n
        BY <1>1, <2>2 DEF n
      <3> DEFINE q == SubSeq(l, 1, i - 1)
      <3>2. g[i - 1] = ReaderAt(p[i - 1], q) /\ g[i] = ReaderAt(p[i], SubSeq(l, 1, i))
        BY <1>2, <2>1, <2>2, <3>1, Zenon
      <3>3. Append(q, l[i]) = SubSeq(l, 1, i)
        BY <3>1, PrefixMore
      <3> HIDE DEF q
      <3>4. ReadRoom(s, ReaderAt(p[i - 1], q)) = ReaderAt(p[i], Append(q, l[i]))
        BY <3>1 DEF RoomsAlong
      <3>7. ReaderAt(p[i - 1], q).ok
        BY ReaderFacts, Zenon
      <3>5. g[i - 1].ok
        BY <3>2, <3>7
      <3>6. g[i] = ReadRoom(s, g[i - 1])
        BY <3>2, <3>3, <3>4, Zenon
      <3> QED BY <3>5, <3>6, Zenon DEF RoomsStep
    <2>3. CASE i = n + 1
      <3>1. i - 1 = n /\ n <= n /\ ~(i <= n)
        BY <1>1, <2>3
      <3>2. g[i - 1] = end /\ g[i] = Failed(end)
        <4>1. g[n] = ReaderAt(p[n], SubSeq(l, 1, n))
          BY <1>2, <2>1, <3>1, Zenon
        <4> QED BY <1>2, <1>11, <2>1, <3>1, <4>1
      <3> QED BY <1>10, <3>2, Zenon DEF RoomsStep
    <2>4. CASE i > n + 1
      <3>1. ~(i - 1 <= n) /\ ~(i <= n)
        BY <1>1, <2>4
      <3>2. g[i - 1] = Failed(end) /\ g[i] = Failed(end)
        BY <1>2, <2>1, <3>1, Zenon
      <3> QED BY <1>10, <3>2, Zenon DEF RoomsStep
    <2> QED BY <1>1, <2>2, <2>3, <2>4
  <1>6. RoomsRead(s, m, r) = g[m]
    <2>1. RoomsPath(s, m, r, g)
      BY <1>3, <1>4, <1>5, Zenon DEF RoomsPath
    <2> QED BY <2>1, RoomsRepeat, Zenon
  <1>7. g[m] = Failed(end)
    BY <1>1, <1>2, Zenon
  <1> QED BY <1>6, <1>7, <1>10, Zenon

\* Of too many sessions nothing is read when one fails after the last.
LEMMA SessionsBeyond ==
    ASSUME NEW s, NEW V, NEW l \in Seq(V), NEW p, NEW m \in Nat, m > Len(l),
           SessionsAlong(s, l, p),
           ReadSession(s, ReaderAt(p[Len(l)], l)) = Failed(ReaderAt(p[Len(l)], l))
    PROVE  ~SessionsRead(s, m, Reader(p[0])).ok
  <1> DEFINE n == Len(l)
             end == ReaderAt(p[n], l)
             g == [i \in 0 .. m |-> IF i <= n THEN ReaderAt(p[i], SubSeq(l, 1, i)) ELSE Failed(end)]
             r == Reader(p[0])
  <1>1. n \in Nat /\ 0 \in 0 .. m /\ m \in 0 .. m /\ 0 <= n /\ ~(m <= n)
    OBVIOUS
  <1>2. \A i \in 0 .. m :
          g[i] = IF i <= n THEN ReaderAt(p[i], SubSeq(l, 1, i)) ELSE Failed(end)
    BY Zenon
  <1>3. g = [i \in 0 .. m |-> g[i]]
    BY Zenon
  <1>10. ReadSession(s, end) = Failed(end) /\ end.ok /\ ~Failed(end).ok
    BY ReaderFacts, Zenon
  <1>11. end = ReaderAt(p[n], SubSeq(l, 1, n))
    BY PrefixMore, Zenon
  <1> HIDE DEF g, end
  <1>4. g[0] = r
    BY <1>1, <1>2, PrefixMore, ReaderFacts, Zenon
  <1>5. ASSUME NEW i \in 1 .. m
        PROVE  g[i] = SessionsStep(s, g[i - 1])
    <2>1. i \in 0 .. m /\ i - 1 \in 0 .. m
      OBVIOUS
    <2>2. CASE i <= n
      <3>1. i \in 1 .. Len(l) /\ i - 1 <= n
        BY <1>1, <2>2 DEF n
      <3> DEFINE q == SubSeq(l, 1, i - 1)
      <3>2. g[i - 1] = ReaderAt(p[i - 1], q) /\ g[i] = ReaderAt(p[i], SubSeq(l, 1, i))
        BY <1>2, <2>1, <2>2, <3>1, Zenon
      <3>3. Append(q, l[i]) = SubSeq(l, 1, i)
        BY <3>1, PrefixMore
      <3> HIDE DEF q
      <3>4. ReadSession(s, ReaderAt(p[i - 1], q)) = ReaderAt(p[i], Append(q, l[i]))
        BY <3>1 DEF SessionsAlong
      <3>7. ReaderAt(p[i - 1], q).ok
        BY ReaderFacts, Zenon
      <3>5. g[i - 1].ok
        BY <3>2, <3>7
      <3>6. g[i] = ReadSession(s, g[i - 1])
        BY <3>2, <3>3, <3>4, Zenon
      <3> QED BY <3>5, <3>6, Zenon DEF SessionsStep
    <2>3. CASE i = n + 1
      <3>1. i - 1 = n /\ n <= n /\ ~(i <= n)
        BY <1>1, <2>3
      <3>2. g[i - 1] = end /\ g[i] = Failed(end)
        <4>1. g[n] = ReaderAt(p[n], SubSeq(l, 1, n))
          BY <1>2, <2>1, <3>1, Zenon
        <4> QED BY <1>2, <1>11, <2>1, <3>1, <4>1
      <3> QED BY <1>10, <3>2, Zenon DEF SessionsStep
    <2>4. CASE i > n + 1
      <3>1. ~(i - 1 <= n) /\ ~(i <= n)
        BY <1>1, <2>4
      <3>2. g[i - 1] = Failed(end) /\ g[i] = Failed(end)
        BY <1>2, <2>1, <3>1, Zenon
      <3> QED BY <1>10, <3>2, Zenon DEF SessionsStep
    <2> QED BY <1>1, <2>2, <2>3, <2>4
  <1>6. SessionsRead(s, m, r) = g[m]
    <2>1. SessionsPath(s, m, r, g)
      BY <1>3, <1>4, <1>5, Zenon DEF SessionsPath
    <2> QED BY <2>1, SessionsRepeat, Zenon
  <1>7. g[m] = Failed(end)
    BY <1>1, <1>2, Zenon
  <1> QED BY <1>6, <1>7, <1>10, Zenon

\* Where the parts of a string are.
LEMMA PartPositions ==
    ASSUME NEW s \in Seq(Byte), NEW o \in Nat, NEW parts \in Seq(Seq(Byte)),
           At(s, o, Concat(parts))
    PROVE  \E p \in [0 .. Len(parts) -> Nat] :
             /\ p[0] = o /\ p[Len(parts)] = o + Len(Concat(parts)) /\ p[Len(parts)] <= Len(s)
             /\ \A i \in 1 .. Len(parts) :
                  p[i] = p[i - 1] + Len(parts[i]) /\ At(s, p[i - 1], parts[i])
  <1> DEFINE n == Len(parts)
  <1>1. n \in Nat /\ parts \in [1 .. n -> Seq(Byte)]
    OBVIOUS
  <1>2. PICK f \in [0 .. n -> Seq(Byte)] :
             /\ f[0] = <<>> /\ \A i \in 1 .. n : f[i] = f[i - 1] \o parts[i]
             /\ Concat(parts) = f[n]
    BY ConcatTable
  <1>3. At(s, o, f[n])
    BY <1>2
  <1> HIDE DEF n
  <1>4. \A k \in 1 .. n : At(s, o, f[k - 1]) /\ At(s, o + Len(f[k - 1]), parts[k])
    BY <1>1, <1>2, <1>3, ConcatAt
  <1> DEFINE p == [i \in 0 .. n |-> o + Len(f[i])]
  <1>5. ASSUME NEW i \in 0 .. n PROVE f[i] \in Seq(Byte) /\ Len(f[i]) \in Nat /\ p[i] = o + Len(f[i])
    <2>1. f[i] \in Seq(Byte)
      OBVIOUS
    <2>2. Len(f[i]) \in Nat
      BY <2>1
    <2> QED BY <2>1, <2>2
  <1>6. p \in [0 .. n -> Nat]
    <2>1. \A i \in 0 .. n : p[i] \in Nat
      BY <1>5
    <2>2. p = [i \in 0 .. n |-> p[i]]
      OBVIOUS
    <2> HIDE DEF p
    <2> QED BY <2>1, <2>2
  <1> HIDE DEF p
  <1>7. p[0] = o /\ p[n] = o + Len(Concat(parts))
    <2>1. 0 \in 0 .. n /\ n \in 0 .. n
      BY <1>1
    <2>2. Len(f[0]) = 0
      BY <1>2
    <2>3. p[0] = o + Len(f[0]) /\ p[n] = o + Len(f[n])
      BY <1>5, <2>1
    <2> QED BY <1>2, <2>2, <2>3
  <1>8. p[n] <= Len(s)
    <2> DEFINE a == f[n]
    <2>1. o + Len(a) <= Len(s)
      BY <1>3 DEF At
    <2>2. n \in 0 .. n
      BY <1>1
    <2> QED BY <1>5, <2>1, <2>2
  <1>9. ASSUME NEW i \in 1 .. n
        PROVE  p[i] = p[i - 1] + Len(parts[i]) /\ At(s, p[i - 1], parts[i])
    <2> DEFINE a == f[i - 1]
               b == parts[i]
    <2>1. i \in 0 .. n /\ i - 1 \in 0 .. n
      BY <1>1
    <2>2. a \in Seq(Byte) /\ b \in Seq(Byte) /\ f[i] = a \o b
      <3>1. b \in Seq(Byte)
        BY <1>1
      <3> QED BY <1>2, <1>5, <2>1, <3>1
    <2>3. p[i] = o + Len(f[i]) /\ p[i - 1] = o + Len(a)
      BY <1>5, <2>1
    <2>4. At(s, o + Len(a), b)
      BY <1>4
    <2> HIDE DEF a, b
    <2>5. Len(a \o b) = Len(a) + Len(b) /\ Len(a) \in Nat /\ Len(b) \in Nat
      BY <2>2, CatFacts
    <2>6. p[i] = p[i - 1] + Len(b)
      BY <2>2, <2>3, <2>5
    <2> QED BY <2>3, <2>4, <2>6 DEF b
  <1> QED BY <1>6, <1>7, <1>8, <1>9 DEF n

\* Positions that grow by k at least, or by k.
LEMMA PositionsGrow ==
    ASSUME NEW n \in Nat, NEW p \in [0 .. n -> Nat], NEW k \in Nat, NEW j \in 0 .. n,
           \A i \in 1 .. n : p[i] >= p[i - 1] + k
    PROVE  p[n] >= p[j] + (n - j) * k
  <1> DEFINE m == n - j
             T == {t \in 0 .. m : p[j + t] >= p[j] + t * k}
  <1>1. m \in Nat /\ j + m = n /\ m \in 0 .. m
    OBVIOUS
  <1>2. 0 \in T
    <2>1. 0 \in 0 .. m /\ j + 0 = j /\ 0 * k = 0 /\ p[j] \in Nat
      BY <1>1
    <2> HIDE DEF m
    <2> QED BY <2>1
  <1>3. ASSUME NEW t \in 0 .. m - 1, t \in T PROVE t + 1 \in T
    <2> DEFINE i == j + t + 1
               e == t * k
               f == (t + 1) * k
    <2>1. i \in 1 .. n /\ i - 1 = j + t /\ j + (t + 1) = i /\ t + 1 \in 0 .. m
          /\ j + t \in 0 .. n /\ i \in 0 .. n
      BY <1>1
    <2>2. p[i] >= p[j + t] + k
      BY <2>1
    <2>3. p[j + t] >= p[j] + t * k
      BY <1>3
    <2>4. f = e + k /\ e \in Int /\ f \in Int
      BY <1>1
    <2>5. p[i] \in Nat /\ p[j + t] \in Nat /\ p[j] \in Nat
      BY <2>1
    <2>6. p[i] >= p[j] + f
      <3> DEFINE x == p[i]
                 y == p[j + t]
                 z == p[j]
      <3>1. x >= y + k /\ y >= z + e /\ x \in Nat /\ y \in Nat /\ z \in Nat
        BY <2>2, <2>3, <2>5
      <3> HIDE DEF x, y, z, e, f
      <3>2. x >= z + f
        BY <2>4, <3>1
      <3> QED BY <3>2 DEF x, z
    <2> HIDE DEF i
    <2> QED BY <2>1, <2>6
  <1>4. \A t \in 0 .. m : t \in T
    <2> HIDE DEF T, m
    <2> QED BY <1>1, <1>2, <1>3, UpTo
  <1>5. p[j + m] >= p[j] + m * k
    BY <1>1, <1>4
  <1> QED BY <1>1, <1>5

\* Positions that grow by k.
LEMMA PositionsEven ==
    ASSUME NEW n \in Nat, NEW p \in [0 .. n -> Nat], NEW k \in Nat,
           \A i \in 1 .. n : p[i] = p[i - 1] + k
    PROVE  p[n] = p[0] + n * k
  <1> DEFINE T == {t \in 0 .. n : p[t] = p[0] + t * k}
  <1>1. 0 \in T
    <2>1. 0 \in 0 .. n /\ 0 * k = 0 /\ p[0] \in Nat
      OBVIOUS
    <2> QED BY <2>1
  <1>2. ASSUME NEW t \in 0 .. n - 1, t \in T PROVE t + 1 \in T
    <2> DEFINE e == t * k
               f == (t + 1) * k
               x == p[t + 1]
               y == p[t]
               z == p[0]
    <2>1. t + 1 \in 1 .. n /\ (t + 1) - 1 = t /\ t \in 0 .. n /\ t + 1 \in 0 .. n /\ 0 \in 0 .. n
      OBVIOUS
    <2>2. x = y + k /\ y = z + e /\ z \in Nat
      BY <1>2, <2>1
    <2>3. f = e + k /\ e \in Int /\ f \in Int
      OBVIOUS
    <2>4. x = z + f
      <3> HIDE DEF e, f, x, y, z
      <3> QED BY <2>2, <2>3
    <2> QED BY <2>1, <2>4
  <1>3. \A t \in 0 .. n : t \in T
    <2> HIDE DEF T
    <2> QED BY <1>1, <1>2, UpTo
  <1> QED BY <1>3

\* As many records as fit do not exceed the quotient.
LEMMA CountFits ==
    ASSUME NEW n \in Nat, NEW k \in Nat, k > 0, NEW a \in Nat, a >= n * k
    PROVE  ~(n > a \div k)
  <1> DEFINE q == a \div k
             r == a % k
  <1>1. q \in Nat /\ r \in 0 .. k - 1 /\ a = q * k + r
    BY Division
  <1> HIDE DEF q, r
  <1>2. ASSUME n > q PROVE FALSE
    <2> DEFINE d == n - q - 1
    <2>1. d \in Nat /\ n = q + d + 1
      BY <1>1, <1>2
    <2> HIDE DEF d
    <2>2. n * k = q * k + d * k + k /\ q * k \in Nat /\ d * k \in Nat
      BY <1>1, <2>1
    <2> DEFINE e == q * k
               f == d * k
               g == n * k
    <2>3. g = e + f + k /\ a = e + r /\ a >= g /\ e \in Nat /\ f \in Nat
      BY <1>1, <2>2
    <2> HIDE DEF e, f, g
    <2> QED BY <1>1, <2>3
  <1> QED BY <1>2 DEF q

\* The members of a room are read back, and have a size of their own.
LEMMA MembersReadBack ==
    ASSUME NEW s \in Seq(Byte), NEW o \in Nat, NEW l \in MemberList,
           \A i \in 1 .. Len(l) : Len(l[i].player_name) <= Max32,
           NEW c, c = Concat(CheckpointMembers(l)), At(s, o, c)
    PROVE  /\ MembersRead(s, Len(l), Reader(o)) = ReaderAt(o + Len(c), l)
           /\ c \in Seq(Byte) /\ Len(c) >= Len(l) * MinMemberSize /\ o + Len(c) <= Len(s)
  <1> DEFINE parts == CheckpointMembers(l)
             n == Len(l)
  <1>1. /\ l \in Seq(Member) /\ n \in Nat /\ \A i \in 1 .. n : l[i] \in Member
        /\ parts \in Seq(Seq(Byte)) /\ Len(parts) = n
        /\ \A i \in 1 .. n : parts[i] = EncodedMember(l[i])
        /\ c \in Seq(Byte)
    BY ListsType
  <1> HIDE DEF parts, n
  <1>2. PICK p \in [0 .. n -> Nat] :
             /\ p[0] = o /\ p[n] = o + Len(c) /\ p[n] <= Len(s)
             /\ \A i \in 1 .. n : p[i] = p[i - 1] + Len(parts[i]) /\ At(s, p[i - 1], parts[i])
    <2>1. At(s, o, Concat(parts))
      BY DEF parts
    <2>2. PICK p \in [0 .. Len(parts) -> Nat] :
             /\ p[0] = o /\ p[Len(parts)] = o + Len(Concat(parts)) /\ p[Len(parts)] <= Len(s)
             /\ \A i \in 1 .. Len(parts) :
                  p[i] = p[i - 1] + Len(parts[i]) /\ At(s, p[i - 1], parts[i])
      BY <1>1, <2>1, PartPositions, ZenonT(60)
    <2>3. c = Concat(parts)
      BY DEF parts
    <2> QED BY <1>1, <2>2, <2>3
  <1>3. ASSUME NEW i \in 1 .. n
        PROVE  /\ \A q : ReadMember(s, ReaderAt(p[i - 1], q)) = ReaderAt(p[i], Append(q, l[i]))
               /\ p[i] >= p[i - 1] + MinMemberSize
    <2> DEFINE m == l[i]
               b == p[i - 1]
    <2>1. /\ m \in Member /\ b \in Nat /\ At(s, b, EncodedMember(m)) /\ p[i] = b + Len(EncodedMember(m))
          /\ p[i] \in Nat
      <3>1. i - 1 \in 0 .. n /\ i \in 0 .. n
        BY <1>1
      <3> QED BY <1>1, <1>2, <3>1
    <2>2. Len(m.player_name) <= Max32
      BY DEF n
    <2> HIDE DEF m, b
    <2>3. \A q : ReadMember(s, ReaderAt(b, q)) = ReaderAt(b + Len(EncodedMember(m)), Append(q, m))
      BY <2>1, <2>2, MemberRead
    <2>4. p[i] >= b + MinMemberSize
      <3>1. Len(EncodedMember(m)) = MinMemberSize + Len(m.player_name)
            /\ m.player_name \in Seq(Byte)
        BY <2>1, MemberType
      <3> DEFINE k == Len(m.player_name)
      <3>2. k \in Nat /\ MinMemberSize \in Nat
        <4>1. k \in Nat
          BY <3>1
        <4>2. MinMemberSize \in Nat
          BY WidthFacts DEF MinMemberSize
        <4> QED BY <4>1, <4>2
      <3>3. p[i] = b + (MinMemberSize + k)
        BY <2>1, <3>1
      <3> HIDE DEF k
      <3> QED BY <2>1, <3>2, <3>3
    <2> QED BY <2>1, <2>3, <2>4 DEF m, b
  <1>4. MembersRead(s, n, Reader(p[0])) = ReaderAt(p[n], SubSeq(l, 1, n))
    <2>1. n \in 0 .. Len(l)
      BY <1>1 DEF n
    <2>2. \A i \in 1 .. Len(l) : \A q :
            ReadMember(s, ReaderAt(p[i - 1], q)) = ReaderAt(p[i], Append(q, l[i]))
      BY <1>3 DEF n
    <2> QED BY <1>1, <2>1, <2>2, MembersPrefix, ZenonT(60)
  <1>5. SubSeq(l, 1, n) = l
    BY <1>1, PrefixMore DEF n
  <1>6. MinMemberSize \in Nat
    BY WidthFacts DEF MinMemberSize
  <1>7. p[n] >= p[0] + (n - 0) * MinMemberSize
    <2>1. \A i \in 1 .. n : p[i] >= p[i - 1] + MinMemberSize
      BY <1>3
    <2> DEFINE j == 0
    <2>2. j \in 0 .. n
      BY <1>1
    <2> HIDE DEF j
    <2>3. p[n] >= p[j] + (n - j) * MinMemberSize
      BY <1>1, <1>6, <2>1, <2>2, PositionsGrow
    <2> QED BY <2>3 DEF j
  <1>8. Len(c) >= n * MinMemberSize
    <2> DEFINE e == n * MinMemberSize
               k == Len(c)
    <2>1. (n - 0) * MinMemberSize = e /\ e \in Nat /\ k \in Nat
      BY <1>1, <1>6
    <2>2. p[0] = o /\ p[n] = o + k /\ p[n] >= p[0] + e
      BY <1>2, <1>7, <2>1
    <2> HIDE DEF e, k
    <2>3. k >= e
      BY <2>1, <2>2
    <2> QED BY <2>3 DEF e, k
  <1> QED BY <1>1, <1>2, <1>4, <1>5, <1>8 DEF n

\* The states of a room are read back, and have a size of their own.
LEMMA StatesReadBack ==
    ASSUME NEW s \in Seq(Byte), NEW o \in Nat, NEW l \in StateList,
           NEW c, c = Concat(CheckpointStates(l)), At(s, o, c)
    PROVE  /\ StatesRead(s, Len(l), Reader(o)) = ReaderAt(o + Len(c), l)
           /\ c \in Seq(Byte) /\ Len(c) >= Len(l) * GameStateSize /\ o + Len(c) <= Len(s)
  <1> DEFINE parts == CheckpointStates(l)
             n == Len(l)
  <1>1. /\ l \in Seq(State) /\ n \in Nat /\ \A i \in 1 .. n : l[i] \in State
        /\ parts \in Seq(Seq(Byte)) /\ Len(parts) = n
        /\ \A i \in 1 .. n : parts[i] = EncodedGameState(l[i])
        /\ c \in Seq(Byte)
    BY ListsType
  <1> HIDE DEF parts, n
  <1>2. PICK p \in [0 .. n -> Nat] :
             /\ p[0] = o /\ p[n] = o + Len(c) /\ p[n] <= Len(s)
             /\ \A i \in 1 .. n : p[i] = p[i - 1] + Len(parts[i]) /\ At(s, p[i - 1], parts[i])
    <2>1. At(s, o, Concat(parts))
      BY DEF parts
    <2>2. PICK p \in [0 .. Len(parts) -> Nat] :
             /\ p[0] = o /\ p[Len(parts)] = o + Len(Concat(parts)) /\ p[Len(parts)] <= Len(s)
             /\ \A i \in 1 .. Len(parts) :
                  p[i] = p[i - 1] + Len(parts[i]) /\ At(s, p[i - 1], parts[i])
      BY <1>1, <2>1, PartPositions, ZenonT(60)
    <2>3. c = Concat(parts)
      BY DEF parts
    <2> QED BY <1>1, <2>2, <2>3
  <1>3. ASSUME NEW i \in 1 .. n
        PROVE  /\ \A q : ReadGameState(s, ReaderAt(p[i - 1], q)) = ReaderAt(p[i], Append(q, l[i]))
               /\ p[i] >= p[i - 1] + GameStateSize
    <2> DEFINE m == l[i]
               b == p[i - 1]
    <2>1. /\ m \in State /\ b \in Nat /\ At(s, b, EncodedGameState(m)) /\ p[i] = b + Len(EncodedGameState(m))
          /\ p[i] \in Nat
      <3>1. i - 1 \in 0 .. n /\ i \in 0 .. n
        BY <1>1
      <3> QED BY <1>1, <1>2, <3>1
    <2> HIDE DEF m, b
    <2>3. \A q : ReadGameState(s, ReaderAt(b, q)) = ReaderAt(b + Len(EncodedGameState(m)), Append(q, m))
      BY <2>1, StateRead
    <2>4. p[i] >= b + GameStateSize
      <3>1. Len(EncodedGameState(m)) = GameStateSize /\ GameStateSize \in Nat
        BY <2>1, StateType, WidthFacts DEF GameStateSize
      <3> QED BY <2>1, <3>1
    <2> QED BY <2>1, <2>3, <2>4 DEF m, b
  <1>4. StatesRead(s, n, Reader(p[0])) = ReaderAt(p[n], SubSeq(l, 1, n))
    <2>1. n \in 0 .. Len(l)
      BY <1>1 DEF n
    <2>2. \A i \in 1 .. Len(l) : \A q :
            ReadGameState(s, ReaderAt(p[i - 1], q)) = ReaderAt(p[i], Append(q, l[i]))
      BY <1>3 DEF n
    <2> QED BY <1>1, <2>1, <2>2, StatesPrefix
  <1>5. SubSeq(l, 1, n) = l
    BY <1>1, PrefixMore DEF n
  <1>6. GameStateSize \in Nat
    BY WidthFacts DEF GameStateSize
  <1>7. p[n] >= p[0] + (n - 0) * GameStateSize
    <2>1. \A i \in 1 .. n : p[i] >= p[i - 1] + GameStateSize
      BY <1>3
    <2> DEFINE j == 0
    <2>2. j \in 0 .. n
      BY <1>1
    <2> HIDE DEF j
    <2>3. p[n] >= p[j] + (n - j) * GameStateSize
      BY <1>1, <1>6, <2>1, <2>2, PositionsGrow
    <2> QED BY <2>3 DEF j
  <1>8. Len(c) >= n * GameStateSize
    <2> DEFINE e == n * GameStateSize
               k == Len(c)
    <2>1. (n - 0) * GameStateSize = e /\ e \in Nat /\ k \in Nat
      BY <1>1, <1>6
    <2>2. p[0] = o /\ p[n] = o + k /\ p[n] >= p[0] + e
      BY <1>2, <1>7, <2>1
    <2> HIDE DEF e, k
    <2>3. k >= e
      BY <2>1, <2>2
    <2> QED BY <2>3 DEF e, k
  <1> QED BY <1>1, <1>2, <1>4, <1>5, <1>8 DEF n

-----------------------------------------------------------------------------
(* Reading a whole file back. *)

\* A byte is a number of one byte.
LEMMA OneByte ==
    ASSUME NEW v \in Byte
    PROVE  Bytes(v, 1) = <<v>> /\ v \in 0 .. Power(1) - 1
  <1>1. v \in Nat /\ v < Base /\ Base \in Nat /\ Base > 0 /\ 1 \in Nat
    BY ByteType
  <1> DEFINE w == 1
             b == Bytes(v, w)
             c == <<v>>
  <1>2. w \in Nat /\ w = 1
    OBVIOUS
  <1> HIDE DEF w
  <1>3. b \in Seq(Byte) /\ Len(b) = w /\ \A i \in 1 .. w : b[i] = (v \div Power(w - i)) % Base
    BY <1>1, <1>2, BytesFacts
  <1>4. (v \div Power(w - 1)) % Base = v
    <2>1. Power(w - 1) = 1
      <3>1. w - 1 = 0
        BY <1>2
      <3> QED BY <3>1, PowerLaws
    <2>2. v \div 1 = v /\ v % Base = v
      BY <1>1
    <2> QED BY <2>1, <2>2
  <1>5. b[1] = v
    BY <1>2, <1>3, <1>4
  <1>6. c \in Seq(Byte) /\ Len(c) = 1 /\ c[1] = v
    OBVIOUS
  <1> HIDE DEF b, c
  <1>7. b = c
    BY <1>2, <1>3, <1>5, <1>6, SameBytes
  <1>8. Power(1) = Base
    <2>1. Power(0 + 1) = Power(0) * Base /\ Power(0) = 1
      BY PowerLaws
    <2> QED BY <1>1, <2>1
  <1> QED BY <1>1, <1>2, <1>7, <1>8 DEF b, c

\* The fields of a room before its lists are read back.
LEMMA RoomFieldsRead ==
    ASSUME NEW s \in Seq(Byte), NEW o \in Nat, NEW r \in RoomType, Len(r.members) <= Max32,
           At(s, o, EncodedRoom(r))
    PROVE  LET field == Fixed(s, o, <<W32, W64, W64, 1, W64, W32>>) IN
           /\ field[1] = r.room_id /\ field[2] = r.capacity /\ field[3] = r.next_player_id
           /\ field[4] = StateByte(r.state) /\ field[5] = r.tick_id /\ field[6] = Len(r.members)
  <1> DEFINE field == Fixed(s, o, <<W32, W64, W64, 1, W64, W32>>)
             pb == o + W32
             pk == o + W32 + W64
             pd == o + W32 + W64 + W64
             pe == o + W32 + W64 + W64 + 1
             pf == o + W32 + W64 + W64 + 1 + W64
             va == r.room_id
             vb == r.capacity
             vc == r.next_player_id
             vd == StateByte(r.state)
             ve == r.tick_id
             vf == Len(r.members)
  <1>1. /\ va \in 0 .. Max32 /\ vb \in 0 .. Max64 /\ vc \in 0 .. Max64 /\ ve \in 0 .. Max64
        /\ r.state \in {"waiting", "running", "finished"} /\ r.members \in MemberList
    BY RoomFieldsType
  <1>2. vf \in 0 .. Max32
    <2>1. vf \in Nat
      BY <1>1, ListsType
    <2> HIDE DEF vf
    <2>2. vf <= Max32
      BY DEF vf
    <2> QED BY <2>1, <2>2, WidthFacts
  <1>3. vd \in Byte
    BY <1>1, StateByteFacts
  <1>4. W32 \in Nat /\ W64 \in Nat /\ 1 \in Nat /\ Max32 = Power(W32) - 1 /\ Max64 = Power(W64) - 1
    BY WidthFacts
  <1>5. pb \in Nat /\ pk \in Nat /\ pd \in Nat /\ pe \in Nat /\ pf \in Nat
    BY <1>4
  <1>6. /\ field[1] = Field(s, o, W32) /\ field[2] = Field(s, pb, W64) /\ field[3] = Field(s, pk, W64)
        /\ field[4] = Field(s, pd, 1) /\ field[5] = Field(s, pe, W64) /\ field[6] = Field(s, pf, W32)
    <2> DEFINE e == 1
               f == Fixed(s, o, <<W32, W64, W64, e, W64, W32>>)
    <2>1. e \in Nat
      OBVIOUS
    <2> HIDE DEF e
    <2>2. SixFields(f, s, o, W32, W64, W64, e, W64, W32)
      BY <1>4, <2>1, RowOfSix
    <2> QED BY <2>2 DEF e, SixFields
  <1>7. At(s, o, RoomFields(r)) /\ At(s, pf, Bytes(vf, W32))
    <2>1. At(s, o, RoomFields(r)) /\ At(s, o + MinRoomSize - W32 - W32, Bytes(vf, W32))
      BY RoomBytes
    <2>2. o + MinRoomSize - W32 - W32 = pf
      BY <1>4 DEF MinRoomSize
    <2> HIDE DEF pf
    <2> QED BY <2>1, <2>2
  <1>8. /\ At(s, o, Bytes(va, W32)) /\ At(s, pb, Bytes(vb, W64)) /\ At(s, pk, Bytes(vc, W64))
        /\ At(s, pd, <<vd>>) /\ At(s, pe, Bytes(ve, W64))
    BY <1>7, RoomFieldsType
  <1>9. At(s, pd, Bytes(vd, 1)) /\ vd \in 0 .. Power(1) - 1
    BY <1>3, <1>8, OneByte
  <1>10. field[1] = Field(s, o, W32)
    BY <1>6
  <1> HIDE DEF field, pb, pk, pd, pe, pf, va, vb, vc, vd, ve, vf
  <1>11. Field(s, o, W32) = va /\ Field(s, pf, W32) = vf
    BY <1>1, <1>2, <1>4, <1>5, <1>7, <1>8, AtField
  <1>12. Field(s, pb, W64) = vb /\ Field(s, pk, W64) = vc /\ Field(s, pe, W64) = ve
    BY <1>1, <1>4, <1>5, <1>8, AtField
  <1>13. Field(s, pd, 1) = vd
    BY <1>4, <1>5, <1>9, AtField
  <1> QED BY <1>6, <1>11, <1>12, <1>13 DEF field, va, vb, vc, vd, ve, vf

\* The states after the members are read back.
LEMMA RoomStatesRead ==
    ASSUME NEW s \in Seq(Byte), NEW p \in Nat, NEW l, NEW g \in StateList, Len(g) <= Max32,
           NEW c, c = Concat(CheckpointStates(g)),
           At(s, p, Bytes(Len(g), W32)), At(s, p + W32, c)
    PROVE  /\ ReadGameStates(s, ReaderAt(p, l)) = ReaderAt(p + W32 + Len(c), g)
           /\ p + W32 + Len(c) <= Len(s)
  <1> DEFINE m == ReaderAt(p, l)
             n == Len(g)
             o == p + W32
             start == Reader(o)
  <1>1. W32 \in Nat /\ o \in Nat /\ n \in Nat /\ n <= Max32 /\ Max32 = Power(W32) - 1
        /\ GameStateSize \in Nat /\ GameStateSize > 0
    <2>1. n \in Nat
      BY ListsType
    <2>2. n <= Max32
      OBVIOUS
    <2> HIDE DEF n
    <2> QED BY <2>1, <2>2, WidthFacts DEF GameStateSize
  <1>2. n \in 0 .. Power(W32) - 1
    <2> HIDE DEF n
    <2> QED BY <1>1, WidthFacts
  <1>3. m.ok = TRUE /\ m.position = p /\ start.position = o
    BY ReaderFacts
  <1>4. Field(s, p, W32) = n
    <2>1. At(s, p, Bytes(n, W32))
      OBVIOUS
    <2> HIDE DEF n
    <2> QED BY <1>1, <1>2, <2>1, AtField
  <1>5. /\ StatesRead(s, n, start) = ReaderAt(o + Len(c), g)
        /\ c \in Seq(Byte) /\ Len(c) >= n * GameStateSize /\ o + Len(c) <= Len(s)
    <2>1. At(s, o, c)
      OBVIOUS
    <2> HIDE DEF o
    <2>2. o \in Nat /\ c = Concat(CheckpointStates(g))
      BY <1>1
    <2> QED BY <2>1, <2>2, StatesReadBack, Zenon
  <1>6. ReadGameStates(s, m) =
          IF ~m.ok \/ Remaining(s, m) < W32
             \/ Field(s, m.position, W32) > Remaining(s, Reader(m.position + W32)) \div GameStateSize
          THEN Failed(Reader(m.position + W32))
          ELSE StatesRead(s, Field(s, m.position, W32), Reader(m.position + W32))
    <2> HIDE DEF m
    <2> QED BY StatesReader, Zenon
  <1>7. ReadGameStates(s, m) =
          IF ~m.ok \/ Remaining(s, m) < W32 \/ n > Remaining(s, start) \div GameStateSize
          THEN Failed(start)
          ELSE StatesRead(s, n, start)
    <2> HIDE DEF m, n
    <2> QED BY <1>3, <1>4, <1>6, Zenon
  <1> DEFINE k == Len(c)
             len == Len(s)
             a == Remaining(s, start)
  <1>8. k \in Nat /\ len \in Nat
    BY <1>5
  <1>9. a = len - o /\ Remaining(s, m) = len - p
    BY <1>3 DEF Remaining
  <1> HIDE DEF m, n, start, k, len, a
  <1>10. a \in Nat /\ a >= n * GameStateSize /\ ~(len - p < W32)
    <2> DEFINE e == n * GameStateSize
    <2>1. o + k <= len /\ k >= e
      BY <1>5 DEF k, len
    <2>2. e \in Int
      BY <1>1
    <2> HIDE DEF e
    <2>3. a \in Nat /\ a >= e /\ ~(len - p < W32)
      BY <1>1, <1>8, <1>9, <2>1, <2>2
    <2> QED BY <2>3 DEF e
  <1>11. ~(n > a \div GameStateSize)
    BY <1>1, <1>10, CountFits
  <1>12. ReadGameStates(s, m) = StatesRead(s, n, start)
    BY <1>3, <1>7, <1>9, <1>10, <1>11, Zenon DEF a
  <1> QED BY <1>5, <1>12 DEF m

\* The fields before its lists are those of the room.
FieldsOf(f, r) ==
    /\ f[1] = r.room_id /\ f[2] = r.capacity /\ f[3] = r.next_player_id
    /\ f[4] = StateByte(r.state) /\ f[5] = r.tick_id

\* A room goes on with the fields, the members and the states that were read.
LEMMA RoomAdded ==
    ASSUME NEW r \in RoomType, NEW f, NEW o, NEW q, NEW e, NEW p, FieldsOf(f, r)
    PROVE  AddRoom(ReaderAt(o, q), f, ReaderAt(e, r.members), ReaderAt(p, r.game_states))
             = Advanced(ReaderAt(o, q), p, r)
  <1> DEFINE x == ReaderAt(o, q)
             m == ReaderAt(e, r.members)
             g == ReaderAt(p, r.game_states)
             y == [room_id |-> f[1], capacity |-> f[2],
                 next_player_id |-> f[3], state |-> States[f[4] + 1],
                 tick_id |-> f[5], members |-> m.records,
                 game_states |-> g.records]
  <1>1. g.ok = TRUE /\ g.position = p /\ g.records = r.game_states /\ m.records = r.members
    BY ReaderFacts
  <1>2. States[f[4] + 1] = r.state
    <2>1. r.state \in {"waiting", "running", "finished"}
      BY RoomFieldsType
    <2> QED BY <2>1, StateByteFacts DEF FieldsOf
  <1>3. r = [room_id |-> r.room_id, capacity |-> r.capacity,
                 next_player_id |-> r.next_player_id, state |-> r.state,
                 tick_id |-> r.tick_id, members |-> r.members,
                 game_states |-> r.game_states]
    BY DEF RoomType
  <1>4. AddRoom(x, f, m, g) = IF ~g.ok THEN Failed(x) ELSE Advanced(x, g.position, y)
    BY Zenon DEF AddRoom, Advanced
  <1> HIDE DEF g, m
  <1>5. y = r
    BY <1>1, <1>2, <1>3, Zenon DEF FieldsOf
  <1> HIDE DEF y
  <1>6. AddRoom(x, f, m, g) = Advanced(x, p, r)
    BY <1>1, <1>4, <1>5, Zenon
  <1> QED BY <1>6 DEF g, m

\* A room is read back.
LEMMA RoomRead ==
    ASSUME NEW s \in Seq(Byte), NEW o \in Nat, NEW r \in RoomType, RoomFitsU32(r),
           At(s, o, EncodedRoom(r)), NEW q
    PROVE  ReadRoom(s, ReaderAt(o, q)) = ReaderAt(o + Len(EncodedRoom(r)), Append(q, r))
  <1> DEFINE a == Concat(CheckpointMembers(r.members))
             b == Concat(CheckpointStates(r.game_states))
             n == Len(r.members)
             k == Len(r.game_states)
             p == o + MinRoomSize - W32
             e == o + MinRoomSize - W32 + Len(a)
             z == e + W32 + Len(b)
             x == ReaderAt(o, q)
             f == Fixed(s, o, <<W32, W64, W64, 1, W64, W32>>)
             members == MembersRead(s, n, Reader(p))
  <1>1. /\ n <= Max32 /\ k <= Max32
        /\ \A i \in DOMAIN r.members : Len(r.members[i].player_name) <= Max32
    BY DEF RoomFitsU32
  <1>2. /\ r.members \in MemberList /\ r.game_states \in StateList
        /\ r.state \in {"waiting", "running", "finished"}
    BY RoomFieldsType
  <1>3. \A i \in 1 .. n : Len(r.members[i].player_name) <= Max32
    <2>1. r.members \in Seq(Member)
      BY <1>2, ListsType
    <2>2. DOMAIN r.members = 1 .. n
      BY <2>1
    <2> QED BY <1>1, <2>2
  <1>4. /\ a \in Seq(Byte) /\ b \in Seq(Byte) /\ Len(a) \in Nat /\ Len(b) \in Nat
        /\ Len(EncodedRoom(r)) = MinRoomSize + Len(a) + Len(b)
        /\ At(s, p, a) /\ At(s, e, Bytes(k, W32)) /\ At(s, o + MinRoomSize + Len(a), b)
    <2>1. /\ a \in Seq(Byte) /\ b \in Seq(Byte)
          /\ Len(EncodedRoom(r)) = MinRoomSize + Len(a) + Len(b)
          /\ At(s, p, a) /\ At(s, e, Bytes(k, W32)) /\ At(s, o + MinRoomSize + Len(a), b)
      BY RoomBytes
    <2> HIDE DEF a, b
    <2> QED BY <2>1
  <1>5. W32 \in Nat /\ W64 \in Nat /\ MinRoomSize \in Nat /\ MinRoomSize >= W32 + W32
        /\ MinMemberSize \in Nat /\ MinMemberSize > 0 /\ n \in Nat
    <2>1. n \in Nat
      BY <1>2, ListsType
    <2> HIDE DEF n
    <2> QED BY <2>1, WidthFacts DEF MinRoomSize, MinMemberSize
  <1>6. a = Concat(CheckpointMembers(r.members)) /\ b = Concat(CheckpointStates(r.game_states))
    OBVIOUS
  <1> HIDE DEF a, b
  <1>7. p \in Nat /\ e \in Nat /\ p + Len(a) = e /\ e + W32 = o + MinRoomSize + Len(a)
        /\ z = o + Len(EncodedRoom(r))
    <2> DEFINE u == Len(a)
               v == Len(b)
    <2>1. u \in Nat /\ v \in Nat /\ Len(EncodedRoom(r)) = MinRoomSize + u + v
      BY <1>4
    <2> HIDE DEF u, v
    <2>2. /\ o + MinRoomSize - W32 \in Nat /\ o + MinRoomSize - W32 + u \in Nat
          /\ (o + MinRoomSize - W32 + u) + W32 = o + MinRoomSize + u
          /\ (o + MinRoomSize - W32 + u) + W32 + v = o + (MinRoomSize + u + v)
      BY <1>5, <2>1
    <2> QED BY <2>1, <2>2 DEF u, v
  <1>8. /\ members = ReaderAt(e, r.members)
        /\ Len(a) >= n * MinMemberSize
    <2>1. At(s, p, a)
      BY <1>4
    <2> HIDE DEF p, e
    <2>2. MembersRead(s, n, Reader(p)) = ReaderAt(p + Len(a), r.members)
          /\ Len(a) >= n * MinMemberSize
      BY <1>2, <1>3, <1>6, <1>7, <2>1, MembersReadBack
    <2> QED BY <1>7, <2>2
  <1>9. ReadGameStates(s, members) = ReaderAt(z, r.game_states) /\ z <= Len(s)
    <2>1. At(s, e, Bytes(k, W32)) /\ At(s, e + W32, b) /\ e \in Nat
      BY <1>4, <1>7
    <2> HIDE DEF e, members
    <2>2. ReadGameStates(s, ReaderAt(e, r.members)) = ReaderAt(e + W32 + Len(b), r.game_states)
          /\ e + W32 + Len(b) <= Len(s)
      BY <1>1, <1>2, <1>6, <2>1, RoomStatesRead
    <2> QED BY <1>8, <2>2
  <1>10. /\ f[1] = r.room_id /\ f[2] = r.capacity /\ f[3] = r.next_player_id
         /\ f[4] = StateByte(r.state) /\ f[5] = r.tick_id /\ f[6] = n
    BY <1>1, RoomFieldsRead
  <1>11. x.position = o
    BY ReaderFacts
  <1> HIDE DEF f, x
  <1>12. ReadRoom(s, x) =
           IF \/ Remaining(s, x) < MinRoomSize
              \/ f[4] + 1 \notin DOMAIN States
              \/ f[6] > (Remaining(s, Reader(p)) - W32) \div MinMemberSize
           THEN Failed(x)
           ELSE AddRoom(x, f, MembersRead(s, f[6], Reader(p)),
                        ReadGameStates(s, MembersRead(s, f[6], Reader(p))))
    BY <1>11, RoomReader, Zenon DEF f
  <1>13. ~(f[4] + 1 \notin DOMAIN States)
    BY <1>2, <1>10, StateByteFacts
  <1> DEFINE len == Len(s)
             u == Len(a)
             v == Len(b)
             rest == Remaining(s, Reader(p)) - W32
  <1>14. /\ len \in Nat /\ u \in Nat /\ v \in Nat /\ Remaining(s, x) = len - o
         /\ rest = (len - p) - W32
         /\ z <= len /\ z = o + MinRoomSize + u + v
    <2>1. Reader(p).position = p
      BY ReaderFacts
    <2>2. z = o + MinRoomSize + u + v
      <3>1. z = o + (MinRoomSize + u + v)
        BY <1>4, <1>7
      <3>2. u \in Nat /\ v \in Nat
        BY <1>4
      <3> HIDE DEF z, u, v
      <3> QED BY <1>5, <3>1, <3>2
    <2> HIDE DEF p, z
    <2> QED BY <1>4, <1>9, <1>11, <2>1, <2>2 DEF Remaining
  <1>15. u >= n * MinMemberSize
    BY <1>8
  <1>16. ~(Remaining(s, x) < MinRoomSize) /\ rest \in Nat /\ rest >= n * MinMemberSize
    <2> DEFINE g == n * MinMemberSize
    <2>1. u >= g /\ g \in Int
      BY <1>5, <1>15
    <2> HIDE DEF g, len, u, v, rest, z, n
    <2>2. ~(Remaining(s, x) < MinRoomSize) /\ rest \in Nat /\ rest >= g
      BY <1>5, <1>14, <2>1
    <2> QED BY <2>2 DEF g
  <1> HIDE DEF rest, z, n, p, e, members
  <1>17. ~(n > rest \div MinMemberSize)
    BY <1>5, <1>16, CountFits
  <1>18. ReadRoom(s, x) = AddRoom(x, f, members, ReadGameStates(s, members))
    <2>1. MembersRead(s, n, Reader(p)) = members
      BY DEF members
    <2> QED BY <1>10, <1>12, <1>13, <1>16, <1>17, <2>1, Zenon DEF rest
  <1>19. AddRoom(x, f, ReaderAt(e, r.members), ReaderAt(z, r.game_states)) = ReaderAt(z, Append(q, r))
    <2>1. FieldsOf(f, r)
      BY <1>10 DEF FieldsOf
    <2>2. AddRoom(ReaderAt(o, q), f, ReaderAt(e, r.members), ReaderAt(z, r.game_states))
            = Advanced(ReaderAt(o, q), z, r)
      BY <2>1, RoomAdded, ZenonT(60)
    <2>3. Advanced(ReaderAt(o, q), z, r) = ReaderAt(z, Append(q, r))
      BY Advance
    <2> QED BY <2>2, <2>3 DEF x
  <1> QED BY <1>7, <1>8, <1>9, <1>18, <1>19 DEF x

\* The positions p of the rooms l, whose bytes begin at o.
RoomsPlaced(s, o, l, p) ==
    /\ p[0] = o /\ p[Len(l)] = o + Len(Concat(CheckpointRooms(l))) /\ p[Len(l)] <= Len(s)
    /\ \A i \in 1 .. Len(l) : p[i] >= p[i - 1] + MinRoomSize
    /\ RoomsAlong(s, l, p)

\* Where the rooms are, and that they are read from there.
LEMMA RoomsPositions ==
    ASSUME NEW s \in Seq(Byte), NEW o \in Nat, NEW l \in Seq(RoomType),
           \A i \in 1 .. Len(l) : RoomFitsU32(l[i]),
           NEW c, c = Concat(CheckpointRooms(l)), At(s, o, c)
    PROVE  /\ c \in Seq(Byte) /\ Len(c) >= Len(l) * MinRoomSize
           /\ \E p \in [0 .. Len(l) -> Nat] : RoomsPlaced(s, o, l, p)
  <1> DEFINE parts == CheckpointRooms(l)
             n == Len(l)
  <1>1. /\ n \in Nat /\ \A i \in 1 .. n : l[i] \in RoomType
        /\ parts \in Seq(Seq(Byte)) /\ Len(parts) = n
        /\ \A i \in 1 .. n : parts[i] = EncodedRoom(l[i])
        /\ c \in Seq(Byte)
    BY CheckpointLists
  <1> HIDE DEF parts, n
  <1>2. PICK p \in [0 .. n -> Nat] :
             /\ p[0] = o /\ p[n] = o + Len(c) /\ p[n] <= Len(s)
             /\ \A i \in 1 .. n : p[i] = p[i - 1] + Len(parts[i]) /\ At(s, p[i - 1], parts[i])
    <2>1. At(s, o, Concat(parts))
      BY DEF parts
    <2>2. PICK p \in [0 .. Len(parts) -> Nat] :
             /\ p[0] = o /\ p[Len(parts)] = o + Len(Concat(parts)) /\ p[Len(parts)] <= Len(s)
             /\ \A i \in 1 .. Len(parts) :
                  p[i] = p[i - 1] + Len(parts[i]) /\ At(s, p[i - 1], parts[i])
      BY <1>1, <2>1, PartPositions, ZenonT(60)
    <2>3. c = Concat(parts)
      BY DEF parts
    <2> QED BY <1>1, <2>2, <2>3
  <1>6. MinRoomSize \in Nat
    BY WidthFacts DEF MinRoomSize
  <1>3. ASSUME NEW i \in 1 .. n
        PROVE  /\ \A q : ReadRoom(s, ReaderAt(p[i - 1], q)) = ReaderAt(p[i], Append(q, l[i]))
               /\ p[i] >= p[i - 1] + MinRoomSize
    <2> DEFINE m == l[i]
               b == p[i - 1]
    <2>1. /\ m \in RoomType /\ b \in Nat /\ At(s, b, EncodedRoom(m)) /\ p[i] = b + Len(EncodedRoom(m))
          /\ p[i] \in Nat
      <3>1. i - 1 \in 0 .. n /\ i \in 0 .. n
        BY <1>1
      <3> QED BY <1>1, <1>2, <3>1
    <2>2. RoomFitsU32(m)
      BY DEF n
    <2> HIDE DEF m, b
    <2>3. \A q : ReadRoom(s, ReaderAt(b, q)) = ReaderAt(b + Len(EncodedRoom(m)), Append(q, m))
      BY <2>1, <2>2, RoomRead
    <2>4. p[i] >= b + MinRoomSize
      <3> DEFINE u == Concat(CheckpointMembers(m.members))
                 v == Concat(CheckpointStates(m.game_states))
      <3>1. Len(EncodedRoom(m)) = MinRoomSize + Len(u) + Len(v) /\ u \in Seq(Byte) /\ v \in Seq(Byte)
        BY <2>1, RoomBytes
      <3> HIDE DEF u, v
      <3> DEFINE j == Len(u)
                 k == Len(v)
      <3>2. j \in Nat /\ k \in Nat /\ p[i] = b + (MinRoomSize + j + k)
        BY <2>1, <3>1
      <3> HIDE DEF j, k
      <3> QED BY <1>6, <2>1, <3>2
    <2> QED BY <2>1, <2>3, <2>4 DEF m, b
  <1>7. p[n] >= p[0] + (n - 0) * MinRoomSize
    <2>1. \A i \in 1 .. n : p[i] >= p[i - 1] + MinRoomSize
      BY <1>3
    <2> DEFINE j == 0
    <2>2. j \in 0 .. n
      BY <1>1
    <2> HIDE DEF j
    <2>3. p[n] >= p[j] + (n - j) * MinRoomSize
      BY <1>1, <1>6, <2>1, <2>2, PositionsGrow
    <2> QED BY <2>3 DEF j
  <1>8. Len(c) >= n * MinRoomSize
    <2> DEFINE e == n * MinRoomSize
               k == Len(c)
    <2>1. (n - 0) * MinRoomSize = e /\ e \in Nat /\ k \in Nat
      BY <1>1, <1>6
    <2>2. p[0] = o /\ p[n] = o + k /\ p[n] >= p[0] + e
      BY <1>2, <1>7, <2>1
    <2> HIDE DEF e, k
    <2>3. k >= e
      BY <2>1, <2>2
    <2> QED BY <2>3 DEF e, k
  <1>9. RoomsPlaced(s, o, l, p)
    <2>1. RoomsAlong(s, l, p)
      BY <1>3, Zenon DEF n, RoomsAlong
    <2> QED BY <1>2, <1>3, <2>1 DEF n, RoomsPlaced
  <1> QED BY <1>1, <1>2, <1>8, <1>9 DEF n

\* The bytes of a session with a valid token.
SessionSize == W32 + TokenSize + W32 + W64

\* The positions p of the sessions l, whose bytes begin at o.
SessionsPlaced(s, o, l, p) ==
    /\ p[0] = o /\ p[Len(l)] = o + Len(Concat(CheckpointSessions(l))) /\ p[Len(l)] <= Len(s)
    /\ \A i \in 1 .. Len(l) :
         p[i] = p[i - 1] + SessionSize /\ At(s, p[i - 1], EncodedSession(l[i]))
    /\ SessionsAlong(s, l, p)

\* Where the sessions are, and that they are read from there.
LEMMA SessionsPositions ==
    ASSUME NEW s \in Seq(Byte), NEW o \in Nat, NEW l \in Seq(SessionType),
           \A i \in 1 .. Len(l) : ValidToken(l[i].token),
           NEW c, c = Concat(CheckpointSessions(l)), At(s, o, c)
    PROVE  /\ c \in Seq(Byte) /\ Len(c) = Len(l) * SessionSize /\ SessionSize \in Nat
           /\ SessionSize > 0
           /\ \E p \in [0 .. Len(l) -> Nat] : SessionsPlaced(s, o, l, p)
  <1> DEFINE parts == CheckpointSessions(l)
             n == Len(l)
  <1>1. /\ n \in Nat /\ \A i \in 1 .. n : l[i] \in SessionType
        /\ parts \in Seq(Seq(Byte)) /\ Len(parts) = n
        /\ \A i \in 1 .. n : parts[i] = EncodedSession(l[i])
        /\ c \in Seq(Byte)
    BY CheckpointLists
  <1> HIDE DEF parts, n
  <1>2. PICK p \in [0 .. n -> Nat] :
             /\ p[0] = o /\ p[n] = o + Len(c) /\ p[n] <= Len(s)
             /\ \A i \in 1 .. n : p[i] = p[i - 1] + Len(parts[i]) /\ At(s, p[i - 1], parts[i])
    <2>1. At(s, o, Concat(parts))
      BY DEF parts
    <2>2. PICK p \in [0 .. Len(parts) -> Nat] :
             /\ p[0] = o /\ p[Len(parts)] = o + Len(Concat(parts)) /\ p[Len(parts)] <= Len(s)
             /\ \A i \in 1 .. Len(parts) :
                  p[i] = p[i - 1] + Len(parts[i]) /\ At(s, p[i - 1], parts[i])
      BY <1>1, <2>1, PartPositions, ZenonT(60)
    <2>3. c = Concat(parts)
      BY DEF parts
    <2> QED BY <1>1, <2>2, <2>3
  <1>6. SessionSize \in Nat /\ TokenSize <= Max32 /\ SessionSize > 0
    BY WidthFacts, CheckpointAssumption DEF SessionSize
  <1>3. ASSUME NEW i \in 1 .. n
        PROVE  /\ \A q : ReadSession(s, ReaderAt(p[i - 1], q)) = ReaderAt(p[i], Append(q, l[i]))
               /\ p[i] = p[i - 1] + SessionSize /\ At(s, p[i - 1], EncodedSession(l[i]))
    <2> DEFINE m == l[i]
               b == p[i - 1]
    <2>1. /\ m \in SessionType /\ b \in Nat /\ At(s, b, EncodedSession(m))
          /\ p[i] = b + Len(EncodedSession(m))
      <3>1. i - 1 \in 0 .. n /\ i \in 0 .. n
        BY <1>1
      <3> QED BY <1>1, <1>2, <3>1
    <2>2. Len(m.token) = TokenSize
      BY DEF n, ValidToken
    <2> HIDE DEF m, b
    <2>3. \A q : ReadSession(s, ReaderAt(b, q)) = ReaderAt(b + Len(EncodedSession(m)), Append(q, m))
      <3>1. Len(m.token) <= Max32
        BY <1>6, <2>2
      <3> QED BY <2>1, <3>1, SessionRead
    <2>4. Len(EncodedSession(m)) = SessionSize
      BY <2>1, <2>2, SessionBytes DEF SessionSize
    <2> QED BY <2>1, <2>3, <2>4 DEF m, b
  <1>7. p[n] = p[0] + n * SessionSize
    <2>1. \A i \in 1 .. n : p[i] = p[i - 1] + SessionSize
      BY <1>3
    <2> QED BY <1>1, <1>6, <2>1, PositionsEven
  <1>8. Len(c) = n * SessionSize
    <2> DEFINE e == n * SessionSize
               k == Len(c)
    <2>1. e \in Nat /\ k \in Nat
      BY <1>1, <1>6
    <2>2. p[0] = o /\ p[n] = o + k /\ p[n] = p[0] + e
      BY <1>2, <1>7
    <2> HIDE DEF e, k
    <2>3. k = e
      BY <2>1, <2>2
    <2> QED BY <2>3 DEF e, k
  <1>9. SessionsPlaced(s, o, l, p)
    <2>1. SessionsAlong(s, l, p)
      BY <1>3, Zenon DEF n, SessionsAlong
    <2> QED BY <1>2, <1>3, <2>1 DEF n, SessionsPlaced
  <1> QED BY <1>1, <1>2, <1>6, <1>8, <1>9 DEF n

\* The header of a file, and how the file is decoded by it.
HeaderOf(s) == Fixed(s, Len(Magic), <<W32, W64, W32, W32, W64, W64>>)

\* The fields of the header.
LEMMA HeaderFields ==
    ASSUME NEW s \in Seq(Byte)
    PROVE  SixFields(HeaderOf(s), s, Len(Magic), W32, W64, W32, W32, W64, W64)
  <1> DEFINE o == Len(Magic)
  <1>1. W32 \in Nat /\ W64 \in Nat /\ o \in Nat
    BY WidthFacts, CheckpointAssumption
  <1> HIDE DEF o
  <1>2. SixFields(Fixed(s, o, <<W32, W64, W32, W32, W64, W64>>), s, o, W32, W64, W32, W32, W64, W64)
    BY <1>1, RowOfSix
  <1> QED BY <1>2 DEF HeaderOf, o

\* The steps of decode before the rooms.
LEMMA DecodeHeader ==
    ASSUME NEW s, NEW p, p = SubSeq(s, HeaderSize + 1, Len(s))
    PROVE  DecodeCheckpoint(s) =
             IF Len(s) > MaxFile
             THEN [state |-> "too_large"]
             ELSE IF Len(s) < HeaderSize \/ SubSeq(s, 1, Len(Magic)) # Magic
             THEN [state |-> "malformed_data"]
             ELSE IF HeaderOf(s)[1] # Version
             THEN [state |-> "unsupported_version"]
             ELSE IF HeaderOf(s)[2] = 0
             THEN [state |-> "invalid_checkpoint"]
             ELSE IF HeaderOf(s)[5] # Len(p)
             THEN [state |-> "malformed_data"]
             ELSE IF HeaderOf(s)[6] # Checksum(p)
             THEN [state |-> "checksum_mismatch"]
             ELSE DecodeRooms(s, HeaderOf(s))
  BY Zenon DEF DecodeCheckpoint, HeaderOf

\* The rooms and the sessions, to the end of the file.
RoomsEnd(rooms) == HeaderSize + Len(Concat(CheckpointRooms(rooms)))
Filed(s, rooms, sessions) ==
    /\ rooms \in Seq(RoomType) /\ \A i \in 1 .. Len(rooms) : RoomFitsU32(rooms[i])
    /\ sessions \in Seq(SessionType) /\ \A i \in 1 .. Len(sessions) : ValidToken(sessions[i].token)
    /\ At(s, HeaderSize, Concat(CheckpointRooms(rooms)))
    /\ At(s, RoomsEnd(rooms), Concat(CheckpointSessions(sessions)))
    /\ Len(s) = RoomsEnd(rooms) + Len(Concat(CheckpointSessions(sessions)))

\* The sizes of the parts of the file.
LEMMA FiledSizes ==
    ASSUME NEW s \in Seq(Byte), NEW rooms, NEW sessions, Filed(s, rooms, sessions)
    PROVE  /\ HeaderSize \in Nat /\ RoomsEnd(rooms) \in Nat /\ Len(rooms) \in Nat /\ Len(sessions) \in Nat
           /\ MinRoomSize \in Nat /\ MinRoomSize > 0
           /\ MinSessionSize \in Nat /\ MinSessionSize > 0
           /\ SessionSize \in Nat /\ SessionSize >= MinSessionSize
           /\ RoomsEnd(rooms) >= HeaderSize + Len(rooms) * MinRoomSize
           /\ Len(s) = RoomsEnd(rooms) + Len(sessions) * SessionSize
           /\ Len(s) \in Nat
  <1> DEFINE c == Concat(CheckpointRooms(rooms))
             e == Concat(CheckpointSessions(sessions))
             q == RoomsEnd(rooms)
             k == Len(rooms)
             n == Len(sessions)
  <1>1. /\ rooms \in Seq(RoomType) /\ \A i \in 1 .. Len(rooms) : RoomFitsU32(rooms[i])
        /\ sessions \in Seq(SessionType) /\ \A i \in 1 .. Len(sessions) : ValidToken(sessions[i].token)
        /\ At(s, HeaderSize, c) /\ At(s, q, e) /\ Len(s) = q + Len(e) /\ q = HeaderSize + Len(c)
    BY DEF Filed, RoomsEnd
  <1>2. HeaderSize \in Nat /\ MinRoomSize \in Nat /\ MinRoomSize > 0
        /\ MinSessionSize \in Nat /\ MinSessionSize > 0 /\ SessionSize >= MinSessionSize
    BY WidthFacts, CheckpointAssumption DEF HeaderSize, MinRoomSize, MinSessionSize, SessionSize
  <1>3. k \in Nat /\ n \in Nat /\ Len(s) \in Nat
    BY <1>1
  <1>4. c \in Seq(Byte) /\ Len(c) >= k * MinRoomSize
    BY <1>1, <1>2, RoomsPositions
  <1>5. q \in Nat /\ q >= HeaderSize + k * MinRoomSize
    <2> DEFINE u == Len(c)
               v == k * MinRoomSize
    <2>1. u \in Nat /\ u >= v /\ v \in Int /\ q = HeaderSize + u
      BY <1>1, <1>2, <1>3, <1>4
    <2> HIDE DEF u, v, q
    <2>2. q \in Nat /\ q >= HeaderSize + v
      BY <1>2, <2>1
    <2> QED BY <2>2 DEF v
  <1> HIDE DEF q
  <1>6. e \in Seq(Byte) /\ Len(e) = n * SessionSize /\ SessionSize \in Nat
    BY <1>1, <1>5, SessionsPositions
  <1> QED BY <1>1, <1>2, <1>3, <1>5, <1>6 DEF q

\* With their count the rooms are read.
LEMMA RoomsDecoded ==
    ASSUME NEW s \in Seq(Byte), NEW rooms, NEW sessions, Filed(s, rooms, sessions),
           NEW h, h[3] = Len(rooms)
    PROVE  DecodeRooms(s, h) = DecodeSessions(s, h, ReaderAt(RoomsEnd(rooms), rooms))
  <1> DEFINE o == HeaderSize
             c == Concat(CheckpointRooms(rooms))
             q == RoomsEnd(rooms)
             n == Len(rooms)
             start == Reader(o)
             rest == Remaining(s, start)
  <1>1. /\ rooms \in Seq(RoomType) /\ \A i \in 1 .. Len(rooms) : RoomFitsU32(rooms[i])
        /\ At(s, o, c) /\ q = o + Len(c)
    BY DEF Filed, RoomsEnd
  <1>2. /\ o \in Nat /\ n \in Nat /\ MinRoomSize \in Nat /\ MinRoomSize > 0
        /\ q \in Nat /\ q >= o + n * MinRoomSize /\ Len(s) >= q /\ Len(s) \in Nat
    <2>1. /\ o \in Nat /\ n \in Nat /\ MinRoomSize \in Nat /\ MinRoomSize > 0 /\ Len(sessions) \in Nat
          /\ SessionSize \in Nat
          /\ q \in Nat /\ q >= o + n * MinRoomSize /\ Len(s) = q + Len(sessions) * SessionSize
          /\ Len(s) \in Nat
      BY FiledSizes
    <2> DEFINE v == Len(sessions) * SessionSize
    <2>2. v \in Nat
      BY <2>1
    <2> HIDE DEF v, q
    <2>3. Len(s) >= q
      BY <2>1, <2>2 DEF v
    <2> QED BY <2>1, <2>3 DEF q
  <1>9. PICK p \in [0 .. n -> Nat] : RoomsPlaced(s, o, rooms, p)
    <2> HIDE DEF o
    <2> QED BY <1>1, <1>2, RoomsPositions
  <1>3. p[0] = o /\ p[n] = o + Len(c) /\ RoomsAlong(s, rooms, p)
    BY <1>9 DEF RoomsPlaced
  <1>4. RoomsRead(s, n, start) = ReaderAt(q, rooms)
    <2>1. n \in 0 .. Len(rooms)
      BY <1>2
    <2>2. RoomsRead(s, n, Reader(p[0])) = ReaderAt(p[n], SubSeq(rooms, 1, n))
      BY <1>1, <1>3, <2>1, RoomsPrefix, SMTT(30)
    <2>3. SubSeq(rooms, 1, n) = rooms
      BY <1>1, PrefixMore
    <2> QED BY <1>1, <1>3, <2>2, <2>3
  <1>5. start.position = o
    BY ReaderFacts
  <1>6. rest \in Nat /\ rest >= n * MinRoomSize
    <2> DEFINE v == n * MinRoomSize
               len == Len(s)
    <2>1. rest = len - o /\ v \in Int
      BY <1>2, <1>5 DEF Remaining
    <2>2. o \in Nat /\ q \in Nat /\ q >= o + v /\ len >= q /\ len \in Nat /\ v >= 0
      BY <1>2
    <2> HIDE DEF v, q, rest, len, o
    <2>3. rest \in Nat /\ rest >= v
      BY <2>1, <2>2
    <2> QED BY <2>3 DEF v
  <1>7. ~(n > rest \div MinRoomSize)
    <2> HIDE DEF n, rest
    <2> QED BY <1>2, <1>6, CountFits
  <1>8. DecodeRooms(s, h) =
          IF h[3] > Remaining(s, Reader(HeaderSize)) \div MinRoomSize
          THEN [state |-> "malformed_data"]
          ELSE DecodeSessions(s, h, RoomsRead(s, h[3], Reader(HeaderSize)))
    BY RoomsReader, Zenon
  <1> QED BY <1>4, <1>7, <1>8, Zenon

\* What decoding finds, and the success it reports.
Found(g, rooms, sessions) == [generation |-> g, rooms |-> rooms, sessions |-> sessions]
Success(x) == [state |-> "success", checkpoint |-> x]

\* With their count the sessions are read.
LEMMA SessionsDecoded ==
    ASSUME NEW s \in Seq(Byte), NEW rooms, NEW sessions, Filed(s, rooms, sessions),
           NEW h, h[4] = Len(sessions)
    PROVE  DecodeSessions(s, h, ReaderAt(RoomsEnd(rooms), rooms)) =
             Finish(s, Found(h[2], rooms, sessions), ReaderAt(Len(s), sessions))
  <1> DEFINE o == RoomsEnd(rooms)
             c == Concat(CheckpointSessions(sessions))
             n == Len(sessions)
             r == ReaderAt(o, rooms)
             rest == Remaining(s, r)
  <1>1. /\ sessions \in Seq(SessionType) /\ \A i \in 1 .. Len(sessions) : ValidToken(sessions[i].token)
        /\ At(s, o, c) /\ Len(s) = o + Len(c)
    BY DEF Filed
  <1>2. /\ o \in Nat /\ n \in Nat /\ MinSessionSize \in Nat /\ MinSessionSize > 0
        /\ SessionSize \in Nat /\ SessionSize >= MinSessionSize
        /\ Len(s) = o + n * SessionSize /\ Len(s) \in Nat
    BY FiledSizes
  <1>9. PICK p \in [0 .. n -> Nat] : SessionsPlaced(s, o, sessions, p)
    <2> HIDE DEF o
    <2> QED BY <1>1, <1>2, SessionsPositions
  <1>3. p[0] = o /\ p[n] = o + Len(c) /\ SessionsAlong(s, sessions, p)
    BY <1>9 DEF SessionsPlaced
  <1>4. SessionsRead(s, n, Reader(o)) = ReaderAt(Len(s), sessions)
    <2>1. n \in 0 .. Len(sessions)
      BY <1>2
    <2>2. SessionsRead(s, n, Reader(p[0])) = ReaderAt(p[n], SubSeq(sessions, 1, n))
      <3>1. sessions \in Seq(SessionType) /\ SessionsAlong(s, sessions, p)
        BY <1>1, <1>3
      <3> HIDE DEF n
      <3> QED BY <2>1, <3>1, SessionsPrefix, Zenon
    <2>3. SubSeq(sessions, 1, n) = sessions
      BY <1>1, PrefixMore
    <2> QED BY <1>1, <1>3, <2>2, <2>3
  <1>5. r.position = o /\ r.ok = TRUE /\ r.records = rooms
    BY ReaderFacts
  <1>6. rest \in Nat /\ rest >= n * MinSessionSize
    <2> DEFINE v == n * SessionSize
               w == n * MinSessionSize
               len == Len(s)
    <2>1. rest = len - o
      BY <1>5 DEF Remaining
    <2>2. v \in Nat /\ w \in Nat /\ v >= w
      <3>1. n * SessionSize = SessionSize * n /\ n * MinSessionSize = MinSessionSize * n
        BY <1>2
      <3>2. MinSessionSize * n <= SessionSize * n
        <4> HIDE DEF n
        <4> QED BY <1>2, ProductMonotone
      <3> QED BY <1>2, <3>1, <3>2
    <2>3. len = o + v
      BY <1>2
    <2> HIDE DEF v, w, rest, len, o
    <2>4. rest \in Nat /\ rest >= w
      BY <1>2, <2>1, <2>2, <2>3
    <2> QED BY <2>4 DEF w
  <1>7. ~(n > rest \div MinSessionSize)
    <2> HIDE DEF n, rest
    <2> QED BY <1>2, <1>6, CountFits
  <1> HIDE DEF r
  <1>8. DecodeSessions(s, h, r) =
          IF ~r.ok \/ h[4] > Remaining(s, r) \div MinSessionSize
          THEN [state |-> "malformed_data"]
          ELSE Finish(s, [generation |-> h[2], rooms |-> r.records,
                          sessions |-> SessionsRead(s, h[4], Reader(r.position)).records],
                      SessionsRead(s, h[4], Reader(r.position)))
    BY SessionsReader, Zenon
  <1> DEFINE f == SessionsRead(s, n, Reader(o))
  <1>13. f.records = sessions
    BY <1>4, ReaderFacts
  <1>10. h[4] = n
    OBVIOUS
  <1> HIDE DEF n, o
  <1>11. DecodeSessions(s, h, r) =
           Finish(s, [generation |-> h[2], rooms |-> r.records, sessions |-> f.records], f)
    BY <1>5, <1>7, <1>8, <1>10, Zenon
  <1> HIDE DEF f
  <1>12. f = ReaderAt(Len(s), sessions)
    BY <1>4 DEF f
  <1> QED BY <1>5, <1>11, <1>12, <1>13, Zenon DEF r, o, Found

\* A file has its rooms and its sessions after the header, whatever the header.
LEMMA FileFiled ==
    ASSUME NEW cp \in CheckpointType, EncodeCheckpoint(cp).state = "success",
           NEW d, d = EncodeCheckpoint(cp).data, NEW s \in Seq(Byte), Len(s) = Len(d),
           \A j \in 1 .. Len(s) : j > HeaderSize => s[j] = d[j]
    PROVE  Filed(s, cp.rooms, cp.sessions)
  <1> DEFINE rooms == cp.rooms
             sessions == cp.sessions
             a == Concat(CheckpointRooms(rooms))
             b == Concat(CheckpointSessions(sessions))
             h == HeaderSize
             q == RoomsEnd(rooms)
             len == Len(s)
  <1>1. rooms \in Seq(RoomType) /\ sessions \in Seq(SessionType)
    BY DEF CheckpointType
  <1>2. ValidKeys(cp) /\ \A i \in DOMAIN rooms : RoomFitsU32(rooms[i])
    BY EncodeFacts, Zenon
  <1>3. \A i \in 1 .. Len(sessions) : ValidToken(sessions[i].token)
    <2>1. \A i \in DOMAIN sessions : ValidToken(sessions[i].token)
      BY <1>2, Zenon DEF ValidKeys
    <2> QED BY <1>1, <2>1
  <1>4. \A i \in 1 .. Len(rooms) : RoomFitsU32(rooms[i])
    BY <1>1, <1>2
  <1> DEFINE p == Payload(cp)
  <1>5. /\ d \in Seq(Byte) /\ h \in Nat /\ Len(d) = h + Len(p)
        /\ At(d, h, a) /\ At(d, h + Len(a), b) /\ Len(p) = Len(a) + Len(b)
    BY FileFacts
  <1>6. a \in Seq(Byte) /\ b \in Seq(Byte)
    BY <1>1, CheckpointLists
  <1> HIDE DEF a, b, p, h, rooms, sessions
  <1> DEFINE m == Len(a)
             n == Len(b)
  <1>7. m \in Nat /\ n \in Nat /\ len \in Nat /\ len = h + m + n
    <2>1. m \in Nat /\ n \in Nat /\ len \in Nat
      BY <1>6
    <2>2. len = h + (m + n)
      BY <1>5
    <2> HIDE DEF m, n, len
    <2> QED BY <1>5, <2>1, <2>2
  <1>8. \A j \in 1 .. len : j > h => s[j] = d[j]
    BY DEF h
  <1> HIDE DEF m, n, len
  <1>9. At(s, h, a)
    <2>1. ASSUME NEW i \in 1 .. m PROVE s[h + i] = a[i]
      <3>1. h + i \in 1 .. len /\ h + i > h
        BY <1>5, <1>7
      <3>2. d[h + i] = a[i]
        BY <1>5 DEF At, m
      <3> QED BY <1>8, <3>1, <3>2
    <2>2. h + m <= len
      BY <1>5, <1>7
    <2> QED BY <2>1, <2>2 DEF At, m, len
  <1>10. At(s, h + m, b)
    <2>1. ASSUME NEW i \in 1 .. n PROVE s[h + m + i] = b[i]
      <3>1. h + m + i \in 1 .. len /\ h + m + i > h
        BY <1>5, <1>7
      <3>2. d[h + m + i] = b[i]
        BY <1>5 DEF At, m, n
      <3> QED BY <1>8, <3>1, <3>2
    <2>2. h + m + n <= len
      BY <1>5, <1>7
    <2> QED BY <2>1, <2>2 DEF At, n, len
  <1>11. q = h + m
    BY DEF RoomsEnd, h, m, a
  <1>12. At(s, q, b) /\ len = q + n
    <2> HIDE DEF q
    <2> QED BY <1>7, <1>10, <1>11
  <1> QED BY <1>1, <1>3, <1>4, <1>9, <1>12 DEF Filed, h, a, b, len, n, rooms, sessions

\* The keys are those of the rooms and of the sessions.
LEMMA SameKeys ==
    ASSUME NEW x, NEW y, x.rooms = y.rooms, x.sessions = y.sessions, ValidKeys(y)
    PROVE  ValidKeys(x)
  BY DEF ValidKeys

\* The end of a decoding that found the rooms and the sessions saved.
LEMMA Finished ==
    ASSUME NEW s, NEW cp, ValidKeys(cp), NEW g, NEW l
    PROVE  LET x == Found(g, cp.rooms, cp.sessions) IN
           Finish(s, x, ReaderAt(Len(s), l)) = Success(x)
  <1> DEFINE r == ReaderAt(Len(s), l)
             x == Found(g, cp.rooms, cp.sessions)
  <1>1. r.ok = TRUE /\ r.position = Len(s)
    BY ReaderFacts
  <1>2. x.rooms = cp.rooms /\ x.sessions = cp.sessions
    BY DEF Found
  <1> HIDE DEF r, x
  <1>3. ValidKeys(x)
    BY <1>2, SameKeys, Zenon
  <1>4. Finish(s, x, r) = Success(x)
    BY <1>1, <1>3, Zenon DEF Finish, Success
  <1> QED BY <1>4 DEF r, x

\* With the counts saved, the checkpoint saved is found, with the generation of
\* the header.
LEMMA CountsKept ==
    ASSUME NEW cp, NEW s \in Seq(Byte), Filed(s, cp.rooms, cp.sessions), ValidKeys(cp),
           NEW h, h[3] = Len(cp.rooms), h[4] = Len(cp.sessions)
    PROVE  DecodeRooms(s, h) = Success(Found(h[2], cp.rooms, cp.sessions))
  <1> DEFINE rooms == cp.rooms
             sessions == cp.sessions
             x == Found(h[2], rooms, sessions)
             z == DecodeSessions(s, h, ReaderAt(RoomsEnd(rooms), rooms))
  <1>1. Filed(s, rooms, sessions) /\ h[3] = Len(rooms) /\ h[4] = Len(sessions)
    OBVIOUS
  <1>2. Finish(s, x, ReaderAt(Len(s), sessions)) = Success(x)
    BY Finished
  <1> HIDE DEF rooms, sessions
  <1>3. DecodeRooms(s, h) = z
    BY <1>1, RoomsDecoded, Zenon
  <1>4. z = Finish(s, x, ReaderAt(Len(s), sessions))
    BY <1>1, SessionsDecoded
  <1> QED BY <1>2, <1>3, <1>4 DEF rooms, sessions

\* A file as it was written is decoded as the checkpoint saved.
LEMMA ReadBackFacts ==
    ASSUME NEW cp \in CheckpointType, EncodeCheckpoint(cp).state = "success",
           NEW d, d = EncodeCheckpoint(cp).data
    PROVE  DecodeCheckpoint(d) = [state |-> "success", checkpoint |-> cp]
  <1> DEFINE p == Payload(cp)
             h == HeaderOf(d)
             n == Len(Magic)
             va == cp.generation
             vb == Len(cp.rooms)
             vc == Len(cp.sessions)
             ve == Len(p)
             vf == Checksum(p)
             pa == n + W32
             pb == n + W32 + W64
             pk == n + W32 + W64 + W32
             pe == n + W32 + W64 + W32 + W32
             pf == n + W32 + W64 + W32 + W32 + W64
  <1>1. /\ d \in Seq(Byte) /\ p \in Seq(Byte) /\ HeaderSize \in Nat
        /\ Len(d) = HeaderSize + ve /\ Len(d) <= MaxFile
        /\ ve \in 0 .. Max64 /\ vf \in 0 .. Max64
        /\ SubSeq(d, HeaderSize + 1, Len(d)) = p
        /\ At(d, 0, Magic) /\ At(d, n, Bytes(Version, W32))
        /\ At(d, pa, Bytes(va, W64)) /\ At(d, pb, Bytes(vb, W32)) /\ At(d, pk, Bytes(vc, W32))
        /\ At(d, pe, Bytes(ve, W64)) /\ At(d, pf, Bytes(vf, W64))
    BY FileFacts
  <1>2. va # 0 /\ ~(vb > Max32) /\ ~(vc > Max32) /\ ValidKeys(cp)
    BY EncodeFacts, Zenon
  <1>3. /\ W32 \in Nat /\ W64 \in Nat /\ n \in Nat /\ Max32 = Power(W32) - 1
        /\ Max64 = Power(W64) - 1 /\ Magic \in Seq(Byte) /\ Version \in 0 .. Max32 /\ Max32 \in Nat
    BY WidthFacts, CheckpointAssumption
  <1>4. pa \in Nat /\ pb \in Nat /\ pk \in Nat /\ pe \in Nat /\ pf \in Nat
    BY <1>3
  <1>5. va \in 0 .. Max64 /\ vb \in 0 .. Max32 /\ vc \in 0 .. Max32
    <2>1. va \in 0 .. Max64 /\ cp.rooms \in Seq(RoomType) /\ cp.sessions \in Seq(SessionType)
      BY DEF CheckpointType
    <2>2. vb \in Nat /\ vc \in Nat
      BY <2>1
    <2> HIDE DEF vb, vc
    <2> QED BY <1>2, <1>3, <2>1, <2>2
  <1>6. /\ h[1] = Field(d, n, W32) /\ h[2] = Field(d, pa, W64) /\ h[3] = Field(d, pb, W32)
        /\ h[4] = Field(d, pk, W32) /\ h[5] = Field(d, pe, W64) /\ h[6] = Field(d, pf, W64)
    BY <1>1, HeaderFields DEF SixFields
  <1> HIDE DEF p, h, n, va, vb, vc, ve, vf, pa, pb, pk, pe, pf
  <1>7. Field(d, n, W32) = Version /\ Field(d, pb, W32) = vb /\ Field(d, pk, W32) = vc
    BY <1>1, <1>3, <1>4, <1>5, AtField
  <1>8. Field(d, pa, W64) = va /\ Field(d, pe, W64) = ve /\ Field(d, pf, W64) = vf
    BY <1>1, <1>3, <1>4, <1>5, AtField
  <1>9. SubSeq(d, 1, n) = Magic /\ ~(Len(d) < HeaderSize) /\ ~(Len(d) > MaxFile)
    <2>1. SubSeq(d, 1, n) = Magic
      <3> DEFINE o == 0
      <3>1. o \in Nat /\ At(d, o, Magic)
        BY <1>1
      <3> HIDE DEF o
      <3>2. SubSeq(d, o + 1, o + Len(Magic)) = Magic
        BY <1>1, <1>3, <3>1, AtPiece, SMTT(30)
      <3>3. o + 1 = 1 /\ o + n = n
        BY <1>3 DEF o
      <3> QED BY <3>2, <3>3 DEF n
    <2>2. ve \in Nat /\ MaxFile \in Nat /\ Len(d) \in Nat
      BY <1>1, WidthFacts, CheckpointAssumption
    <2> QED BY <1>1, <2>1, <2>2
  <1>10. DecodeCheckpoint(d) = DecodeRooms(d, h)
    <2>1. h[1] = Version /\ h[2] # 0 /\ h[5] = Len(p) /\ h[6] = Checksum(p)
      BY <1>2, <1>6, <1>7, <1>8 DEF ve, vf
    <2>2. DecodeCheckpoint(d) =
             IF Len(d) > MaxFile
             THEN [state |-> "too_large"]
             ELSE IF Len(d) < HeaderSize \/ SubSeq(d, 1, n) # Magic
             THEN [state |-> "malformed_data"]
             ELSE IF h[1] # Version
             THEN [state |-> "unsupported_version"]
             ELSE IF h[2] = 0
             THEN [state |-> "invalid_checkpoint"]
             ELSE IF h[5] # Len(p)
             THEN [state |-> "malformed_data"]
             ELSE IF h[6] # Checksum(p)
             THEN [state |-> "checksum_mismatch"]
             ELSE DecodeRooms(d, h)
      <3>1. p = SubSeq(d, HeaderSize + 1, Len(d))
        BY <1>1
      <3> QED BY <3>1, DecodeHeader, Zenon DEF h, n
    <2> QED BY <1>9, <2>1, <2>2, Zenon
  <1>11. Filed(d, cp.rooms, cp.sessions)
    <2>1. \A j \in 1 .. Len(d) : j > HeaderSize => d[j] = d[j]
      OBVIOUS
    <2> QED BY <1>1, <2>1, FileFiled
  <1>12. cp = Found(h[2], cp.rooms, cp.sessions)
    <2>1. cp = Found(va, cp.rooms, cp.sessions)
      BY DEF CheckpointType, va, Found
    <2> QED BY <1>6, <1>8, <2>1
  <1>13. h[3] = Len(cp.rooms) /\ h[4] = Len(cp.sessions)
    BY <1>6, <1>7 DEF vb, vc
  <1>14. DecodeRooms(d, h) = Success(Found(h[2], cp.rooms, cp.sessions))
    <2>1. d \in Seq(Byte) /\ ValidKeys(cp)
      BY <1>1, <1>2
    <2> QED BY <1>11, <1>13, <2>1, CountsKept
  <1> QED BY <1>10, <1>12, <1>14 DEF Success

\* What is read of a file whose storage has not damaged it.
LEMMA ReadBackInv == FileInv => ReadsBack
  <1> SUFFICES ASSUME FileInv, file.damage = "none"
               PROVE  DecodeCheckpoint(file.data) = [state |-> "success", checkpoint |-> file.checkpoint]
    BY Zenon DEF ReadsBack, Decoded
  <1> DEFINE s == file.data
             cp == file.checkpoint
             d == EncodeCheckpoint(cp).data
  <1>1. /\ cp \in CheckpointType /\ EncodeCheckpoint(cp).state = "success"
        /\ Damaged(d, s, "none")
    BY CodecsAssumption DEF FileInv, NoFile
  <1>2. s = d
    BY <1>1 DEF Damaged
  <1>3. d = EncodeCheckpoint(cp).data
    OBVIOUS
  <1> HIDE DEF s, cp, d
  <1>4. DecodeCheckpoint(d) = [state |-> "success", checkpoint |-> cp]
    BY <1>1, <1>3, ReadBackFacts
  <1> QED BY <1>2, <1>4 DEF s, cp

(***************************************************************************)
(* Every checkpoint that encode (checkpoint_codec.cpp:266) accepts is read *)
(* back as it was saved: decode follows the layout to the last byte, and   *)
(* none of its limits on counts and sizes refuses what encode writes.  For *)
(* rooms, members, states and sessions of any number the widths allow.     *)
(***************************************************************************)
THEOREM ReadBackTheorem == Spec => []ReadsBack
  <1>1. Init => FileInv
    BY DEF Init, FileInv
  <1> QED BY <1>1, FileNextInv, ReadBackInv, PTL DEF Spec

-----------------------------------------------------------------------------
(* A file whose counts are changed. *)

\* A decoding that succeeds has read everything, and found valid keys.
LEMMA FinishFacts ==
    ASSUME NEW s, NEW x, NEW f, Finish(s, x, f).state = "success"
    PROVE  f.ok /\ f.position = Len(s) /\ ValidKeys(x) /\ Finish(s, x, f) = Success(x)
  <1> DEFINE bad1 == [state |-> "malformed_data"]
             bad2 == [state |-> "invalid_checkpoint"]
             y == Finish(s, x, f)
  <1>1. y = IF ~f.ok \/ f.position # Len(s) THEN bad1 ELSE IF ~ValidKeys(x) THEN bad2 ELSE Success(x)
    BY Zenon DEF Finish, Success
  <1>2. bad1.state # "success" /\ bad2.state # "success"
    OBVIOUS
  <1> HIDE DEF bad1, bad2, y
  <1>3. y # bad1 /\ y # bad2
    BY <1>2 DEF y
  <1>4. f.ok /\ f.position = Len(s) /\ ValidKeys(x) /\ y = Success(x)
    BY <1>1, <1>3, Zenon
  <1> QED BY <1>4 DEF y

\* What the sessions of a decoding that succeeds are.
LEMMA SessionsDecode ==
    ASSUME NEW s, NEW h, NEW o, DecodeSessions(s, h, o).state = "success"
    PROVE  LET f == SessionsRead(s, h[4], Reader(o.position)) IN
           /\ o.ok /\ f.ok /\ f.position = Len(s) /\ ValidKeys(Found(h[2], o.records, f.records))
           /\ DecodeSessions(s, h, o) = Success(Found(h[2], o.records, f.records))
  <1> DEFINE bad == [state |-> "malformed_data"]
             f == SessionsRead(s, h[4], Reader(o.position))
             x == Found(h[2], o.records, f.records)
             y == DecodeSessions(s, h, o)
  <1>1. y = IF ~o.ok \/ h[4] > Remaining(s, o) \div MinSessionSize THEN bad ELSE Finish(s, x, f)
    BY SessionsReader, Zenon DEF Found
  <1>2. bad.state # "success"
    OBVIOUS
  <1> HIDE DEF bad, y
  <1>3. y # bad
    BY <1>2 DEF y
  <1>4. o.ok /\ y = Finish(s, x, f)
    BY <1>1, <1>3, Zenon
  <1> HIDE DEF x, f
  <1>5. f.ok /\ f.position = Len(s) /\ ValidKeys(x) /\ Finish(s, x, f) = Success(x)
    <2>1. Finish(s, x, f).state = "success"
      BY <1>4 DEF y
    <2> QED BY <2>1, FinishFacts
  <1> QED BY <1>4, <1>5 DEF x, f, y

\* What the rooms of a decoding that succeeds are.
LEMMA RoomsDecode ==
    ASSUME NEW s, NEW h, DecodeRooms(s, h).state = "success"
    PROVE  DecodeRooms(s, h) = DecodeSessions(s, h, RoomsRead(s, h[3], Reader(HeaderSize)))
  <1> DEFINE bad == [state |-> "malformed_data"]
             y == DecodeRooms(s, h)
  <1>1. y = IF h[3] > Remaining(s, Reader(HeaderSize)) \div MinRoomSize THEN bad
            ELSE DecodeSessions(s, h, RoomsRead(s, h[3], Reader(HeaderSize)))
    BY RoomsReader, Zenon
  <1>2. bad.state # "success"
    OBVIOUS
  <1> HIDE DEF bad, y
  <1>3. y # bad
    BY <1>2 DEF y
  <1> QED BY <1>1, <1>3, Zenon DEF y

\* No session is read at the end of the file.
LEMMA NoSessionAtEnd ==
    ASSUME NEW s \in Seq(Byte), NEW l
    PROVE  ReadSession(s, ReaderAt(Len(s), l)) = Failed(ReaderAt(Len(s), l))
  <1> DEFINE r == ReaderAt(Len(s), l)
  <1>1. Remaining(s, r) < W32
    <2>1. r.position = Len(s)
      BY ReaderFacts
    <2>2. Len(s) \in Nat
      OBVIOUS
    <2> QED BY <2>1, <2>2, WidthFacts DEF Remaining
  <1> HIDE DEF r
  <1>2. ReadSession(s, r) = Failed(r)
    BY <1>1, Zenon DEF ReadSession
  <1> QED BY <1>2 DEF r

\* Another count of sessions is refused: there are too few of them, or bytes are
\* left over.
LEMMA SessionsMiscounted ==
    ASSUME NEW s \in Seq(Byte), NEW rooms, NEW sessions, Filed(s, rooms, sessions),
           NEW h, h[4] \in Nat, h[4] # Len(sessions)
    PROVE  DecodeSessions(s, h, ReaderAt(RoomsEnd(rooms), rooms)).state # "success"
  <1> SUFFICES ASSUME DecodeSessions(s, h, ReaderAt(RoomsEnd(rooms), rooms)).state = "success"
               PROVE  FALSE
    OBVIOUS
  <1> DEFINE o == RoomsEnd(rooms)
             c == Concat(CheckpointSessions(sessions))
             n == Len(sessions)
             m == h[4]
             r == ReaderAt(o, rooms)
             f == SessionsRead(s, m, Reader(o))
  <1>1. /\ sessions \in Seq(SessionType) /\ \A i \in 1 .. Len(sessions) : ValidToken(sessions[i].token)
        /\ At(s, o, c) /\ Len(s) = o + Len(c)
    BY DEF Filed
  <1>2. /\ o \in Nat /\ n \in Nat /\ SessionSize \in Nat /\ SessionSize > 0 /\ Len(s) \in Nat
    <2>1. /\ o \in Nat /\ n \in Nat /\ SessionSize \in Nat /\ SessionSize >= MinSessionSize
          /\ MinSessionSize \in Nat /\ MinSessionSize > 0 /\ Len(s) \in Nat
      BY FiledSizes
    <2> QED BY <2>1
  <1>3. PICK p \in [0 .. n -> Nat] : SessionsPlaced(s, o, sessions, p)
    <2> HIDE DEF o
    <2> QED BY <1>1, <1>2, SessionsPositions
  <1>4. /\ p[0] = o /\ p[n] = Len(s) /\ SessionsAlong(s, sessions, p)
        /\ \A i \in 1 .. n : p[i] = p[i - 1] + SessionSize
    BY <1>1, <1>3 DEF SessionsPlaced
  <1>5. f.ok /\ f.position = Len(s)
    <2>1. r.position = o
      BY ReaderFacts
    <2> DEFINE g == SessionsRead(s, h[4], Reader(r.position))
    <2>2. g.ok /\ g.position = Len(s)
      <3> HIDE DEF r
      <3>1. DecodeSessions(s, h, r).state = "success"
        BY DEF r
      <3> QED BY <3>1, SessionsDecode
    <2> QED BY <2>1, <2>2
  <1>6. CASE m > n
    <2>1. ReadSession(s, ReaderAt(p[n], sessions)) = Failed(ReaderAt(p[n], sessions))
      BY <1>4, NoSessionAtEnd
    <2>2. ~SessionsRead(s, m, Reader(p[0])).ok
      <3>1. /\ sessions \in Seq(SessionType) /\ SessionsAlong(s, sessions, p)
            /\ m \in Nat /\ m > Len(sessions)
            /\ ReadSession(s, ReaderAt(p[Len(sessions)], sessions))
                 = Failed(ReaderAt(p[Len(sessions)], sessions))
        BY <1>1, <1>4, <1>6, <2>1
      <3> HIDE DEF m
      <3> QED BY <3>1, SessionsBeyond, Zenon
    <2> QED BY <1>4, <1>5, <2>2
  <1>7. CASE m < n
    <2>1. m \in 0 .. n
      BY <1>2, <1>7
    <2>2. SessionsRead(s, m, Reader(p[0])) = ReaderAt(p[m], SubSeq(sessions, 1, m))
      <3>1. sessions \in Seq(SessionType) /\ SessionsAlong(s, sessions, p) /\ m \in 0 .. Len(sessions)
        BY <1>1, <1>4, <2>1
      <3> HIDE DEF m
      <3> QED BY <3>1, SessionsPrefix, Zenon
    <2>3. p[m] = Len(s)
      BY <1>4, <1>5, <2>2, ReaderFacts
    <2> HIDE DEF m, n
    <2>4. p[n] >= p[m] + (n - m) * SessionSize
      <3>1. \A i \in 1 .. n : p[i] >= p[i - 1] + SessionSize
        <4> SUFFICES ASSUME NEW i \in 1 .. n PROVE p[i] >= p[i - 1] + SessionSize
          OBVIOUS
        <4>1. i \in 0 .. n /\ i - 1 \in 0 .. n
          BY <1>2
        <4>2. p[i] \in Nat /\ p[i - 1] \in Nat
          BY <4>1
        <4> QED BY <1>2, <1>4, <4>2
      <3> QED BY <1>2, <2>1, <3>1, PositionsGrow
    <2>5. (n - m) * SessionSize >= SessionSize
      <3> DEFINE k == n - m - 1
      <3>1. k \in Nat /\ n - m = k + 1
        BY <1>2, <1>7, <2>1
      <3> HIDE DEF k
      <3>2. (k + 1) * SessionSize = k * SessionSize + SessionSize /\ k * SessionSize \in Nat
        BY <1>2, <3>1
      <3> QED BY <1>2, <3>1, <3>2
    <2> DEFINE e == (n - m) * SessionSize
               len == Len(s)
    <2>6. len >= len + e /\ e >= SessionSize /\ e \in Int /\ len \in Nat
      BY <1>2, <1>4, <2>1, <2>3, <2>4, <2>5
    <2> HIDE DEF e, len
    <2> QED BY <1>2, <2>6
  <1>8. m # n /\ m \in Nat
    OBVIOUS
  <1> HIDE DEF m, n
  <1> QED BY <1>2, <1>6, <1>7, <1>8

\* Where the token of a session is.
LEMMA TokenPlace ==
    ASSUME NEW s \in Seq(Byte), NEW o \in Nat, NEW e \in SessionType, At(s, o, EncodedSession(e))
    PROVE  At(s, o + W32, e.token)
  <1> DEFINE n == Len(e.token)
             t == e.token
             a == Bytes(n, W32)
             c == Bytes(e.room_id, W32)
             d == Bytes(e.player_id, W64)
             x == Pair(a, t)
             y == Pair(x, c)
  <1>1. /\ t \in Seq(Byte) /\ e.room_id \in Nat /\ e.player_id \in Nat /\ n \in Nat
    <2>1. t \in Seq(Byte) /\ e.room_id \in 0 .. Max32 /\ e.player_id \in 0 .. Max64
      BY SessionBytes
    <2> QED BY <2>1, WidthTypes
  <1>2. /\ a \in Seq(Byte) /\ Len(a) = W32 /\ c \in Seq(Byte) /\ d \in Seq(Byte)
    BY <1>1, NumberBytes
  <1>3. At(s, o, Pair(y, d))
    BY RecordBytes
  <1> HIDE DEF a, c, d, t
  <1>4. x \in Seq(Byte)
    BY <1>1, <1>2, PairFacts
  <1> HIDE DEF x
  <1>5. y \in Seq(Byte)
    BY <1>2, <1>4, PairFacts
  <1> HIDE DEF y
  <1>6. At(s, o, y)
    BY <1>2, <1>3, <1>5, PairFacts
  <1>7. At(s, o, Pair(x, c))
    BY <1>6 DEF y
  <1>8. At(s, o, x)
    BY <1>2, <1>4, <1>7, PairFacts
  <1>9. At(s, o, Pair(a, t))
    BY <1>8 DEF x
  <1>10. At(s, o + Len(a), t)
    BY <1>1, <1>2, <1>9, PairFacts
  <1> QED BY <1>2, <1>10 DEF t

\* A token is longer than the two numbers that lie before the state of a room,
\* and its digits are not states: 32 characters from '0' on in the code.
TokensAreNoRooms ==
    TokenSize > 2 * W64 /\ \A byte \in HexBytes : byte >= Len(States)

\* No room is read after the last: where its state would be, a token has a digit.
LEMMA NoRoomAfterLast ==
    ASSUME TokensAreNoRooms,
           NEW s \in Seq(Byte), NEW rooms, NEW sessions, Filed(s, rooms, sessions), NEW q
    PROVE  ReadRoom(s, ReaderAt(RoomsEnd(rooms), q)) = Failed(ReaderAt(RoomsEnd(rooms), q))
  <1> DEFINE o == RoomsEnd(rooms)
             c == Concat(CheckpointSessions(sessions))
             n == Len(sessions)
             x == ReaderAt(o, q)
             f == Fixed(s, o, <<W32, W64, W64, 1, W64, W32>>)
             p == o + W32 + W64 + W64
  <1>1. /\ sessions \in Seq(SessionType) /\ \A i \in 1 .. Len(sessions) : ValidToken(sessions[i].token)
        /\ At(s, o, c) /\ Len(s) = o + Len(c)
    BY DEF Filed
  <1>2. /\ o \in Nat /\ n \in Nat /\ SessionSize \in Nat /\ Len(s) \in Nat
        /\ Len(s) = o + n * SessionSize /\ MinRoomSize \in Nat /\ MinRoomSize > 0
    BY FiledSizes
  <1>3. x.position = o
    BY ReaderFacts
  <1>4. W32 \in Nat /\ W64 \in Nat /\ TokenSize \in Nat /\ TokenSize > W64 + W64
    BY WidthFacts, CheckpointAssumption DEF TokensAreNoRooms
  <1>5. n > 0 => f[4] + 1 \notin DOMAIN States
    <2> SUFFICES ASSUME n > 0 PROVE f[4] + 1 \notin DOMAIN States
      OBVIOUS
    <2> DEFINE e == sessions[1]
               t == e.token
               k == W64 + W64 + 1
               v == t[k]
    <2>1. e \in SessionType /\ ValidToken(t) /\ 1 \in 1 .. n
      BY <1>1, <1>2
    <2>2. At(s, o, EncodedSession(e))
      <3>1. PICK g \in [0 .. n -> Nat] : SessionsPlaced(s, o, sessions, g)
        <4> HIDE DEF o
        <4> QED BY <1>1, <1>2, SessionsPositions
      <3>2. g[0] = o /\ \A i \in 1 .. n : At(s, g[i - 1], EncodedSession(sessions[i]))
        BY <3>1 DEF SessionsPlaced
      <3>3. At(s, g[1 - 1], EncodedSession(sessions[1]))
        BY <2>1, <3>2
      <3> QED BY <3>2, <3>3
    <2>3. At(s, o + W32, t)
      <3> HIDE DEF o, e
      <3> QED BY <1>2, <2>1, <2>2, TokenPlace
    <2>4. t \in Seq(Byte) /\ Len(t) = TokenSize /\ \A i \in DOMAIN t : t[i] \in HexBytes
      <3>1. t \in Seq(Byte)
        BY <2>1, SessionBytes
      <3> QED BY <2>1, <3>1, Zenon DEF ValidToken
    <2> HIDE DEF t
    <2>5. k \in 1 .. Len(t) /\ k \in DOMAIN t /\ v \in HexBytes /\ v \in Byte
      <3>1. k \in 1 .. TokenSize
        BY <1>4
      <3>2. DOMAIN t = 1 .. Len(t)
        BY <2>4
      <3> HIDE DEF k
      <3> QED BY <2>4, <3>1, <3>2
    <2>6. o + W32 + Len(t) <= Len(s) /\ s[o + W32 + k] = v
      BY <2>3, <2>5 DEF At
    <2>7. p \in Nat /\ o + W32 + k = p + 1 /\ p + 1 <= Len(s)
      <3> DEFINE len == Len(s)
                 m == Len(t)
      <3>1. len \in Nat /\ m = TokenSize /\ o + W32 + m <= len
        BY <1>2, <2>4, <2>6
      <3> HIDE DEF len, m, o
      <3>2. p \in Nat /\ o + W32 + k = p + 1 /\ p + 1 <= len
        BY <1>2, <1>4, <3>1
      <3> QED BY <3>2 DEF len
    <2> HIDE DEF v, p, k
    <2>8. At(s, p, Bytes(v, 1)) /\ v \in 0 .. Power(1) - 1
      <3> DEFINE b == <<v>>
      <3>1. Len(b) = 1 /\ b[1] = v
        OBVIOUS
      <3>2. s[p + 1] = v
        BY <2>6, <2>7
      <3>3. At(s, p, b)
        <4> HIDE DEF b
        <4>1. \A i \in 1 .. Len(b) : i = 1
          BY <3>1
        <4> QED BY <2>7, <3>1, <3>2, <4>1 DEF At
      <3> QED BY <2>5, <3>3, OneByte
    <2>9. Field(s, p, 1) = v
      <3> DEFINE w == 1
      <3>1. w \in Nat /\ At(s, p, Bytes(v, w)) /\ v \in 0 .. Power(w) - 1
        BY <2>8
      <3> HIDE DEF w
      <3>2. Field(s, p, w) = v
        BY <2>7, <3>1, AtField
      <3> QED BY <3>2 DEF w
    <2>10. f[4] = Field(s, p, 1)
      <3> DEFINE b == 1
                 g == Fixed(s, o, <<W32, W64, W64, b, W64, W32>>)
      <3>1. b \in Nat
        OBVIOUS
      <3> HIDE DEF b, o
      <3>2. SixFields(g, s, o, W32, W64, W64, b, W64, W32)
        BY <1>2, <1>4, <3>1, RowOfSix
      <3> QED BY <3>2 DEF b, SixFields, p
    <2>11. v >= 3 /\ v \in Nat
      BY <2>5, ByteType DEF TokensAreNoRooms, States
    <2>12. DOMAIN States = 1 .. 3
      BY DEF States
    <2> HIDE DEF f
    <2> QED BY <2>9, <2>10, <2>11, <2>12
  <1>6. n = 0 => Remaining(s, x) < MinRoomSize
    <2> DEFINE len == Len(s)
    <2>1. n = 0 => len = o
      BY <1>2
    <2>2. Remaining(s, x) = len - o /\ len \in Nat
      BY <1>2, <1>3 DEF Remaining
    <2> HIDE DEF len, o, n
    <2> QED BY <1>2, <2>1, <2>2
  <1> HIDE DEF f, x, o
  <1>7. ReadRoom(s, x) =
           IF \/ Remaining(s, x) < MinRoomSize
              \/ f[4] + 1 \notin DOMAIN States
              \/ f[6] > (Remaining(s, Reader(o + MinRoomSize - W32)) - W32) \div MinMemberSize
           THEN Failed(x)
           ELSE AddRoom(x, f, MembersRead(s, f[6], Reader(o + MinRoomSize - W32)),
                        ReadGameStates(s, MembersRead(s, f[6], Reader(o + MinRoomSize - W32))))
    BY <1>3, RoomReader, Zenon DEF f
  <1>8. n = 0 \/ n > 0
    <2> HIDE DEF n
    <2> QED BY <1>2
  <1>9. ReadRoom(s, x) = Failed(x)
    <2> HIDE DEF n
    <2> QED BY <1>5, <1>6, <1>7, <1>8, Zenon
  <1> QED BY <1>9 DEF x, o

\* Reading sessions one after the other goes on, whatever the bytes.
LEMMA SessionsPathExists ==
    ASSUME NEW s, NEW n \in Nat, NEW r
    PROVE  \E g : SessionsPath(s, n, r, g)
  <1> DEFINE T == {k \in 0 .. n : \E g : SessionsPath(s, k, r, g)}
  <1>1. 0 \in T
    <2> DEFINE g == [i \in 0 .. 0 |-> r]
    <2>1. g = [i \in 0 .. 0 |-> g[i]] /\ g[0] = r
      OBVIOUS
    <2> HIDE DEF g
    <2>2. SessionsPath(s, 0, r, g)
      BY <2>1 DEF SessionsPath
    <2> QED BY <2>2
  <1>2. ASSUME NEW k \in 0 .. n - 1, k \in T PROVE k + 1 \in T
    <2>1. PICK g : SessionsPath(s, k, r, g)
      BY <1>2
    <2> DEFINE m == k + 1
               f == [i \in 0 .. m |-> IF i <= k THEN g[i] ELSE SessionsStep(s, g[k])]
    <2>2. m \in 0 .. n /\ k \in Nat /\ 0 \in 0 .. m /\ 0 <= k /\ ~(m <= k) /\ m \in 0 .. m
          /\ k \in 0 .. m /\ k <= k
      OBVIOUS
    <2>3. f = [i \in 0 .. m |-> f[i]]
      BY Zenon
    <2>4. \A i \in 0 .. m : f[i] = IF i <= k THEN g[i] ELSE SessionsStep(s, g[k])
      BY Zenon
    <2> HIDE DEF f
    <2>5. g[0] = r /\ \A i \in 1 .. k : g[i] = SessionsStep(s, g[i - 1])
      BY <2>1, Zenon DEF SessionsPath
    <2>6. f[0] = r
      BY <2>2, <2>4, <2>5, Zenon
    <2>7. ASSUME NEW i \in 1 .. m PROVE f[i] = SessionsStep(s, f[i - 1])
      <3>1. CASE i <= k
        <4>1. i \in 0 .. m /\ i - 1 \in 0 .. m /\ i - 1 <= k /\ i \in 1 .. k
          BY <2>2, <3>1
        <4>2. f[i] = g[i] /\ f[i - 1] = g[i - 1]
          BY <2>4, <3>1, <4>1, Zenon
        <4>3. g[i] = SessionsStep(s, g[i - 1])
          BY <2>5, <4>1
        <4> QED BY <4>2, <4>3, Zenon
      <3>2. CASE ~(i <= k)
        <4>1. i = m /\ i - 1 = k
          BY <2>2, <3>2
        <4>2. f[m] = SessionsStep(s, g[k]) /\ f[k] = g[k]
          BY <2>2, <2>4, Zenon
        <4> QED BY <4>1, <4>2
      <3> QED BY <3>1, <3>2
    <2>8. SessionsPath(s, m, r, f)
      BY <2>3, <2>6, <2>7, Zenon DEF SessionsPath
    <2> QED BY <2>2, <2>8
  <1>3. \A k \in 0 .. n : k \in T
    <2> HIDE DEF T
    <2> QED BY <1>1, <1>2, UpTo
  <1>4. n \in T
    BY <1>3
  <1> QED BY <1>4

\* A field that lies in the bytes is a number.
LEMMA FieldType ==
    ASSUME NEW s \in Seq(Byte), NEW o \in Nat, NEW w \in Nat, o + w <= Len(s)
    PROVE  Field(s, o, w) \in Nat
  <1> DEFINE len == Len(s)
             a == SubSeq(s, o + 1, o + w)
  <1>1. len \in Nat /\ o + 1 \in 1 .. len + 1 /\ o + w \in 0 .. len /\ o + 1 <= o + w + 1
    OBVIOUS
  <1>2. a \in Seq(Byte)
    BY <1>1, PieceFacts
  <1> HIDE DEF a
  <1>3. Value(a) \in Nat
    <2>1. Value(a) \in 0 .. Power(Len(a)) - 1
      BY <1>2, BytesOfValue
    <2> DEFINE b == Power(Len(a))
    <2>2. Len(a) \in Nat
      BY <1>2
    <2>3. b \in Nat
      BY <2>2, PowerLaws
    <2> HIDE DEF b
    <2> QED BY <2>1, <2>3 DEF b
  <1> QED BY <1>3 DEF Field, a

\* A session as any bytes may read.
AnySession == [token : Seq(Byte), room_id : Nat, player_id : Nat]

\* A session that is read takes its own size.
LEMMA SessionTaken ==
    ASSUME NEW s \in Seq(Byte), NEW o \in Nat, NEW l, ReadSession(s, ReaderAt(o, l)).ok
    PROVE  \E e \in AnySession :
             ReadSession(s, ReaderAt(o, l)) = ReaderAt(o + (W32 + Len(e.token) + W32 + W64), Append(l, e))
  <1> DEFINE r == ReaderAt(o, l)
             size == Field(s, o, W32)
             start == o + W32
             f == Fixed(s, start + size, <<W32, W64>>)
             e == [token |-> SubSeq(s, start + 1, start + size), room_id |-> f[1],
                   player_id |-> f[2]]
             p == start + size + W32 + W64
             len == Len(s)
  <1>1. r.position = o /\ ~Failed(r).ok
    BY ReaderFacts
  <1> HIDE DEF r, f
  <1>2. ReadSession(s, r) =
          IF Remaining(s, r) < W32 \/ Len(s) - start < size + W32 + W64
          THEN Failed(r) ELSE Advanced(r, p, e)
    BY <1>1, Zenon DEF ReadSession, Advanced, f
  <1>3. ReadSession(s, r).ok
    BY DEF r
  <1>4. ~(Remaining(s, r) < W32) /\ ~(Len(s) - start < size + W32 + W64)
        /\ ReadSession(s, r) = Advanced(r, p, e)
    BY <1>1, <1>2, <1>3, Zenon
  <1>5. W32 \in Nat /\ W64 \in Nat /\ len \in Nat /\ start \in Nat /\ start <= len
    <2>1. W32 \in Nat /\ W64 \in Nat /\ len \in Nat
      BY WidthFacts
    <2>2. Remaining(s, r) = len - o
      BY <1>1 DEF Remaining
    <2> HIDE DEF len
    <2> QED BY <1>4, <2>1, <2>2
  <1>6. size \in Nat
    BY <1>5, FieldType
  <1> HIDE DEF size
  <1>7. start + size + W32 + W64 <= len
    <2>1. ~(len - start < size + W32 + W64)
      BY <1>4
    <2> HIDE DEF start, len
    <2> QED BY <1>5, <1>6, <2>1
  <1> HIDE DEF start
  <1> DEFINE t == SubSeq(s, start + 1, start + size)
  <1>8. t \in Seq(Byte) /\ Len(t) = size
    <2> HIDE DEF len
    <2>1. start + 1 \in 1 .. len + 1 /\ start + size \in 0 .. len /\ start + 1 <= start + size + 1
          /\ (start + size) + 1 - (start + 1) = size
      BY <1>5, <1>6, <1>7
    <2>2. t \in Seq(Byte) /\ Len(t) = (start + size) + 1 - (start + 1)
      BY <2>1, PieceFacts DEF len
    <2> QED BY <2>1, <2>2
  <1>9. f[1] \in Nat /\ f[2] \in Nat
    <2> DEFINE b == start + size
    <2>1. b \in Nat /\ b + W32 \in Nat /\ b + W32 <= Len(s) /\ b + W32 + W64 <= Len(s)
      <3> HIDE DEF len
      <3>1. b \in Nat /\ b + W32 \in Nat /\ b + W32 <= len /\ b + W32 + W64 <= len
        BY <1>5, <1>6, <1>7
      <3> QED BY <3>1 DEF len
    <2>2. f = Fixed(s, b, <<W32, W64>>)
      BY DEF f
    <2> HIDE DEF b
    <2>3. f[1] = Field(s, b, W32) /\ f[2] = Field(s, b + W32, W64)
      BY <2>1, <2>2, SessionRow
    <2>4. Field(s, b, W32) \in Nat
      BY <1>5, <2>1, FieldType
    <2>5. Field(s, b + W32, W64) \in Nat
      <3> DEFINE c == b + W32
      <3>1. c \in Nat /\ c + W64 <= Len(s)
        BY <2>1
      <3> HIDE DEF c
      <3>2. Field(s, c, W64) \in Nat
        BY <1>5, <3>1, FieldType
      <3> QED BY <3>2 DEF c
    <2> QED BY <2>3, <2>4, <2>5
  <1> HIDE DEF t
  <1>10. e = [token |-> t, room_id |-> f[1], player_id |-> f[2]]
    BY DEF t
  <1> HIDE DEF e
  <1>11. e \in AnySession /\ Len(e.token) = size
    BY <1>8, <1>9, <1>10 DEF AnySession
  <1>12. p = o + (W32 + Len(e.token) + W32 + W64)
    <2>1. p = o + (W32 + size + W32 + W64)
      BY <1>5, <1>6 DEF start
    <2> QED BY <1>11, <2>1
  <1> HIDE DEF p
  <1>13. Advanced(ReaderAt(o, l), p, e) = ReaderAt(p, Append(l, e))
    BY Advance
  <1>14. ReadSession(s, ReaderAt(o, l)) = ReaderAt(p, Append(l, e))
    BY <1>4, <1>13 DEF r
  <1> QED BY <1>11, <1>12, <1>14

\* A reader that started at o and has read k sessions: when all their tokens
\* have the size of a token, they took the size of k sessions.
TokensSized(l) == \A i \in 1 .. Len(l) : Len(l[i].token) = TokenSize
Taken(r, o, k) ==
    r.ok => \E p \in Nat : \E l \in Seq(AnySession) :
              r = ReaderAt(p, l) /\ Len(l) = k /\ (TokensSized(l) => p = o + k * SessionSize)

\* One session more keeps it so.
LEMMA TakenStep ==
    ASSUME NEW s \in Seq(Byte), NEW o \in Nat, NEW k \in Nat, NEW r, Taken(r, o, k)
    PROVE  Taken(SessionsStep(s, r), o, k + 1)
  <1> SUFFICES ASSUME SessionsStep(s, r).ok
               PROVE  \E p \in Nat : \E l \in Seq(AnySession) :
                        /\ SessionsStep(s, r) = ReaderAt(p, l) /\ Len(l) = k + 1
                        /\ TokensSized(l) => p = o + (k + 1) * SessionSize
    BY Zenon DEF Taken
  <1>1. r.ok /\ SessionsStep(s, r) = ReadSession(s, r)
    BY Zenon DEF SessionsStep
  <1>2. PICK p \in Nat : \E l \in Seq(AnySession) :
              r = ReaderAt(p, l) /\ Len(l) = k /\ (TokensSized(l) => p = o + k * SessionSize)
    BY <1>1, Zenon DEF Taken
  <1>3. PICK l \in Seq(AnySession) :
              r = ReaderAt(p, l) /\ Len(l) = k /\ (TokensSized(l) => p = o + k * SessionSize)
    BY <1>2
  <1>4. ReadSession(s, ReaderAt(p, l)).ok
    BY <1>1, <1>3
  <1>5. PICK e \in AnySession :
             ReadSession(s, ReaderAt(p, l)) = ReaderAt(p + (W32 + Len(e.token) + W32 + W64), Append(l, e))
    BY <1>4, SessionTaken
  <1> DEFINE y == Append(l, e)
             m == Len(e.token)
             q == p + (W32 + m + W32 + W64)
  <1>6. m \in Nat /\ W32 \in Nat /\ W64 \in Nat /\ q \in Nat /\ SessionSize \in Nat
    <2>1. e.token \in Seq(Byte)
      BY DEF AnySession
    <2>2. m \in Nat
      BY <2>1
    <2> HIDE DEF m
    <2> QED BY <2>2, WidthFacts, CheckpointAssumption DEF SessionSize
  <1>7. /\ y \in Seq(AnySession) /\ Len(y) = k + 1 /\ y[k + 1] = e
        /\ \A i \in 1 .. k : y[i] = l[i]
    BY <1>3
  <1> HIDE DEF y
  <1>8. TokensSized(y) => q = o + (k + 1) * SessionSize
    <2> SUFFICES ASSUME TokensSized(y) PROVE q = o + (k + 1) * SessionSize
      OBVIOUS
    <2>1. m = TokenSize
      <3>1. k + 1 \in 1 .. Len(y)
        BY <1>7
      <3>2. Len(y[k + 1].token) = TokenSize
        BY <3>1 DEF TokensSized
      <3> QED BY <1>7, <3>2
    <2>2. TokensSized(l)
      <3> SUFFICES ASSUME NEW i \in 1 .. Len(l) PROVE Len(l[i].token) = TokenSize
        BY DEF TokensSized
      <3>1. i \in 1 .. Len(y) /\ i \in 1 .. k
        BY <1>3, <1>7
      <3>2. Len(y[i].token) = TokenSize
        BY <3>1 DEF TokensSized
      <3> QED BY <1>7, <3>1, <3>2
    <2>3. p = o + k * SessionSize
      BY <1>3, <2>2
    <2>4. (k + 1) * SessionSize = k * SessionSize + SessionSize /\ k * SessionSize \in Nat
      BY <1>6
    <2>5. q = p + SessionSize
      BY <2>1 DEF SessionSize
    <2> DEFINE a == k * SessionSize
               b == (k + 1) * SessionSize
    <2>6. b = a + SessionSize /\ a \in Nat /\ p = o + a
      BY <2>3, <2>4
    <2> HIDE DEF a, b, q
    <2>7. q = o + b
      BY <1>6, <2>5, <2>6
    <2> QED BY <2>7 DEF b
  <1>9. SessionsStep(s, r) = ReaderAt(q, y)
    BY <1>1, <1>3, <1>5 DEF y
  <1> HIDE DEF q
  <1> QED BY <1>6, <1>7, <1>8, <1>9

\* Sessions with tokens of the size of a token take as many bytes as they should.
LEMMA SessionsTaken ==
    ASSUME NEW s \in Seq(Byte), NEW o \in Nat, NEW n \in Nat, NEW f,
           f = SessionsRead(s, n, Reader(o)), f.ok,
           \A i \in DOMAIN f.records : ValidToken(f.records[i].token)
    PROVE  f.position = o + n * SessionSize
  <1> DEFINE r == Reader(o)
  <1>1. PICK g : SessionsPath(s, n, r, g)
    BY SessionsPathExists
  <1>2. f = g[n]
    BY <1>1, SessionsRepeat, Zenon
  <1>3. g[0] = r /\ \A i \in 1 .. n : g[i] = SessionsStep(s, g[i - 1])
    BY <1>1, Zenon DEF SessionsPath
  <1> DEFINE T == {k \in 0 .. n : Taken(g[k], o, k)}
  <1>4. 0 \in T
    <2> DEFINE l == <<>>
    <2>1. g[0] = ReaderAt(o, l)
      BY <1>3, ReaderFacts
    <2>2. l \in Seq(AnySession) /\ Len(l) = 0
      OBVIOUS
    <2>3. o = o + 0 * SessionSize
      <3>1. SessionSize \in Nat
        BY WidthFacts, CheckpointAssumption DEF SessionSize
      <3> QED BY <3>1
    <2> HIDE DEF l
    <2>4. Taken(g[0], o, 0)
      BY <2>1, <2>2, <2>3, Zenon DEF Taken
    <2> QED BY <2>4
  <1>5. ASSUME NEW k \in 0 .. n - 1, k \in T PROVE k + 1 \in T
    <2>1. k \in Nat /\ k + 1 \in 1 .. n /\ k + 1 \in 0 .. n /\ (k + 1) - 1 = k
      OBVIOUS
    <2>2. g[k + 1] = SessionsStep(s, g[k])
      BY <1>3, <2>1
    <2> DEFINE x == g[k]
    <2>3. Taken(x, o, k)
      BY <1>5
    <2> HIDE DEF x
    <2>4. Taken(SessionsStep(s, x), o, k + 1)
      BY <2>1, <2>3, TakenStep
    <2> QED BY <2>1, <2>2, <2>4 DEF x
  <1>6. \A k \in 0 .. n : k \in T
    <2> HIDE DEF T
    <2> QED BY <1>4, <1>5, UpTo
  <1>7. Taken(f, o, n)
    BY <1>2, <1>6
  <1>8. PICK p \in Nat : \E l \in Seq(AnySession) :
              f = ReaderAt(p, l) /\ Len(l) = n /\ (TokensSized(l) => p = o + n * SessionSize)
    BY <1>7, Zenon DEF Taken
  <1>9. PICK l \in Seq(AnySession) :
              f = ReaderAt(p, l) /\ Len(l) = n /\ (TokensSized(l) => p = o + n * SessionSize)
    BY <1>8
  <1>10. f.records = l /\ f.position = p
    BY <1>9, ReaderFacts
  <1>11. TokensSized(l)
    <2>1. DOMAIN l = 1 .. Len(l)
      OBVIOUS
    <2> QED BY <1>10, <2>1 DEF TokensSized, ValidToken
  <1> QED BY <1>9, <1>10, <1>11

\* Another count of rooms is refused.  With too many, a token would be a room;
\* with too few, the sessions would have to begin among the rooms, and could not
\* end with the file.
LEMMA RoomsMiscounted ==
    ASSUME TokensAreNoRooms,
           NEW s \in Seq(Byte), NEW rooms, NEW sessions, Filed(s, rooms, sessions),
           NEW h, h[3] \in Nat, h[3] # Len(rooms), h[4] = Len(sessions)
    PROVE  DecodeRooms(s, h).state # "success"
  <1> SUFFICES ASSUME DecodeRooms(s, h).state = "success" PROVE FALSE
    OBVIOUS
  <1> DEFINE o == HeaderSize
             c == Concat(CheckpointRooms(rooms))
             q == RoomsEnd(rooms)
             k == Len(rooms)
             n == Len(sessions)
             m == h[3]
             g == RoomsRead(s, m, Reader(o))
             f == SessionsRead(s, n, Reader(g.position))
  <1>1. /\ rooms \in Seq(RoomType) /\ \A i \in 1 .. Len(rooms) : RoomFitsU32(rooms[i])
        /\ At(s, o, c) /\ q = o + Len(c)
    BY DEF Filed, RoomsEnd
  <1>2. /\ o \in Nat /\ k \in Nat /\ n \in Nat /\ MinRoomSize \in Nat /\ MinRoomSize > 0
        /\ q \in Nat /\ SessionSize \in Nat /\ Len(s) = q + n * SessionSize
    BY FiledSizes
  <1>3. PICK p \in [0 .. k -> Nat] : RoomsPlaced(s, o, rooms, p)
    <2> HIDE DEF o
    <2> QED BY <1>1, <1>2, RoomsPositions
  <1>4. /\ p[0] = o /\ p[k] = q /\ RoomsAlong(s, rooms, p)
        /\ \A i \in 1 .. k : p[i] >= p[i - 1] + MinRoomSize
    BY <1>1, <1>3 DEF RoomsPlaced
  <1>5. /\ g.ok /\ f.ok /\ f.position = Len(s)
        /\ \A i \in DOMAIN f.records : ValidToken(f.records[i].token)
    <2> DEFINE x == SessionsRead(s, h[4], Reader(g.position))
               y == Found(h[2], g.records, x.records)
    <2>1. DecodeSessions(s, h, g).state = "success"
      BY RoomsDecode
    <2>2. g.ok /\ x.ok /\ x.position = Len(s) /\ ValidKeys(y)
      <3> HIDE DEF g
      <3> QED BY <2>1, SessionsDecode
    <2>3. x = f
      OBVIOUS
    <2>4. y.sessions = x.records
      BY DEF Found
    <2> HIDE DEF f, g, x, y
    <2>5. \A i \in DOMAIN y.sessions : ValidToken(y.sessions[i].token)
      BY <2>2, Zenon DEF ValidKeys
    <2> QED BY <2>2, <2>3, <2>4, <2>5
  <1>6. CASE m > k
    <2>1. ReadRoom(s, ReaderAt(q, rooms)) = Failed(ReaderAt(q, rooms))
      BY NoRoomAfterLast
    <2>2. ~RoomsRead(s, m, Reader(p[0])).ok
      <3>1. /\ rooms \in Seq(RoomType) /\ RoomsAlong(s, rooms, p)
            /\ m \in Nat /\ m > Len(rooms)
            /\ ReadRoom(s, ReaderAt(p[Len(rooms)], rooms)) = Failed(ReaderAt(p[Len(rooms)], rooms))
        BY <1>1, <1>4, <1>6, <2>1
      <3> HIDE DEF m
      <3> QED BY <3>1, RoomsBeyond, Zenon
    <2> QED BY <1>4, <1>5, <2>2
  <1>7. CASE m < k
    <2>1. m \in 0 .. k
      BY <1>2, <1>7
    <2>2. RoomsRead(s, m, Reader(p[0])) = ReaderAt(p[m], SubSeq(rooms, 1, m))
      <3>1. rooms \in Seq(RoomType) /\ RoomsAlong(s, rooms, p) /\ m \in 0 .. Len(rooms)
        BY <1>1, <1>4, <2>1
      <3> HIDE DEF m
      <3> QED BY <3>1, RoomsPrefix, Zenon
    <2>3. g.position = p[m]
      BY <1>4, <2>2, ReaderFacts
    <2> HIDE DEF m, k, n, g, q
    <2>4. p[m] \in Nat
      BY <2>1
    <2>5. f.position = p[m] + n * SessionSize
      <3> DEFINE b == p[m]
      <3>1. b \in Nat /\ f = SessionsRead(s, n, Reader(b))
        BY <2>3, <2>4
      <3> HIDE DEF b, f
      <3>2. f.position = b + n * SessionSize
        <4>1. /\ n \in Nat /\ f.ok
              /\ \A i \in DOMAIN f.records : ValidToken(f.records[i].token)
          BY <1>2, <1>5
        <4> QED BY <3>1, <4>1, SessionsTaken, Zenon
      <3> QED BY <3>2 DEF b
    <2>6. p[m] = q
      <3> DEFINE e == n * SessionSize
                 b == p[m]
      <3>1. e \in Nat /\ b \in Nat /\ q + e = b + e
        BY <1>2, <1>5, <2>4, <2>5
      <3> HIDE DEF e, b
      <3>2. b = q
        BY <1>2, <3>1
      <3> QED BY <3>2 DEF b
    <2>7. p[k] >= p[m] + (k - m) * MinRoomSize
      BY <1>2, <1>4, <2>1, PositionsGrow
    <2>8. (k - m) * MinRoomSize >= MinRoomSize
      <3> DEFINE j == k - m - 1
      <3>1. j \in Nat /\ k - m = j + 1
        BY <1>2, <1>7, <2>1
      <3> HIDE DEF j
      <3>2. (j + 1) * MinRoomSize = j * MinRoomSize + MinRoomSize /\ j * MinRoomSize \in Nat
        BY <1>2, <3>1
      <3> QED BY <1>2, <3>1, <3>2
    <2> DEFINE e == (k - m) * MinRoomSize
    <2>9. q >= q + e /\ e >= MinRoomSize /\ e \in Int
      BY <1>2, <1>4, <2>1, <2>6, <2>7, <2>8
    <2> HIDE DEF e
    <2> QED BY <1>2, <2>9
  <1>8. m # k /\ m \in Nat
    OBVIOUS
  <1> HIDE DEF m, k
  <1> QED BY <1>2, <1>6, <1>7, <1>8

\* A file that is read is decoded by its header.
LEMMA DecodedByHeader ==
    ASSUME NEW s, DecodeCheckpoint(s).state = "success"
    PROVE  DecodeCheckpoint(s) = DecodeRooms(s, HeaderOf(s))
  <1> DEFINE h == HeaderOf(s)
             p == SubSeq(s, HeaderSize + 1, Len(s))
             y == DecodeCheckpoint(s)
             bad1 == [state |-> "invalid_checkpoint"]
             bad2 == [state |-> "too_large"]
             bad3 == [state |-> "malformed_data"]
             bad4 == [state |-> "unsupported_version"]
             bad5 == [state |-> "checksum_mismatch"]
  <1>1. y = IF Len(s) > MaxFile THEN bad2
            ELSE IF Len(s) < HeaderSize \/ SubSeq(s, 1, Len(Magic)) # Magic THEN bad3
            ELSE IF h[1] # Version THEN bad4
            ELSE IF h[2] = 0 THEN bad1
            ELSE IF h[5] # Len(p) THEN bad3
            ELSE IF h[6] # Checksum(p) THEN bad5
            ELSE DecodeRooms(s, h)
    BY DecodeHeader, Zenon
  <1>2. /\ bad1.state # "success" /\ bad2.state # "success" /\ bad3.state # "success"
        /\ bad4.state # "success" /\ bad5.state # "success"
    OBVIOUS
  <1> HIDE DEF bad1, bad2, bad3, bad4, bad5, y, h, p
  <1>3. y # bad1 /\ y # bad2 /\ y # bad3 /\ y # bad4 /\ y # bad5
    BY <1>2 DEF y
  <1>4. y = DecodeRooms(s, h)
    BY <1>1, <1>3, Zenon
  <1> QED BY <1>4 DEF y, h

\* The counts in the header of a file as it was written.
LEMMA HeaderCounts ==
    ASSUME NEW cp \in CheckpointType, EncodeCheckpoint(cp).state = "success",
           NEW d, d = EncodeCheckpoint(cp).data
    PROVE  /\ Field(d, Len(Magic) + W32 + W64, W32) = Len(cp.rooms)
           /\ Field(d, Len(Magic) + W32 + W64 + W32, W32) = Len(cp.sessions)
  <1> DEFINE p == Payload(cp)
             vb == Len(cp.rooms)
             vc == Len(cp.sessions)
             pb == Len(Magic) + W32 + W64
             pk == Len(Magic) + W32 + W64 + W32
  <1>1. d \in Seq(Byte) /\ At(d, pb, Bytes(vb, W32)) /\ At(d, pk, Bytes(vc, W32))
    BY FileFacts
  <1>2. ~(vb > Max32) /\ ~(vc > Max32)
    BY EncodeFacts, Zenon
  <1>3. W32 \in Nat /\ W64 \in Nat /\ pb \in Nat /\ pk \in Nat /\ Max32 = Power(W32) - 1 /\ Max32 \in Nat
    <2> DEFINE n == Len(Magic)
    <2>1. n \in Nat
      BY CheckpointAssumption
    <2> HIDE DEF n
    <2> QED BY <2>1, WidthFacts, SMTT(30) DEF n
  <1>4. vb \in 0 .. Max32 /\ vc \in 0 .. Max32
    <2>1. cp.rooms \in Seq(RoomType) /\ cp.sessions \in Seq(SessionType)
      BY DEF CheckpointType
    <2>2. vb \in Nat /\ vc \in Nat
      BY <2>1
    <2> HIDE DEF vb, vc
    <2> QED BY <1>2, <1>3, <2>2
  <1> HIDE DEF vb, vc, pb, pk
  <1>5. Field(d, pb, W32) = vb /\ Field(d, pk, W32) = vc
    BY <1>1, <1>3, <1>4, AtField
  <1> QED BY <1>5 DEF vb, vc, pb, pk

\* With one other byte, at most one of the counts is another.
LEMMA OneCount ==
    ASSUME NEW d \in Seq(Byte), NEW s \in Seq(Byte), Len(s) = Len(d), NEW i \in 1 .. Len(d),
           \A j \in 1 .. Len(d) : j # i => s[j] = d[j],
           NEW a \in Nat, NEW b \in Nat, NEW w \in Nat, a + w <= b, b + w <= Len(d)
    PROVE  Field(s, a, w) = Field(d, a, w) \/ Field(s, b, w) = Field(d, b, w)
  <1> DEFINE len == Len(d)
  <1>1. len \in Nat /\ i \in Nat /\ i <= len
    OBVIOUS
  <1>2. a + w <= len /\ b + w <= len
    BY <1>1
  <1>3. \A j \in 1 .. len : j # i => s[j] = d[j]
    OBVIOUS
  <1>4. /\ Field(s, a, w) = Field(d, a, w) <=> \A j \in 1 .. w : s[a + j] = d[a + j]
        /\ Field(s, b, w) = Field(d, b, w) <=> \A j \in 1 .. w : s[b + j] = d[b + j]
    <2>1. a + w <= Len(s) /\ b + w <= Len(s) /\ a + w <= Len(d) /\ b + w <= Len(d)
      BY <1>2
    <2> QED BY <2>1, FieldAgree, Zenon
  <1> HIDE DEF len
  <1>5. CASE i <= b
    <2>1. ASSUME NEW j \in 1 .. w PROVE s[b + j] = d[b + j]
      <3>1. b + j \in 1 .. len /\ b + j # i
        BY <1>1, <1>2, <1>5
      <3> QED BY <1>3, <3>1
    <2> QED BY <1>4, <2>1
  <1>6. CASE i > b
    <2>1. ASSUME NEW j \in 1 .. w PROVE s[a + j] = d[a + j]
      <3>1. a + j \in 1 .. len /\ a + j # i
        BY <1>1, <1>2, <1>6
      <3> QED BY <1>3, <3>1
    <2> QED BY <1>4, <2>1
  <1> QED BY <1>1, <1>5, <1>6

\* A file with one other byte that is read has the records saved.
LEMMA RecordsKept ==
    ASSUME TokensAreNoRooms,
           NEW cp \in CheckpointType, EncodeCheckpoint(cp).state = "success",
           NEW d, d = EncodeCheckpoint(cp).data,
           NEW s \in Seq(Byte), DecodeCheckpoint(s).state = "success", Damaged(d, s, "byte")
    PROVE  DecodeCheckpoint(s).checkpoint
             = [cp EXCEPT !.generation = DecodeCheckpoint(s).checkpoint.generation]
  <1> DEFINE h == HeaderOf(s)
             rooms == cp.rooms
             sessions == cp.sessions
             n == Len(Magic)
             pb == n + W32 + W64
             pk == n + W32 + W64 + W32
             len == Len(d)
  <1>1. Len(s) = len /\ \A j \in DOMAIN s \ UncheckedBytes : s[j] = d[j]
    BY DamageFacts
  <1>2. d \in Seq(Byte) /\ len >= HeaderSize /\ HeaderSize \in Nat /\ len \in Nat
    <2>1. d \in Seq(Byte) /\ len >= HeaderSize /\ HeaderSize \in Nat
      BY HeadersAgree
    <2> QED BY <2>1
  <1>3. /\ W32 \in Nat /\ W64 \in Nat /\ n \in Nat /\ pb \in Nat /\ pk \in Nat
        /\ pb + W32 = pk /\ pk + W32 <= HeaderSize
    <2>1. W32 \in Nat /\ W64 \in Nat /\ n \in Nat
      BY WidthFacts, CheckpointAssumption
    <2>2. HeaderSize = n + W32 + W64 + W32 + W32 + W64 + W64
      BY DEF HeaderSize
    <2> HIDE DEF n
    <2> QED BY <2>1, <2>2
  <1>4. PICK i \in 1 .. len : \A j \in 1 .. len : j # i => s[j] = d[j]
    BY DEF Damaged
  <1>5. Filed(s, rooms, sessions)
    <2>1. \A j \in 1 .. Len(s) : j > HeaderSize => s[j] = d[j]
      <3> SUFFICES ASSUME NEW j \in 1 .. Len(s), j > HeaderSize PROVE s[j] = d[j]
        OBVIOUS
      <3>1. UncheckedBytes = n + W32 + 1 .. pk + W32
        BY DEF UncheckedBytes
      <3> HIDE DEF n, pb
      <3>2. j \notin UncheckedBytes
        <4> HIDE DEF pk
        <4> QED BY <1>2, <1>3, <3>1
      <3>3. j \in DOMAIN s
        OBVIOUS
      <3> QED BY <1>1, <3>2, <3>3
    <2> QED BY <1>1, <2>1, FileFiled
  <1>6. h[3] = Field(s, pb, W32) /\ h[4] = Field(s, pk, W32)
    BY HeaderFields DEF SixFields
  <1>7. Field(d, pb, W32) = Len(rooms) /\ Field(d, pk, W32) = Len(sessions)
    BY HeaderCounts
  <1>8. ValidKeys(cp)
    BY EncodeFacts, Zenon
  <1>9. cp = Found(cp.generation, rooms, sessions)
    BY DEF CheckpointType, Found
  <1>10. DecodeCheckpoint(s) = DecodeRooms(s, h)
    BY DecodedByHeader, Zenon
  <1> HIDE DEF h, n, pb, pk
  <1>11. h[3] = Len(rooms) \/ h[4] = Len(sessions)
    <2>1. pb + W32 <= pk /\ pk + W32 <= len
      BY <1>2, <1>3
    <2>2. Field(s, pb, W32) = Field(d, pb, W32) \/ Field(s, pk, W32) = Field(d, pk, W32)
      <3>1. d \in Seq(Byte) /\ s \in Seq(Byte) /\ Len(s) = Len(d) /\ i \in 1 .. Len(d)
        BY <1>1, <1>2, Zenon
      <3>2. \A j \in 1 .. Len(d) : j # i => s[j] = d[j]
        BY <1>4, Zenon
      <3>3. pb \in Nat /\ pk \in Nat /\ W32 \in Nat
        BY <1>3, Zenon
      <3>4. pb + W32 <= pk /\ pk + W32 <= Len(d)
        BY <2>1, Zenon
      <3> QED BY ONLY <3>1, <3>2, <3>3, <3>4, OneCount, ZenonT(60)
    <2> QED BY <1>6, <1>7, <2>2
  <1>12. h[3] \in Nat /\ h[4] \in Nat
    <2>1. pb + W32 <= Len(s) /\ pk + W32 <= Len(s)
      BY <1>1, <1>2, <1>3
    <2> QED BY <1>3, <1>6, <2>1, FieldType
  <1>13. DecodeRooms(s, h).state = "success"
    BY <1>10
  <1>14. h[3] = Len(rooms)
    <2> SUFFICES ASSUME h[3] # Len(rooms) PROVE FALSE
      OBVIOUS
    <2>1. h[4] = Len(sessions)
      BY <1>11
    <2> QED BY <1>5, <1>12, <1>13, <2>1, RoomsMiscounted
  <1>15. h[4] = Len(sessions)
    <2>1. DecodeRooms(s, h) = DecodeSessions(s, h, ReaderAt(RoomsEnd(rooms), rooms))
      BY <1>5, <1>14, RoomsDecoded
    <2>2. DecodeSessions(s, h, ReaderAt(RoomsEnd(rooms), rooms)).state = "success"
      BY <1>13, <2>1
    <2> QED BY <1>5, <1>12, <2>2, SessionsMiscounted
  <1>16. DecodeRooms(s, h) = Success(Found(h[2], rooms, sessions))
    BY <1>5, <1>8, <1>14, <1>15, CountsKept
  <1> DEFINE x == Found(h[2], rooms, sessions)
  <1>17. DecodeCheckpoint(s).checkpoint = x
    BY <1>10, <1>16 DEF Success
  <1>18. x.generation = h[2] /\ x = [cp EXCEPT !.generation = h[2]]
    BY <1>9 DEF Found
  <1> HIDE DEF x
  <1> QED BY <1>17, <1>18

\* What is read of a file with another byte.
LEMMA RecordsInv ==
    ASSUME TokensAreNoRooms
    PROVE  FileInv => RecordsAreKept
  <1> SUFFICES ASSUME FileInv, file.damage = "byte", DecodeCheckpoint(file.data).state = "success"
               PROVE  DecodeCheckpoint(file.data).checkpoint
                        = [file.checkpoint EXCEPT
                             !.generation = DecodeCheckpoint(file.data).checkpoint.generation]
    BY Zenon DEF RecordsAreKept, Decoded
  <1> DEFINE s == file.data
             cp == file.checkpoint
             d == EncodeCheckpoint(cp).data
  <1>1. /\ cp \in CheckpointType /\ EncodeCheckpoint(cp).state = "success"
        /\ s \in Seq(Byte) /\ Damaged(d, s, "byte") /\ DecodeCheckpoint(s).state = "success"
    BY CodecsAssumption DEF FileInv, NoFile
  <1>2. d = EncodeCheckpoint(cp).data
    OBVIOUS
  <1> HIDE DEF s, cp, d
  <1>3. DecodeCheckpoint(s).checkpoint
          = [cp EXCEPT !.generation = DecodeCheckpoint(s).checkpoint.generation]
    BY <1>1, <1>2, RecordsKept
  <1> QED BY <1>3 DEF s, cp

(***************************************************************************)
(* A checkpoint file is read back as it was written, and damage to it is   *)
(* found or changes the generation alone (checkpoint_codec.cpp:353).  The  *)
(* counts are outside the checksum, yet no other count is accepted: with   *)
(* rooms too many a token would have to be a room, with rooms too few the  *)
(* sessions could not end where the file does.  This needs tokens that are *)
(* long enough and digits that are no states, as those of the code are.    *)
(***************************************************************************)
THEOREM DetectionTheorem ==
    ASSUME TokensAreNoRooms
    PROVE  Spec => []DamageIsDetected
  <1>1. FileInv => RecordsAreKept
    BY RecordsInv
  <1>2. Init => FileInv
    BY DEF Init, FileInv
  <1>3. ReadsBack /\ DamageIsRefused /\ RecordsAreKept => DamageIsDetected
    BY DEF DamageIsDetected
  <1> QED BY <1>1, <1>2, <1>3, FileNextInv, ReadBackInv, DamageTheorem, PTL DEF Spec

=============================================================================
