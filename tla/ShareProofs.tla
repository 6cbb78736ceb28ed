---------------------------- MODULE ShareProofs ----------------------------
(***************************************************************************)
(* Comparing and truncating shares is exact, and converting them is right  *)
(* up to the rounding that its masks disturb, for every modulus, width,    *)
(* shift, pair of shares, threshold, mask and random draw; and a token     *)
(* computes its function once, for every mask.                             *)
(*                                                                         *)
(* Quotients and remainders are handled by the equation that determines    *)
(* them, sums of shares by the congruence of what they add up to, and a    *)
(* program by what each of its cells holds.                                *)
(***************************************************************************)
EXTENDS RadixComparison, Truncation, ShareConversion, Hat, WellFoundedInduction, FiniteSetTheorems, TLAPS

LEMMA Division ==
  ASSUME NEW a \in Int, NEW m \in Nat, m > 0
  PROVE  /\ a \div m \in Int /\ a % m \in Int
         /\ 0 <= a % m /\ a % m < m
         /\ a = m * (a \div m) + (a % m)
<1> DEFINE k == a \div m
           r == a % m
<1>1. k \in Int /\ r \in 0 .. m - 1
  OBVIOUS
<1>2. a - m * k = r
  BY SMT
<1> HIDE DEF k, r
<1>3. a = m * k + r
  BY <1>1, <1>2
<1>. QED  BY <1>1, <1>3 DEF k, r

LEMMA QuotientIs ==
  ASSUME NEW a \in Int, NEW m \in Nat, m > 0, NEW k \in Int, NEW r \in 0 .. m - 1, a = m * k + r
  PROVE  a \div m = k /\ a % m = r
<1>. QED  BY SMT

\* The remainder is not negative, and so is the quotient of such a number.
LEMMA QuotientOfNat ==
  ASSUME NEW a \in Nat, NEW m \in Nat, m > 0
  PROVE  a \div m \in Nat /\ a % m \in Nat
<1>. QED  OBVIOUS
-----------------------------------------------------------------------------
(* Congruence modulo m.                                                    *)

Congruent(x, y, m) == \E k \in Int : x = y + m * k

LEMMA RemainderCongruent ==
  ASSUME NEW a \in Int, NEW m \in Nat, m > 0
  PROVE  Congruent(a % m, a, m) /\ Congruent(a, a % m, m)
<1>1. a \div m \in Int /\ 0 - (a \div m) \in Int /\ a % m \in Int /\ a = m * (a \div m) + (a % m)
  BY Division
<1>2. m * (0 - (a \div m)) = 0 - m * (a \div m)
  BY <1>1
<1>3. a % m = a + m * (0 - (a \div m)) /\ a = (a % m) + m * (a \div m)
  BY <1>1, <1>2
<1>. QED  BY <1>1, <1>3 DEF Congruent

LEMMA CongruentSame ==
  ASSUME NEW x \in Int, NEW y \in Int, NEW m \in Nat, m > 0, Congruent(x, y, m)
  PROVE  x % m = y % m
<1>1. PICK k \in Int : x = y + m * k
  BY DEF Congruent
<1> DEFINE l == y \div m
           r == y % m
<1>2. l \in Int /\ r \in 0 .. m - 1 /\ y = m * l + r
  BY Division
<1> HIDE DEF l, r
<1>3. l + k \in Int /\ m * (l + k) = m * l + m * k
  BY <1>2
<1>4. x = m * (l + k) + r
  BY <1>1, <1>2, <1>3
<1>5. x % m = r
  BY <1>2, <1>3, <1>4, QuotientIs
<1>. QED  BY <1>5 DEF r

LEMMA CongruentBack ==
  ASSUME NEW x \in Int, NEW y \in Int, NEW m \in Nat, Congruent(x, y, m)
  PROVE  Congruent(y, x, m)
<1>1. PICK k \in Int : x = y + m * k
  BY DEF Congruent
<1>2. 0 - k \in Int /\ m * (0 - k) = 0 - m * k /\ m * k \in Int
  OBVIOUS
<1>3. y = x + m * (0 - k)
  BY <1>1, <1>2
<1>. QED  BY <1>2, <1>3 DEF Congruent

LEMMA CongruentChain ==
  ASSUME NEW x \in Int, NEW y \in Int, NEW z \in Int, NEW m \in Nat,
         Congruent(x, y, m), Congruent(y, z, m)
  PROVE  Congruent(x, z, m)
<1>1. PICK k \in Int : x = y + m * k
  BY DEF Congruent
<1>2. PICK l \in Int : y = z + m * l
  BY DEF Congruent
<1>3. k + l \in Int /\ m * (k + l) = m * k + m * l /\ m * k \in Int /\ m * l \in Int
  OBVIOUS
<1>4. x = z + m * (k + l)
  BY <1>1, <1>2, <1>3
<1>. QED  BY <1>3, <1>4 DEF Congruent

LEMMA CongruentSum ==
  ASSUME NEW x \in Int, NEW y \in Int, NEW u \in Int, NEW v \in Int, NEW m \in Nat,
         Congruent(x, y, m), Congruent(u, v, m)
  PROVE  Congruent(x + u, y + v, m) /\ Congruent(x - u, y - v, m)
<1>1. PICK k \in Int : x = y + m * k
  BY DEF Congruent
<1>2. PICK l \in Int : u = v + m * l
  BY DEF Congruent
<1>3. /\ k + l \in Int /\ m * (k + l) = m * k + m * l /\ m * k \in Int /\ m * l \in Int
      /\ k - l \in Int /\ m * (k - l) = m * k - m * l
  OBVIOUS
<1>4. x + u = (y + v) + m * (k + l) /\ x - u = (y - v) + m * (k - l)
  BY <1>1, <1>2, <1>3
<1>. QED  BY <1>3, <1>4 DEF Congruent

LEMMA CongruentTimes ==
  ASSUME NEW x \in Int, NEW y \in Int, NEW c \in Int, NEW m \in Nat, Congruent(x, y, m)
  PROVE  Congruent(x * c, y * c, m)
<1>1. PICK k \in Int : x = y + m * k
  BY DEF Congruent
<1>2. k * c \in Int /\ (y + m * k) * c = y * c + m * (k * c)
  OBVIOUS
<1>. QED  BY <1>1, <1>2 DEF Congruent

LEMMA CongruentItself ==
  ASSUME NEW x \in Int, NEW m \in Nat
  PROVE  Congruent(x, x, m)
<1>1. 0 \in Int /\ x = x + m * 0
  OBVIOUS
<1>. QED  BY <1>1 DEF Congruent
-----------------------------------------------------------------------------
(* Shares.                                                                 *)

PairsModulo(m) == [p0 : 0 .. m - 1, p1 : 0 .. m - 1]

LEMMA SumsReduced ==
  ASSUME NEW m \in Nat, m > 0, NEW a \in 0 .. m - 1, NEW b \in 0 .. m - 1
  PROVE  /\ AddReduced(a, b, m) \in 0 .. m - 1 /\ Congruent(AddReduced(a, b, m), a + b, m)
         /\ SubReduced(a, b, m) \in 0 .. m - 1 /\ Congruent(SubReduced(a, b, m), a - b, m)
<1>1. /\ AddReduced(a, b, m) \in 0 .. m - 1
      /\ AddReduced(a, b, m) = a + b + m * 0 \/ AddReduced(a, b, m) = a + b + m * (0 - 1)
  BY DEF AddReduced
<1>2. /\ SubReduced(a, b, m) \in 0 .. m - 1
      /\ SubReduced(a, b, m) = a - b + m * 0 \/ SubReduced(a, b, m) = a - b + m * 1
  BY DEF SubReduced
<1>3. 0 \in Int /\ 1 \in Int /\ 0 - 1 \in Int
  OBVIOUS
<1>4. Congruent(AddReduced(a, b, m), a + b, m)
  BY <1>1, <1>3 DEF Congruent
<1>5. Congruent(SubReduced(a, b, m), a - b, m)
  BY <1>2, <1>3 DEF Congruent
<1>. QED  BY <1>1, <1>2, <1>4, <1>5

LEMMA SharedIsSharing ==
  ASSUME NEW m \in Nat, m > 0, NEW v \in Nat, NEW s \in Nat
  PROVE  /\ Shared(v, s, m) \in PairsModulo(m)
         /\ Congruent(Shared(v, s, m).p0 + Shared(v, s, m).p1, v, m)
<1> DEFINE a == s % m
           b == v % m
           d == SubReduced(b, a, m)
<1>1. a \in 0 .. m - 1 /\ b \in 0 .. m - 1
  OBVIOUS
<1>2. d \in 0 .. m - 1 /\ Congruent(d, b - a, m)
  BY <1>1, SumsReduced
<1>3. Shared(v, s, m) = [p0 |-> a, p1 |-> d]
  BY DEF Shared
<1>4. Congruent(b, v, m)
  BY RemainderCongruent
<1>5. Congruent(a, a, m)
  BY <1>1, CongruentItself
<1> HIDE DEF a, b, d
<1>6. Congruent(a + d, a + (b - a), m)
  BY <1>1, <1>2, <1>5, CongruentSum
<1>7. a + (b - a) = b /\ a + d \in Int
  BY <1>1, <1>2
<1>8. Congruent(a + d, v, m)
  BY <1>1, <1>4, <1>6, <1>7, CongruentChain
<1>. QED  BY <1>1, <1>2, <1>3, <1>8 DEF PairsModulo

LEMMA OneMinusIsSharing ==
  ASSUME NEW m \in Nat, m > 1, NEW x \in PairsModulo(m), NEW v \in Int, Congruent(x.p0 + x.p1, v, m)
  PROVE  /\ OneMinus(x, m) \in PairsModulo(m)
         /\ Congruent(OneMinus(x, m).p0 + OneMinus(x, m).p1, 1 - v, m)
<1>1. x.p0 \in 0 .. m - 1 /\ x.p1 \in 0 .. m - 1 /\ 1 \in 0 .. m - 1 /\ 0 \in 0 .. m - 1
  BY DEF PairsModulo
<1> DEFINE a == SubReduced(1, x.p0, m)
           b == SubReduced(0, x.p1, m)
<1>2. /\ a \in 0 .. m - 1 /\ Congruent(a, 1 - x.p0, m)
      /\ b \in 0 .. m - 1 /\ Congruent(b, 0 - x.p1, m)
  <2> DEFINE y == x.p0
             z == x.p1
  <2>1. y \in 0 .. m - 1 /\ z \in 0 .. m - 1
    BY <1>1
  <2> HIDE DEF y, z
  <2>2. \A c \in 0 .. m - 1, d \in 0 .. m - 1 :
          SubReduced(c, d, m) \in 0 .. m - 1 /\ Congruent(SubReduced(c, d, m), c - d, m)
    BY SumsReduced
  <2>3. SubReduced(1, y, m) \in 0 .. m - 1 /\ Congruent(SubReduced(1, y, m), 1 - y, m)
    BY <1>1, <2>1, <2>2, Zenon
  <2>4. SubReduced(0, z, m) \in 0 .. m - 1 /\ Congruent(SubReduced(0, z, m), 0 - z, m)
    BY <1>1, <2>1, <2>2, Zenon
  <2>. QED  BY <2>3, <2>4 DEF y, z
<1>3. OneMinus(x, m) = [p0 |-> a, p1 |-> b]
  BY DEF OneMinus
<1> HIDE DEF a, b
<1>4. Congruent(a + b, (1 - x.p0) + (0 - x.p1), m)
  BY <1>1, <1>2, CongruentSum
<1>5. Congruent(1 - (x.p0 + x.p1), 1 - v, m)
  <2>1. Congruent(1, 1, m)
    BY CongruentItself
  <2>2. x.p0 + x.p1 \in Int
    BY <1>1
  <2>. QED  BY <2>1, <2>2, CongruentSum
<1>6. (1 - x.p0) + (0 - x.p1) = 1 - (x.p0 + x.p1)
  BY <1>1
<1>7. Congruent(a + b, 1 - v, m)
  BY <1>1, <1>2, <1>4, <1>5, <1>6, CongruentChain
<1>. QED  BY <1>2, <1>3, <1>7 DEF PairsModulo
-----------------------------------------------------------------------------
(* Powers of two.                                                          *)

LEMMA LeastNumber ==
  ASSUME NEW T, T \subseteq Nat, T # {}
  PROVE  \E m \in T : \A n \in T : ~(n < m)
<1>1. PICK m \in T : \A n \in T : ~(<<n, m>> \in OpToRel(<, Nat))
  BY NatLessThanWellFounded, WFMin
<1>. QED  BY <1>1 DEF OpToRel

\* Induction on numbers, for the set of those that have the property.
LEMMA Induction ==
  ASSUME NEW S, 0 \in S, \A n \in Nat : n \in S => n + 1 \in S
  PROVE  \A n \in Nat : n \in S
<1>1. SUFFICES ASSUME NEW T, T = Nat \ S, T # {} PROVE FALSE
  OBVIOUS
<1>2. PICK m \in T : \A n \in T : ~(n < m)
  BY <1>1, LeastNumber
<1>3. m \in Nat /\ m # 0 /\ m - 1 \in Nat /\ m - 1 < m /\ (m - 1) + 1 = m
  BY <1>1, <1>2
<1>4. m - 1 \in S
  BY <1>1, <1>2, <1>3
<1>. QED  BY <1>1, <1>2, <1>3, <1>4

\* The first K + 1 powers.
PowersUpTo(f, K) == f = [j \in 0 .. K |-> IF j = 0 THEN 1 ELSE 2 * f[j - 1]]

LEMMA PowersExist ==
  ASSUME NEW K \in Nat
  PROVE  \E f : PowersUpTo(f, K)
<1> DEFINE S == {n \in Nat : \E f : PowersUpTo(f, n)}
<1>1. 0 \in S
  <2> DEFINE f == [j \in 0 .. 0 |-> 1]
  <2>1. f = [j \in 0 .. 0 |-> IF j = 0 THEN 1 ELSE 2 * f[j - 1]]
    OBVIOUS
  <2>. QED  BY <2>1 DEF PowersUpTo
<1>2. ASSUME NEW n \in Nat, n \in S PROVE n + 1 \in S
  <2>1. PICK f : PowersUpTo(f, n)
    BY <1>2
  <2> DEFINE g == [j \in 0 .. n + 1 |-> IF j = n + 1 THEN 2 * f[n] ELSE f[j]]
  <2>2. \A j \in 0 .. n : f[j] = IF j = 0 THEN 1 ELSE 2 * f[j - 1]
    BY <2>1 DEF PowersUpTo
  <2>3. \A j \in 0 .. n + 1 : g[j] = IF j = 0 THEN 1 ELSE 2 * g[j - 1]
    <3>1. TAKE j \in 0 .. n + 1
    <3>2. CASE j = n + 1
      BY <3>2
    <3>3. CASE j # n + 1
      <4>1. j \in 0 .. n /\ (j # 0 => j - 1 \in 0 .. n)
        BY <3>3
      <4>2. g[j] = f[j] /\ (j # 0 => g[j - 1] = f[j - 1])
        BY <4>1
      <4>. QED  BY <2>2, <4>1, <4>2
    <3>. QED  BY <3>2, <3>3
  <2>4. g = [j \in 0 .. n + 1 |-> IF j = 0 THEN 1 ELSE 2 * g[j - 1]]
    BY <2>3
  <2>5. PowersUpTo(g, n + 1)
    BY <2>4 DEF PowersUpTo
  <2> HIDE DEF g
  <2>. QED  BY <2>5
<1>3. \A n \in Nat : n \in S
  <2> HIDE DEF S
  <2>. QED  BY <1>1, <1>2, Induction
<1>. QED  BY <1>3

LEMMA PowersAgree ==
  ASSUME NEW K \in Nat, NEW f, PowersUpTo(f, K), NEW L \in Nat, NEW g, PowersUpTo(g, L)
  PROVE  \A i \in Nat : i <= K /\ i <= L => f[i] = g[i]
<1> DEFINE S == {i \in Nat : i <= K /\ i <= L => f[i] = g[i]}
<1>1. /\ \A j \in 0 .. K : f[j] = IF j = 0 THEN 1 ELSE 2 * f[j - 1]
      /\ \A j \in 0 .. L : g[j] = IF j = 0 THEN 1 ELSE 2 * g[j - 1]
  BY DEF PowersUpTo
<1>2. 0 \in S
  BY <1>1
<1>3. ASSUME NEW i \in Nat, i \in S PROVE i + 1 \in S
  <2>1. SUFFICES ASSUME i + 1 <= K, i + 1 <= L PROVE f[i + 1] = g[i + 1]
    OBVIOUS
  <2>2. i + 1 \in 0 .. K /\ i + 1 \in 0 .. L /\ i + 1 # 0 /\ (i + 1) - 1 = i /\ f[i] = g[i]
    BY <1>3, <2>1
  <2>3. f[i + 1] = 2 * f[i] /\ g[i + 1] = 2 * g[i]
    BY <1>1, <2>2
  <2>. QED  BY <2>2, <2>3
<1>4. \A i \in Nat : i \in S
  <2> HIDE DEF S
  <2>. QED  BY <1>2, <1>3, Induction
<1>. QED  BY <1>4

LEMMA TwoToStep == TwoTo[0] = 1 /\ \A n \in Nat : TwoTo[n + 1] = 2 * TwoTo[n]
<1> DEFINE Upto(n) == CHOOSE f : PowersUpTo(f, n)
           t == [n \in Nat |-> Upto(n)[n]]
<1>1. \A n \in Nat : PowersUpTo(Upto(n), n)
  BY PowersExist
<1> HIDE DEF Upto
<1>2. \A n \in Nat : t[n] = IF n = 0 THEN 1 ELSE 2 * t[n - 1]
  <2>1. TAKE n \in Nat
  <2>2. \A j \in 0 .. n : Upto(n)[j] = IF j = 0 THEN 1 ELSE 2 * Upto(n)[j - 1]
    BY <1>1 DEF PowersUpTo
  <2>3. n \in 0 .. n /\ t[n] = Upto(n)[n]
    OBVIOUS
  <2>4. CASE n = 0
    BY <2>2, <2>3, <2>4
  <2>5. CASE n # 0
    <3>1. n - 1 \in Nat /\ n - 1 <= n /\ n - 1 <= n - 1
      BY <2>5
    <3>2. PowersUpTo(Upto(n - 1), n - 1) /\ PowersUpTo(Upto(n), n)
      BY <1>1, <3>1
    <3>3. Upto(n)[n - 1] = Upto(n - 1)[n - 1]
      BY <3>1, <3>2, PowersAgree
    <3>4. t[n - 1] = Upto(n - 1)[n - 1]
      BY <3>1
    <3>5. Upto(n)[n] = 2 * Upto(n)[n - 1]
      BY <2>2, <2>3, <2>5
    <3>. QED  BY <2>3, <2>5, <3>3, <3>4, <3>5
  <2>. QED  BY <2>4, <2>5
<1>3. t = [n \in Nat |-> IF n = 0 THEN 1 ELSE 2 * t[n - 1]]
  BY <1>2
<1> HIDE DEF t
<1>4. \E f : f = [n \in Nat |-> IF n = 0 THEN 1 ELSE 2 * f[n - 1]]
  BY <1>3
<1>5. TwoTo = CHOOSE f : f = [n \in Nat |-> IF n = 0 THEN 1 ELSE 2 * f[n - 1]]
  BY DEF TwoTo
<1>6. TwoTo = [n \in Nat |-> IF n = 0 THEN 1 ELSE 2 * TwoTo[n - 1]]
  BY <1>4, <1>5
<1>7. \A n \in Nat : TwoTo[n] = IF n = 0 THEN 1 ELSE 2 * TwoTo[n - 1]
  BY <1>6
<1>8. \A n \in Nat : TwoTo[n + 1] = 2 * TwoTo[n]
  <2>1. TAKE n \in Nat
  <2>2. n + 1 \in Nat /\ n + 1 # 0 /\ (n + 1) - 1 = n
    OBVIOUS
  <2>. QED  BY <1>7, <2>2
<1>. QED  BY <1>7, <1>8

LEMMA TwoToType == \A n \in Nat : TwoTo[n] \in Nat /\ TwoTo[n] > 0
<1> DEFINE S == {n \in Nat : TwoTo[n] \in Nat /\ TwoTo[n] > 0}
<1>1. 0 \in S
  BY TwoToStep
<1>2. ASSUME NEW n \in Nat, n \in S PROVE n + 1 \in S
  <2>1. TwoTo[n + 1] = 2 * TwoTo[n] /\ TwoTo[n] \in Nat /\ TwoTo[n] > 0
    BY <1>2, TwoToStep
  <2> HIDE DEF TwoTo
  <2>2. n + 1 \in Nat /\ 2 * TwoTo[n] \in Nat /\ 2 * TwoTo[n] > 0
    BY <2>1
  <2>. QED  BY <2>1, <2>2
<1> HIDE DEF S
<1>3. \A n \in Nat : n \in S
  BY <1>1, <1>2, Induction
<1>. QED  BY <1>3 DEF S

LEMMA TwoToSum ==
  ASSUME NEW a \in Nat, NEW b \in Nat
  PROVE  TwoTo[a + b] = TwoTo[a] * TwoTo[b]
<1> DEFINE S == {n \in Nat : TwoTo[a + n] = TwoTo[a] * TwoTo[n]}
<1>1. 0 \in S
  <2>1. TwoTo[0] = 1 /\ TwoTo[a] \in Nat /\ a + 0 = a
    BY TwoToStep, TwoToType
  <2>. QED  BY <2>1
<1>2. ASSUME NEW n \in Nat, n \in S PROVE n + 1 \in S
  <2> DEFINE x == TwoTo[a]
             y == TwoTo[n]
  <2>1. a + n \in Nat /\ a + (n + 1) = (a + n) + 1
    OBVIOUS
  <2>2. TwoTo[a + (n + 1)] = 2 * TwoTo[a + n] /\ TwoTo[n + 1] = 2 * y
    BY <2>1, TwoToStep
  <2>3. TwoTo[a + n] = x * y /\ x \in Nat /\ y \in Nat
    BY <1>2, TwoToType
  <2> HIDE DEF x, y
  <2>4. 2 * (x * y) = x * (2 * y)
    BY <2>3
  <2>5. TwoTo[a + (n + 1)] = x * TwoTo[n + 1]
    BY <2>2, <2>3, <2>4
  <2>. QED  BY <2>5 DEF x
<1> HIDE DEF S
<1>3. \A n \in Nat : n \in S
  BY <1>1, <1>2, Induction
<1>. QED  BY <1>3 DEF S
-----------------------------------------------------------------------------
(* Truncation.                                                             *)

Exceeding(x, y, m) == Bit((x % m) + (y % m) >= m)

\* What one lookup of the correction bits yields, for one more bit than the
\* shares have (truncation.rs, correction_bits).
LEMMA LookupIsSharing ==
  ASSUME NEW bits \in Nat, NEW draw \in Nat, NEW x \in Nat, NEW y \in Nat,
         OutputModulus \in Nat, OutputModulus > 1
  PROVE  LET z == OneMinus(LessThanPublic([p0 |-> x % TwoTo[bits], p1 |-> y % TwoTo[bits]],
                                          bits + 1, TwoTo[bits], draw), OutputModulus)
         IN  /\ z \in PairsModulo(OutputModulus)
             /\ Congruent(z.p0 + z.p1, Exceeding(x, y, TwoTo[bits]), OutputModulus)
<1> DEFINE m == TwoTo[bits]
           domain == TwoTo[bits + 1]
           a == x % m
           b == y % m
           table == [c \in 0 .. domain - 1 |-> Bit(c < m)]
           support == {c \in 0 .. domain - 1 : table[c] # 0}
           v == Bit(a + b < m)
           index == [p0 |-> a, p1 |-> b]
           looked == LessThanPublic(index, bits + 1, m, draw)
<1>1. m \in Nat /\ m > 0 /\ domain = 2 * m
  BY TwoToType, TwoToStep
<1> HIDE DEF m, domain
<1>2. a \in 0 .. m - 1 /\ b \in 0 .. m - 1
  BY <1>1
<1> HIDE DEF a, b
<1>3. a + b \in 0 .. domain - 1 /\ a % domain = a /\ b % domain = b /\ (a + b) % domain = a + b
  BY <1>1, <1>2
<1>4. Selected(index, domain) = a + b
  BY <1>3 DEF Selected
<1>5. (IF a + b \in support THEN table[a + b] ELSE 0) = v
  BY <1>3 DEF Bit
<1>6. looked = Shared(v, draw, OutputModulus)
  BY <1>4, <1>5 DEF LessThanPublic, Lookup, domain
<1>7. v \in Nat
  BY DEF Bit
<1> HIDE DEF v, looked, table, support, index
<1>8. looked \in PairsModulo(OutputModulus) /\ Congruent(looked.p0 + looked.p1, v, OutputModulus)
  BY <1>6, <1>7, SharedIsSharing
<1> DEFINE z == OneMinus(looked, OutputModulus)
<1>9. z \in PairsModulo(OutputModulus) /\ Congruent(z.p0 + z.p1, 1 - v, OutputModulus)
  BY <1>7, <1>8, OneMinusIsSharing
<1>10. 1 - v = Exceeding(x, y, m)
  BY <1>1, <1>2 DEF Exceeding, Bit, v, a, b
<1>. QED  BY <1>9, <1>10 DEF looked, index, a, b, m

\* The quotient of a sum by S, from the quotients, the carry out of the low
\* bits and the multiple of M that the sum is reduced by.
LEMMA QuotientOfSum ==
  ASSUME NEW x \in Nat, NEW y \in Nat, NEW S \in Nat, S > 0, NEW D \in Nat, D > 0,
         NEW M \in Nat, M = S * D
  PROVE  ((x + y) % M) \div S
           = ((x % M) \div S) + ((y % M) \div S) + Exceeding(x, y, S) - Exceeding(x, y, M) * D
<1>1. M > 0
  <2>1. S * D >= 1
    BY SMT
  <2>. QED  BY <2>1
<1> DEFINE k == x \div M
           a == x % M
           l == y \div M
           b == y % M
<1>2. /\ k \in Int /\ a \in 0 .. M - 1 /\ x = M * k + a
      /\ l \in Int /\ b \in 0 .. M - 1 /\ y = M * l + b
  BY <1>1, Division
<1> DEFINE a1 == a \div S
           a0 == a % S
           b1 == b \div S
           b0 == b % S
<1>3. /\ a1 \in Int /\ a0 \in 0 .. S - 1 /\ a = S * a1 + a0
      /\ b1 \in Int /\ b0 \in 0 .. S - 1 /\ b = S * b1 + b0
  BY <1>1, <1>2, Division
<1> DEFINE c == Exceeding(x, y, S)
           w == Exceeding(x, y, M)
<1> HIDE DEF k, l, a, b, a1, a0, b1, b0
<1>4. x % S = a0 /\ y % S = b0
  <2> DEFINE e == D * k + a1
             f == D * l + b1
  <2>1. /\ e \in Int /\ M * k = S * (D * k) /\ S * e = S * (D * k) + S * a1
        /\ f \in Int /\ M * l = S * (D * l) /\ S * f = S * (D * l) + S * b1
    BY <1>2, <1>3
  <2> HIDE DEF e, f
  <2>2. x = S * e + a0 /\ y = S * f + b0
    BY <1>2, <1>3, <2>1
  <2>. QED  BY <1>3, <2>1, <2>2, QuotientIs
<1>5. /\ c \in {0, 1} /\ (c = 1 <=> a0 + b0 >= S)
      /\ w \in {0, 1} /\ (w = 1 <=> a + b >= M)
  BY <1>4 DEF Exceeding, Bit, a, b
<1> HIDE DEF c, w
<1>6. (x + y) % M = a + b - w * M
  <2> DEFINE e == k + l + w
             r == a + b - w * M
  <2>1. e \in Int /\ M * e = M * k + M * l + w * M
    BY <1>2, <1>5
  <2>2. r \in 0 .. M - 1
    BY <1>2, <1>5
  <2>3. x + y = M * e + r
    BY <1>2, <1>5, <2>1
  <2> DEFINE u == x + y
  <2>4. u \in Int /\ u = M * e + r
    BY <2>3
  <2> HIDE DEF e, r, u
  <2>5. u % M = r
    BY <1>1, <2>1, <2>2, <2>4, QuotientIs
  <2>. QED  BY <2>5 DEF r, u
<1>7. (a + b - w * M) \div S = a1 + b1 + c - w * D
  <2>1. /\ a1 + b1 + c - w * D \in Int
        /\ S * (a1 + b1 + c - w * D) = S * a1 + S * b1 + S * c - S * (w * D)
        /\ w * M = S * (w * D) /\ w * M \in Int
    BY <1>3, <1>5
  <2>2. a0 + b0 - S * c \in 0 .. S - 1 /\ S * c \in Int
    BY <1>3, <1>5
  <2>3. a + b - w * M = S * (a1 + b1 + c - w * D) + (a0 + b0 - S * c)
    BY <1>3, <2>1, <2>2
  <2>4. a + b - w * M \in Int
    BY <1>2, <2>1
  <2>. QED  BY <2>1, <2>2, <2>3, <2>4, QuotientIs
<1>. QED  BY <1>6, <1>7 DEF a1, b1, a, b, c, w

\* What one party computes.
LEMMA LocalIsCongruent ==
  ASSUME NEW m \in Nat, m > 0, NEW D \in Nat, NEW base \in Nat,
         NEW low \in 0 .. m - 1, NEW wrap \in 0 .. m - 1,
         NEW z, z = SubReduced(AddReduced(base % m, low, m), (wrap * (D % m)) % m, m)
  PROVE  z \in 0 .. m - 1 /\ Congruent(z, base + low - wrap * D, m)
<1> DEFINE r == base % m
           sum == AddReduced(r, low, m)
           W == D % m
           t == (wrap * W) % m
<1>0. \A a \in Nat : a % m \in 0 .. m - 1 /\ Congruent(a % m, a, m)
  <2>1. TAKE a \in Nat
  <2>2. a \in Int /\ a % m \in 0 .. m - 1
    OBVIOUS
  <2>. QED  BY <2>2, RemainderCongruent
<1>1. r \in 0 .. m - 1 /\ Congruent(r, base, m) /\ W \in 0 .. m - 1 /\ Congruent(W, D, m)
  BY <1>0
<1> HIDE DEF r, W
<1>2. sum \in 0 .. m - 1 /\ Congruent(sum, r + low, m)
  BY <1>1, SumsReduced
<1>3. wrap * W \in Nat /\ wrap * D \in Nat /\ wrap * W = W * wrap /\ wrap * D = D * wrap
  BY <1>1
<1>4. t \in 0 .. m - 1 /\ Congruent(t, wrap * W, m)
  BY <1>0, <1>3
<1> HIDE DEF sum, t
<1>5. z \in 0 .. m - 1 /\ Congruent(z, sum - t, m)
  <2>1. z = SubReduced(sum, t, m)
    BY DEF sum, t, r, W
  <2>. QED  BY <1>2, <1>4, <2>1, SumsReduced
<1>6. Congruent(W * wrap, D * wrap, m)
  <2>1. W \in Int /\ D \in Int /\ wrap \in Int
    BY <1>1
  <2>. QED  BY <1>1, <2>1, CongruentTimes
<1>7. Congruent(t, wrap * D, m)
  BY <1>3, <1>4, <1>6, CongruentChain
<1>8. Congruent(low, low, m)
  BY CongruentItself
<1>9. Congruent(r + low, base + low, m)
  BY <1>1, <1>8, CongruentSum
<1>10. Congruent(sum, base + low, m)
  BY <1>1, <1>2, <1>9, CongruentChain
<1>11. Congruent(sum - t, (base + low) - wrap * D, m)
  BY <1>2, <1>3, <1>4, <1>7, <1>10, CongruentSum
<1>12. Congruent(z, (base + low) - wrap * D, m)
  <2>1. z \in Int /\ sum - t \in Int /\ (base + low) - wrap * D \in Int
    BY <1>2, <1>3, <1>4, <1>5
  <2>. QED  BY <1>5, <1>11, <2>1, CongruentChain
<1>. QED  BY <1>3, <1>5, <1>12

Carries(pair, bits) ==
  /\ pair \in SharePairs
  /\ Congruent(pair.p0 + pair.p1, Exceeding(held.p0, held.p1, TwoTo[bits]), OutputModulus)

\* Once looked up, the corrections are shares of the two carries.
TruncateInv ==
  /\ TruncateTypeOK
  /\ TruncateAccepted
  /\ truncatePhase # "low" => Carries(lowCarry, Shift)
  /\ truncatePhase \in {"combine", "done"} => Carries(modularWrap, BitWidth)
  /\ TruncatesExactly

LEMMA TruncateSizes ==
  ASSUME truncateFormat \in TruncateFormats, TruncateAccepted
  PROVE  /\ BitWidth \in Nat /\ Shift \in Nat /\ BitWidth - Shift \in Nat
         /\ OutputModulus \in Nat /\ OutputModulus > 1
         /\ SharePairs = PairsModulo(OutputModulus)
<1>. QED  BY TruncationAssumption DEF TruncateAccepted, BitWidth, Shift, OutputModulus, SharePairs,
             PairsModulo

LEMMA ExceedsCarries ==
  ASSUME TruncateInv, NEW bits \in Nat, NEW draw \in TruncateDraws
  PROVE  Carries(Exceeds(bits, draw), bits)
<1>1. OutputModulus \in Nat /\ OutputModulus > 1 /\ SharePairs = PairsModulo(OutputModulus)
  BY TruncateSizes DEF TruncateInv, TruncateTypeOK
<1>2. held.p0 \in Nat /\ held.p1 \in Nat /\ draw \in Nat
  BY TruncationAssumption DEF TruncateInv, TruncateTypeOK
<1> DEFINE x == held.p0
           y == held.p1
<1>3. Exceeds(bits, draw) = OneMinus(LessThanPublic([p0 |-> x % TwoTo[bits], p1 |-> y % TwoTo[bits]],
                                                    bits + 1, TwoTo[bits], draw), OutputModulus)
  BY DEF Exceeds, ReducedShares, DomainBits
<1> HIDE DEF x, y
<1>4. x \in Nat /\ y \in Nat
  BY <1>2 DEF x, y
<1> DEFINE z == Exceeds(bits, draw)
<1>5. z \in PairsModulo(OutputModulus) /\ Congruent(z.p0 + z.p1, Exceeding(x, y, TwoTo[bits]), OutputModulus)
  BY <1>1, <1>2, <1>3, <1>4, LookupIsSharing
<1>. QED  BY <1>1, <1>5 DEF Carries, x, y

LEMMA InitTruncate == TruncateInit => TruncateInv
<1> SUFFICES ASSUME TruncateInit PROVE TruncateInv
  OBVIOUS
<1>. USE DEF TruncateInit
<1>1. OutputModulus \in Nat /\ OutputModulus > 1 /\ SharePairs = PairsModulo(OutputModulus)
  BY TruncateSizes
<1>2. ZeroShares = [p0 |-> 0, p1 |-> 0]
  BY <1>1 DEF ZeroShares, SharePublic
<1>3. ZeroShares \in SharePairs
  BY <1>1, <1>2 DEF PairsModulo
<1>. QED  BY <1>3 DEF TruncateInv, TruncateTypeOK, TruncatesExactly

LEMMA StepLookUpLowCarry ==
  ASSUME TruncateInv, NEW draw \in TruncateDraws, LookUpLowCarry(draw) PROVE TruncateInv'
<1>. USE DEF LookUpLowCarry
<1>1. Shift \in Nat
  BY TruncateSizes DEF TruncateInv, TruncateTypeOK
<1>2. Carries(Exceeds(Shift, draw), Shift)
  BY <1>1, ExceedsCarries
<1>3. Carries(lowCarry, Shift)'
  BY <1>2 DEF Carries, SharePairs, OutputModulus, Shift
<1>4. lowCarry' \in SharePairs'
  BY <1>3 DEF Carries
<1>5. TruncateTypeOK' /\ TruncateAccepted'
  BY <1>4 DEF TruncateInv, TruncateTypeOK, TruncateAccepted, SharePairs, OutputModulus, BitWidth, Shift
<1>. QED  BY <1>3, <1>5 DEF TruncateInv, TruncatesExactly

LEMMA StepLookUpModularWrap ==
  ASSUME TruncateInv, NEW draw \in TruncateDraws, LookUpModularWrap(draw) PROVE TruncateInv'
<1>. USE DEF LookUpModularWrap
<1>1. BitWidth \in Nat
  BY TruncateSizes DEF TruncateInv, TruncateTypeOK
<1>2. Carries(Exceeds(BitWidth, draw), BitWidth)
  BY <1>1, ExceedsCarries
<1>3. Carries(modularWrap, BitWidth)' /\ Carries(lowCarry, Shift)'
  BY <1>2 DEF Carries, SharePairs, OutputModulus, BitWidth, Shift, TruncateInv
<1>4. modularWrap' \in SharePairs'
  BY <1>3 DEF Carries
<1>5. TruncateTypeOK' /\ TruncateAccepted'
  BY <1>4 DEF TruncateInv, TruncateTypeOK, TruncateAccepted, SharePairs, OutputModulus, BitWidth, Shift
<1>. QED  BY <1>3, <1>5 DEF TruncateInv, TruncatesExactly

LEMMA StepCombine ==
  ASSUME TruncateInv, Combine PROVE TruncateInv'
<1>. USE DEF Combine
<1> DEFINE m == OutputModulus
           x == held.p0
           y == held.p1
           S == TwoTo[Shift]
           D == TwoTo[BitWidth - Shift]
           M == TwoTo[BitWidth]
           c == Exceeding(x, y, S)
           w == Exceeding(x, y, M)
           a == (x % M) \div S
           b == (y % M) \div S
           l == lowCarry
           v == modularWrap
<1>1. /\ BitWidth \in Nat /\ Shift \in Nat /\ BitWidth - Shift \in Nat
      /\ m \in Nat /\ m > 1 /\ SharePairs = PairsModulo(m)
  BY TruncateSizes DEF TruncateInv, TruncateTypeOK
<1>2. x \in Nat /\ y \in Nat
  BY TruncationAssumption DEF TruncateInv, TruncateTypeOK
<1>3. S \in Nat /\ S > 0 /\ D \in Nat /\ D > 0 /\ M \in Nat /\ M > 0 /\ M = S * D
  <2>1. Shift + (BitWidth - Shift) = BitWidth
    BY <1>1
  <2>2. TwoTo[Shift + (BitWidth - Shift)] = TwoTo[Shift] * TwoTo[BitWidth - Shift]
    BY <1>1, TwoToSum
  <2>3. M = S * D
    BY <2>1, <2>2
  <2>. QED  BY <1>1, <2>3, TwoToType
<1>4. /\ l \in PairsModulo(m) /\ Congruent(l.p0 + l.p1, c, m)
      /\ v \in PairsModulo(m) /\ Congruent(v.p0 + v.p1, w, m)
  BY <1>1 DEF TruncateInv, Carries
<1> DEFINE z0 == SubReduced(AddReduced(a % m, l.p0, m), (v.p0 * (D % m)) % m, m)
           z1 == SubReduced(AddReduced(b % m, l.p1, m), (v.p1 * (D % m)) % m, m)
<1>5. truncated' = [p0 |-> z0, p1 |-> z1]
  BY DEF LocalShare, BaseShare, WrapWeight
<1>6. c \in {0, 1} /\ w \in {0, 1}
  BY DEF Exceeding, Bit
<1>7. ((x + y) % M) \div S = a + b + c - w * D
  <2> HIDE DEF x, y, S, D, M
  <2>1. ((x + y) % M) \div S
          = ((x % M) \div S) + ((y % M) \div S) + Exceeding(x, y, S) - Exceeding(x, y, M) * D
    BY <1>2, <1>3, QuotientOfSum
  <2>. QED  BY <2>1
<1> HIDE DEF m, x, y, S, D, M, c, w, l, v
<1>8. a \in Nat /\ b \in Nat
  BY <1>2, <1>3, QuotientOfNat
<1> HIDE DEF a, b
<1> DEFINE l0 == l.p0
           l1 == l.p1
           v0 == v.p0
           v1 == v.p1
<1>9. l0 \in 0 .. m - 1 /\ l1 \in 0 .. m - 1 /\ v0 \in 0 .. m - 1 /\ v1 \in 0 .. m - 1
  BY <1>4 DEF PairsModulo
<1>10. Congruent(l0 + l1, c, m) /\ Congruent(v0 + v1, w, m)
  BY <1>4
<1>11. /\ z0 = SubReduced(AddReduced(a % m, l0, m), (v0 * (D % m)) % m, m)
       /\ z1 = SubReduced(AddReduced(b % m, l1, m), (v1 * (D % m)) % m, m)
  OBVIOUS
<1> HIDE DEF z0, z1, l0, l1, v0, v1
<1>12. /\ z0 \in 0 .. m - 1 /\ Congruent(z0, a + l0 - v0 * D, m)
       /\ z1 \in 0 .. m - 1 /\ Congruent(z1, b + l1 - v1 * D, m)
  <2>0. m \in Nat /\ m > 0
    BY <1>1
  <2>1. z0 \in 0 .. m - 1 /\ Congruent(z0, a + l0 - v0 * D, m)
    BY <1>3, <1>8, <1>9, <1>11, <2>0, LocalIsCongruent, Zenon
  <2>2. z1 \in 0 .. m - 1 /\ Congruent(z1, b + l1 - v1 * D, m)
    BY <1>3, <1>8, <1>9, <1>11, <2>0, LocalIsCongruent, Zenon
  <2>. QED  BY <2>1, <2>2
<1>13. Congruent(z0 + z1, a + b + c - w * D, m)
  <2>1. v0 * D \in Int /\ v1 * D \in Int /\ w * D \in Int
    BY <1>3, <1>6, <1>9
  <2> DEFINE e == a + l0 - v0 * D
             f == b + l1 - v1 * D
             s == v0 + v1
             t == l0 + l1
  <2>2. e \in Int /\ f \in Int /\ s \in Int /\ t \in Int /\ s * D = v0 * D + v1 * D
    BY <1>3, <1>8, <1>9, <2>1
  <2>3. e + f = (a + b) + (t - s * D)
    BY <1>8, <1>9, <2>1, <2>2
  <2>4. Congruent(e, e, m) /\ Congruent(z0, e, m) /\ Congruent(z1, f, m)
    BY <1>1, <1>12, <2>2, CongruentItself
  <2>5. Congruent(t, c, m) /\ Congruent(s, w, m)
    BY <1>10
  <2> HIDE DEF e, f, s, t
  <2>6. Congruent(z0 + z1, e + f, m)
    BY <1>1, <1>12, <2>2, <2>4, CongruentSum
  <2>7. Congruent(s * D, w * D, m)
    <3>1. w \in Int /\ D \in Int /\ s \in Int /\ m \in Nat
      BY <1>1, <1>3, <1>6, <2>2
    <3> HIDE DEF D, w, m
    <3>. QED  BY <2>5, <3>1, CongruentTimes
  <2>8. s * D \in Int
    BY <2>1, <2>2
  <2>9. Congruent(t - s * D, c - w * D, m)
    <3> DEFINE g == s * D
               h == w * D
    <3>1. g \in Int /\ h \in Int /\ c \in Int /\ Congruent(g, h, m)
      BY <1>6, <2>1, <2>7, <2>8
    <3> HIDE DEF g, h
    <3>2. Congruent(t - g, c - h, m)
      BY <1>1, <2>2, <2>5, <3>1, CongruentSum
    <3>. QED  BY <3>2 DEF g, h
  <2>10. Congruent(a + b, a + b, m) /\ a + b \in Int /\ t - s * D \in Int /\ c - w * D \in Int
    BY <1>1, <1>6, <1>8, <2>1, <2>2, <2>8, CongruentItself
  <2>11. Congruent((a + b) + (t - s * D), (a + b) + (c - w * D), m)
    BY <1>1, <2>9, <2>10, CongruentSum
  <2>12. (a + b) + (c - w * D) = a + b + c - w * D /\ (a + b) + (c - w * D) \in Int /\ z0 + z1 \in Int
         /\ e + f \in Int
    BY <1>6, <1>8, <1>12, <2>1, <2>2
  <2>13. Congruent(e + f, a + b + c - w * D, m)
    BY <2>3, <2>11, <2>12
  <2>. QED  BY <1>1, <2>6, <2>12, <2>13, CongruentChain
<1>14. (z0 + z1) % m = (a + b + c - w * D) % m
  <2>1. z0 + z1 \in Int /\ a + b + c - w * D \in Int
    BY <1>3, <1>6, <1>8, <1>12
  <2>. QED  BY <1>1, <1>13, <2>1, CongruentSame
<1>15. /\ truncated' \in SharePairs
       /\ Reconstruct(truncated', m) = (((x + y) % M) \div S) % m
  BY <1>1, <1>5, <1>7, <1>12, <1>14 DEF PairsModulo, Reconstruct
<1>16. /\ OutputModulus' = m /\ held'.p0 = x /\ held'.p1 = y /\ BitWidth' = BitWidth /\ Shift' = Shift
       /\ SharePairs' = SharePairs
  BY DEF m, x, y, OutputModulus, BitWidth, Shift, SharePairs
<1>17. TruncatesExactly'
  BY <1>15, <1>16 DEF TruncatesExactly, M, S
<1>18. TruncateTypeOK' /\ TruncateAccepted'
  BY <1>15, <1>16 DEF TruncateInv, TruncateTypeOK, TruncateAccepted, m
<1>19. Carries(lowCarry, Shift)' /\ Carries(modularWrap, BitWidth)'
  BY DEF TruncateInv, Carries, SharePairs, OutputModulus, BitWidth, Shift
<1>. QED  BY <1>17, <1>18, <1>19 DEF TruncateInv

\* The two parties end with reduced shares of the exact quotient of the number
\* they hold, whatever their shares and the lookups' draws are (truncation.rs,
\* truncate_with_correction).
THEOREM TruncationIsExact == TruncateSpec => []TruncatesExactly
<1>1. TruncateInit => TruncateInv
  BY InitTruncate
<1>2. TruncateInv /\ [TruncateNext]_truncateVars => TruncateInv'
  <2>1. ASSUME TruncateInv, UNCHANGED truncateVars PROVE TruncateInv'
    BY <2>1 DEF TruncateInv, TruncateTypeOK, TruncateAccepted, TruncatesExactly, Carries, SharePairs,
                OutputModulus, BitWidth, Shift, truncateVars
  <2>. QED  BY <2>1, StepLookUpLowCarry, StepLookUpModularWrap, StepCombine DEF TruncateNext
<1>3. TruncateInv => TruncatesExactly
  BY DEF TruncateInv
<1>. QED  BY <1>1, <1>2, <1>3, PTL DEF TruncateSpec
-----------------------------------------------------------------------------
(* Conversion.                                                             *)

Rounded(v, Q, P) == ((v * P + Q \div 2) \div Q) % P

\* A sum of a value and of n scaled masks is rounded to n more, less one for
\* each time the shortfall of the masks takes it across a multiple of Q, which
\* is fewer than P times.
LEMMA RoundedWithMasks ==
  ASSUME NEW P \in Nat, P >= 2, NEW Q \in Nat, Q >= P
  PROVE  \A H \in Int, n \in Nat, k \in Int, O \in Int :
           n <= 2 * (P - 1) /\ O = H + n * (Q \div P) + Q * k =>
             \E j \in Nat :
               /\ j < P
               /\ j = 0 <=> (H * P + Q \div 2) % Q >= n * (Q % P)
               /\ Rounded(O, Q, P) = (((H * P + Q \div 2) \div Q) + n - j) % P
<1> SUFFICES ASSUME NEW H \in Int, NEW n \in Nat, NEW k \in Int, NEW O \in Int,
                    n <= 2 * (P - 1), O = H + n * (Q \div P) + Q * k
             PROVE  \E j \in Nat :
                      /\ j < P
                      /\ j = 0 <=> (H * P + Q \div 2) % Q >= n * (Q % P)
                      /\ Rounded(O, Q, P) = (((H * P + Q \div 2) \div Q) + n - j) % P
  OBVIOUS
<1> DEFINE s == Q \div P
           t == Q % P
           h == Q \div 2
           v == H * P + h
           d == v \div Q
           r == v % Q
<1>1. s \in Int /\ t \in Int /\ 0 <= t /\ t < P /\ Q = P * s + t
  BY Division
<1>2. h \in Nat
  BY QuotientOfNat
<1> HIDE DEF s, t, h
<1>3. v \in Int
  BY <1>2
<1>4. d \in Int /\ r \in Int /\ 0 <= r /\ r < Q /\ v = Q * d + r
  <2> HIDE DEF v
  <2>. QED  BY <1>3, Division
<1> HIDE DEF d, r, v
<1> DEFINE nt == n * t
           w == r - nt
           e == w \div Q
           f == w % Q
<1>5. nt \in Int /\ 0 <= nt /\ w \in Int
  BY <1>1, <1>4
<1>6. e \in Int /\ f \in 0 .. Q - 1 /\ w = Q * e + f
  <2> HIDE DEF w
  <2>. QED  BY <1>5, Division
<1>7. nt <= (P - 1) * Q
  <2>1. 2 * t <= Q
    <3>1. s >= 1
      <4>1. SUFFICES ASSUME s <= 0 PROVE FALSE
        BY <1>1
      <4>2. P * s <= 0
        BY <1>1, <4>1
      <4>. QED  BY <1>1, <4>2
    <3>2. P * s >= P
      BY <1>1, <3>1
    <3>. QED  BY <1>1, <3>2
  <2>2. nt <= (2 * (P - 1)) * t
    BY <1>1
  <2>3. (2 * (P - 1)) * t = (P - 1) * (2 * t)
    BY <1>1
  <2>4. (P - 1) * (2 * t) <= (P - 1) * Q
    BY <1>1, <2>1
  <2>5. (2 * (P - 1)) * t \in Int /\ (P - 1) * (2 * t) \in Int /\ (P - 1) * Q \in Int
    BY <1>1
  <2>. QED  BY <1>5, <2>2, <2>3, <2>4, <2>5
<1> HIDE DEF nt, e, f
<1>8. e <= 0
  <2>1. SUFFICES ASSUME e >= 1 PROVE FALSE
    BY <1>6
  <2>2. Q * e >= Q
    BY <1>6, <2>1
  <2>. QED  BY <1>4, <1>5, <1>6, <2>2
<1>9. 0 - e < P
  <2>1. SUFFICES ASSUME 0 - e >= P PROVE FALSE
    BY <1>6
  <2>2. e <= 0 - P
    BY <1>6, <2>1
  <2>3. Q * e <= Q * (0 - P)
    BY <1>6, <2>2
  <2>4. Q * (0 - P) = 0 - ((P - 1) * Q + Q) /\ (P - 1) * Q \in Int
    OBVIOUS
  <2>. QED  BY <1>4, <1>5, <1>6, <1>7, <2>3, <2>4
<1>10. e = 0 <=> r >= nt
  <2>1. ASSUME e = 0 PROVE r >= nt
    BY <1>4, <1>5, <1>6, <2>1
  <2>2. ASSUME r >= nt, e <= 0 - 1 PROVE FALSE
    <3>1. Q * e <= 0 - Q
      BY <1>6, <2>2
    <3>. QED  BY <1>4, <1>5, <1>6, <2>2, <3>1
  <2>. QED  BY <1>6, <1>8, <2>1, <2>2
<1>11. (O * P + h) \div Q = d + n + e + P * k
  <2>1. /\ O * P = H * P + n * (P * s) + (Q * k) * P
        /\ n * (P * s) = n * Q - n * t
        /\ Q * (d + n + e + P * k) = Q * d + n * Q + Q * e + (Q * k) * P
    <3>1. P * s = Q - t
      BY <1>1
    <3>2. n * (P * s) = n * Q - n * t
      BY <1>1, <3>1
    <3>3. O * P = H * P + n * (P * s) + (Q * k) * P
      BY <1>1 DEF s
    <3>4. Q * (d + n + e + P * k) = Q * d + n * Q + Q * e + (Q * k) * P
      BY <1>4, <1>6
    <3>. QED  BY <3>2, <3>3, <3>4
  <2> DEFINE a == H * P
             b == n * Q
             c == (Q * k) * P
             g == Q * d
             i == Q * e
             u == O * P + h
             x == d + n + e + P * k
  <2>2. a \in Int /\ b \in Int /\ c \in Int /\ g \in Int /\ i \in Int /\ u \in Int /\ x \in Int
    BY <1>2, <1>4, <1>6
  <2>3. u = (a + (b - nt) + c) + h
    BY <2>1 DEF nt
  <2>4. Q * x = g + b + i + c
    BY <2>1
  <2>5. a + h = g + r /\ r - nt = i + f
    BY <1>4, <1>6 DEF v
  <2> HIDE DEF a, b, c, g, i, u, x
  <2>6. u = Q * x + f
    BY <1>2, <1>4, <1>5, <1>6, <2>2, <2>3, <2>4, <2>5
  <2>7. u \div Q = x
    BY <1>6, <2>2, <2>6, QuotientIs
  <2>. QED  BY <2>7 DEF u, x
<1>12. Rounded(O, Q, P) = (d + n + e) % P
  <2> DEFINE x == d + n + e
             y == x + P * k
  <2>1. x \in Int /\ y \in Int /\ y = d + n + e + P * k
    BY <1>4, <1>6
  <2>2. Congruent(y, x, P)
    BY <2>1 DEF Congruent
  <2> HIDE DEF x, y
  <2>3. y % P = x % P
    BY <2>1, <2>2, CongruentSame
  <2>. QED  BY <1>11, <2>1, <2>3 DEF Rounded, h, x
<1> DEFINE j == 0 - e
<1>13. j \in Nat /\ j < P /\ (j = 0 <=> r >= nt) /\ d + n + e = d + n - j
  BY <1>4, <1>6, <1>8, <1>9, <1>10
<1>. QED  BY <1>12, <1>13 DEF d, r, v, h, nt, t

\* A number v that is carried with an error that leaves room for the shortfall
\* of v and of the masks is rounded to v and the masks.
LEMMA RoundedWithNoise ==
  ASSUME NEW P \in Nat, P >= 2, NEW Q \in Nat, Q >= P
  PROVE  \A v \in Nat, n \in Nat, k \in Int, e \in Int, noise \in Nat, O \in Int :
           /\ e <= noise /\ 0 - e <= noise
           /\ noise * P + (v + n) * (Q % P) <= (Q - 1) \div 2
           /\ O = (v + n) * (Q \div P) + e + Q * k
           => Rounded(O, Q, P) = (v + n) % P
<1>a. TAKE v \in Nat, n \in Nat, k \in Int, e \in Int, noise \in Nat, O \in Int
<1>b. HAVE /\ e <= noise /\ 0 - e <= noise
           /\ noise * P + (v + n) * (Q % P) <= (Q - 1) \div 2
           /\ O = (v + n) * (Q \div P) + e + Q * k
<1> DEFINE s == Q \div P
           t == Q % P
           h == Q \div 2
           half == (Q - 1) \div 2
<1>1. s \in Int /\ t \in Int /\ 0 <= t /\ t < P /\ Q = P * s + t
  BY Division
<1>2. h \in Nat /\ half \in Nat /\ h + half = Q - 1 /\ half <= h
  OBVIOUS
<1> HIDE DEF s, t, h, half
<1> DEFINE a == (v + n) * t
           b == e * P
           c == noise * P
           f == h + b - a
<1>3. a \in Int /\ b \in Int /\ c \in Int /\ 0 <= a
  BY <1>1
<1>4. b <= c /\ 0 - b <= c
  BY <1>1, <1>b
<1>5. c + a <= half
  BY <1>b DEF half, t
<1>6. f \in 0 .. Q - 1
  <2> HIDE DEF a, b, c
  <2>. QED  BY <1>2, <1>3, <1>4, <1>5
<1> DEFINE w == v + n
           x == w + P * k
           g == w * Q
           i == (Q * k) * P
<1>7. O * P + h = Q * x + f
  <2>1. P * s = Q - t
    BY <1>1
  <2>2. O = w * s + e + Q * k
    BY <1>1, <1>b DEF s
  <2>3. O * P = w * (P * s) + b + i
    <3>1. w \in Int /\ Q * k \in Int
      OBVIOUS
    <3> HIDE DEF w
    <3>2. (w * s + e + Q * k) * P = w * (P * s) + e * P + (Q * k) * P
      BY <1>1, <3>1
    <3>. QED  BY <2>2, <3>2
  <2>4. w * (P * s) = g - a
    BY <1>1, <2>1
  <2>5. Q * x = g + i
    OBVIOUS
  <2>6. g \in Int /\ i \in Int /\ O * P \in Int
    OBVIOUS
  <2>7. O * P = g - a + b + i
    <3> DEFINE y == O * P
               z == w * (P * s)
    <3>1. y = z + b + i /\ z = g - a
      BY <2>3, <2>4
    <3> HIDE DEF y, z
    <3>2. y = g - a + b + i
      BY <3>1
    <3>. QED  BY <3>2 DEF y
  <2>8. f = h + b - a /\ h \in Int
    BY <1>2
  <2> DEFINE y == O * P
             z == Q * x
  <2>9. y = g - a + b + i /\ z = g + i
    BY <2>5, <2>7
  <2> HIDE DEF a, b, f, g, h, i, x, y, z
  <2>10. y + h = z + f
    BY <1>3, <2>6, <2>8, <2>9
  <2>. QED  BY <2>10 DEF y, z
<1>8. x \in Int /\ O * P + h \in Int /\ w \in Int
  BY <1>2
<1>9. Congruent(x, w, P)
  BY <1>8 DEF Congruent
<1> DEFINE u == O * P + h
<1>10. u \div Q = x
  <2>1. u \in Int /\ x \in Int /\ u = Q * x + f
    BY <1>7, <1>8
  <2> HIDE DEF u, x, f
  <2>. QED  BY <1>6, <2>1, QuotientIs
<1>11. x % P = w % P
  <2>1. x \in Int /\ w \in Int /\ Congruent(x, w, P)
    BY <1>8, <1>9
  <2> HIDE DEF x, w
  <2>. QED  BY <2>1, CongruentSame
<1>. QED  BY <1>10, <1>11 DEF Rounded, h

\* What a party shows, once it has a mask.
Shown(i) == IF mask[i] = NoShare THEN NoShare ELSE (shares[i] + MaskScaled(mask[i])) % q

ConvertInv ==
  /\ ConvertTypeOK
  /\ ConvertAccepted
  /\ masked = [i \in Parties |-> Shown(i)]
  /\ \A i \in Parties : converted[i] # NoShare =>
       mask[i] # NoShare /\ mask[Peer(i)] # NoShare /\ converted[i] = Finished(i)

LEMMA Moduli ==
  ASSUME moduli \in ModuliPairs, ConvertAccepted
  PROVE  p \in Nat /\ p >= 2 /\ q \in Nat /\ q >= p
<1>. QED  BY ModuliAssumption DEF ConvertAccepted, p, q

LEMMA InitConvert == ConvertInit => ConvertInv
<1> SUFFICES ASSUME ConvertInit PROVE ConvertInv
  OBVIOUS
<1>. QED  BY DEF ConvertInit, ConvertInv, ConvertTypeOK, Shown, Parties

LEMMA StepMaskShare ==
  ASSUME ConvertInv, NEW i \in Parties, NEW m \in 0 .. p - 1, MaskShare(i, m) PROVE ConvertInv'
<1>. USE DEF MaskShare
<1>1. p \in Nat /\ p >= 2 /\ q \in Nat /\ q >= p
  BY Moduli DEF ConvertInv, ConvertTypeOK
<1>2. shares[i] \in Nat /\ MaskScaled(m) \in Nat /\ m # NoShare
  BY <1>1 DEF ConvertInv, ConvertTypeOK, MaskScaled, Scale, NoShare
<1> DEFINE z == (shares[i] + MaskScaled(m)) % q
<1>3. z \in 0 .. q - 1
  BY <1>1, <1>2
<1> HIDE DEF z
<1>4. ConvertTypeOK' /\ ConvertAccepted'
  BY <1>3 DEF ConvertInv, ConvertTypeOK, ConvertAccepted, p, q, z
<1>5. masked' = [j \in Parties |-> Shown(j)']
  <2>1. \A j \in Parties : masked'[j] = Shown(j)'
    <3>1. TAKE j \in Parties
    <3>2. masked[j] = Shown(j) /\ masked' = [masked EXCEPT ![i] = z] /\ mask' = [mask EXCEPT ![i] = m]
          /\ DOMAIN masked = Parties /\ DOMAIN mask = Parties
      BY DEF ConvertInv, ConvertTypeOK, z
    <3>3. CASE j = i
      BY <1>2, <3>2, <3>3 DEF Shown, MaskScaled, Scale, p, q, z
    <3>4. CASE j # i
      BY <3>2, <3>4 DEF Shown, MaskScaled, Scale, p, q
    <3>. QED  BY <3>3, <3>4
  <2>2. masked' = [j \in Parties |-> masked'[j]]
    BY DEF ConvertInv
  <2>. QED  BY <2>1, <2>2
<1>6. \A j \in Parties : converted[j] # NoShare => i # j /\ i # Peer(j)
  BY DEF ConvertInv
<1>7. \A j \in Parties : converted'[j] # NoShare =>
        mask'[j] # NoShare /\ mask'[Peer(j)] # NoShare /\ converted'[j] = Finished(j)'
  <2>1. SUFFICES ASSUME NEW j \in Parties, converted[j] # NoShare
                 PROVE  mask'[j] # NoShare /\ mask'[Peer(j)] # NoShare /\ converted[j] = Finished(j)'
    OBVIOUS
  <2>2. mask' = mask /\ masked' = masked
    BY <1>6, <2>1 DEF Parties, Peer
  <2>. QED  BY <2>1, <2>2 DEF ConvertInv, Finished, Decoded, Opened, p, q
<1>. QED  BY <1>4, <1>5, <1>7 DEF ConvertInv

LEMMA ShownIs ==
  ASSUME ConvertInv, NEW i \in Parties, mask[i] # NoShare
  PROVE  /\ masked[i] = (shares[i] + MaskScaled(mask[i])) % q
         /\ masked[i] \in 0 .. q - 1 /\ mask[i] \in 0 .. p - 1 /\ shares[i] \in 0 .. q - 1
<1>1. p \in Nat /\ p >= 2 /\ q \in Nat /\ q >= p
  BY Moduli DEF ConvertInv, ConvertTypeOK
<1>2. masked[i] = (shares[i] + MaskScaled(mask[i])) % q
  BY DEF ConvertInv, Shown
<1>3. mask[i] \in 0 .. p - 1 /\ shares[i] \in 0 .. q - 1
  BY DEF ConvertInv, ConvertTypeOK
<1>4. MaskScaled(mask[i]) \in Nat
  BY <1>1, <1>3 DEF MaskScaled, Scale
<1> DEFINE z == shares[i] + MaskScaled(mask[i])
<1>5. z \in Nat
  BY <1>3, <1>4
<1> HIDE DEF z
<1>6. z % q \in 0 .. q - 1
  BY <1>1, <1>5
<1>. QED  BY <1>2, <1>3, <1>6 DEF z

LEMMA StepFinishShare ==
  ASSUME ConvertInv, NEW i \in Parties, FinishShare(i) PROVE ConvertInv'
<1>. USE DEF FinishShare
<1>1. p \in Nat /\ p >= 2 /\ q \in Nat /\ q >= p
  BY Moduli DEF ConvertInv, ConvertTypeOK
<1>2. /\ mask[i] # NoShare /\ mask[Peer(i)] # NoShare
      /\ mask[0] \in 0 .. p - 1 /\ mask[1] \in 0 .. p - 1
  BY DEF ConvertInv, ConvertTypeOK, Parties, Peer, Shown
<1>3. Finished(i) \in 0 .. p - 1
  <2>1. CASE i = 0
    <3>1. masked[0] \in 0 .. q - 1 /\ masked[1] \in 0 .. q - 1
      BY <1>2, <2>1, ShownIs DEF Parties, Peer
    <3>2. Opened \in Nat
      BY <1>1, <3>1 DEF Opened
    <3>3. Decoded(Opened) \in Nat
      BY <1>1, <3>2 DEF Decoded
    <3>. QED  BY <1>1, <1>2, <2>1, <3>3 DEF Finished
  <2>2. CASE i = 1
    BY <1>1, <1>2, <2>2 DEF Finished
  <2>. QED  BY <2>1, <2>2 DEF Parties
<1>4. ConvertTypeOK' /\ ConvertAccepted'
  BY <1>3 DEF ConvertInv, ConvertTypeOK, ConvertAccepted, p, q
<1>5. (masked = [j \in Parties |-> Shown(j)])'
  BY DEF ConvertInv, Shown, MaskScaled, Scale, p, q
<1>6. \A j \in Parties : Finished(j)' = Finished(j)
  BY DEF Finished, Decoded, Opened, p, q
<1>7. \A j \in Parties : converted'[j] # NoShare =>
        mask'[j] # NoShare /\ mask'[Peer(j)] # NoShare /\ converted'[j] = Finished(j)'
  BY <1>2, <1>6 DEF ConvertInv, ConvertTypeOK
<1>. QED  BY <1>4, <1>5, <1>7 DEF ConvertInv
\* What the parties have opened and what they end with.
LEMMA WhenBothConverted ==
  ASSUME ConvertInv, BothConverted
  PROVE  /\ mask[0] \in 0 .. p - 1 /\ mask[1] \in 0 .. p - 1
         /\ HeldValue \in Nat /\ Opened \in Nat
         /\ \E k \in Int : Opened = HeldValue + (mask[0] + mask[1]) * Scale + q * k
         /\ converted \in [Parties -> 0 .. p - 1]
         /\ ConvertedValue = (Decoded(Opened) - (mask[0] + mask[1])) % p
<1>1. p \in Nat /\ p >= 2 /\ q \in Nat /\ q >= p
  BY Moduli DEF ConvertInv, ConvertTypeOK
<1> DEFINE a == shares[0]
           b == shares[1]
           m == mask[0]
           l == mask[1]
           u == masked[0]
           v == masked[1]
           s == Scale
<1>2. /\ m # NoShare /\ l # NoShare
      /\ converted[0] = Finished(0) /\ converted[1] = Finished(1)
      /\ converted[0] # NoShare /\ converted[1] # NoShare
  BY DEF ConvertInv, BothConverted, Parties, Peer
<1>3. /\ a \in 0 .. q - 1 /\ b \in 0 .. q - 1 /\ m \in 0 .. p - 1 /\ l \in 0 .. p - 1
      /\ u \in 0 .. q - 1 /\ v \in 0 .. q - 1
      /\ u = (a + ((m * s) % q)) % q /\ v = (b + ((l * s) % q)) % q
  <2>1. 0 \in Parties /\ 1 \in Parties
    BY DEF Parties
  <2>2. \A i \in Parties : mask[i] # NoShare =>
          /\ masked[i] = (shares[i] + ((mask[i] * Scale) % q)) % q
          /\ masked[i] \in 0 .. q - 1 /\ mask[i] \in 0 .. p - 1 /\ shares[i] \in 0 .. q - 1
    BY ShownIs DEF MaskScaled
  <2>. QED  BY <1>2, <2>1, <2>2
<1>4. s \in Nat
  BY <1>1, QuotientOfNat DEF Scale
<1>5. HeldValue = (a + b) % q /\ Opened = (u + v) % q
  BY DEF HeldValue, Opened
<1>6. HeldValue \in Nat /\ Opened \in Nat
  <2> HIDE DEF a, b, u, v
  <2>. QED  BY <1>1, <1>3, <1>5
<1>7. converted \in [Parties -> 0 .. p - 1]
  BY <1>2 DEF ConvertInv, ConvertTypeOK, Parties
<1>8. Congruent(Opened, HeldValue + (m + l) * s, q)
  <2> HIDE DEF a, b, m, l, u, v, s
  <2>1. \A x \in Nat : Congruent(x % q, x, q) /\ Congruent(x, x % q, q) /\ Congruent(x, x, q) /\ x % q \in Nat
    BY <1>1, RemainderCongruent, CongruentItself
  <2> DEFINE ms == m * s
             ls == l * s
             x == a + ms
             y == b + ls
  <2>2. ms \in Nat /\ ls \in Nat /\ x \in Nat /\ y \in Nat /\ (m + l) * s = ms + ls
    BY <1>3, <1>4
  <2> DEFINE r == ms % q
             t == ls % q
  <2>3. Congruent(r, ms, q) /\ Congruent(t, ls, q) /\ r \in Nat /\ t \in Nat
    BY <2>1, <2>2
  <2>4. u = (a + r) % q /\ v = (b + t) % q
    BY <1>3
  <2> HIDE DEF ms, ls, r, t
  <2>5. Congruent(a + r, x, q) /\ Congruent(b + t, y, q) /\ a + r \in Nat /\ b + t \in Nat
    <3>1. Congruent(a, a, q) /\ Congruent(b, b, q)
      BY <1>3, <2>1
    <3>. QED  BY <1>1, <1>3, <2>2, <2>3, <3>1, CongruentSum
  <2>6. Congruent(u, a + r, q) /\ Congruent(v, b + t, q)
    BY <2>1, <2>4, <2>5
  <2>7. Congruent(u, x, q) /\ Congruent(v, y, q)
    BY <1>1, <1>3, <2>2, <2>5, <2>6, CongruentChain
  <2>8. Congruent(u + v, x + y, q)
    BY <1>1, <1>3, <2>2, <2>7, CongruentSum
  <2>9. Congruent(Opened, u + v, q) /\ Congruent(a + b, HeldValue, q)
    <3>1. u + v \in Nat /\ a + b \in Nat
      BY <1>3
    <3>. QED  BY <1>5, <2>1, <3>1
  <2>10. Congruent((a + b) + (ms + ls), HeldValue + (ms + ls), q)
    <3>1. Congruent(ms + ls, ms + ls, q) /\ ms + ls \in Int /\ a + b \in Int
      BY <1>3, <2>1, <2>2
    <3>. QED  BY <1>1, <1>6, <2>9, <3>1, CongruentSum
  <2>11. x + y = (a + b) + (ms + ls)
    BY <1>3, <2>2
  <2> DEFINE e == u + v
             f == x + y
             g == HeldValue + (ms + ls)
  <2>12. e \in Int /\ f \in Int /\ g \in Int
    BY <1>3, <1>6, <2>2
  <2>13. Congruent(Opened, e, q) /\ Congruent(e, f, q) /\ Congruent(f, g, q)
    BY <2>8, <2>9, <2>10, <2>11
  <2> HIDE DEF e, f, g
  <2>14. Congruent(Opened, f, q)
    BY <1>1, <1>6, <2>12, <2>13, CongruentChain
  <2>15. Congruent(Opened, g, q)
    BY <1>1, <1>6, <2>12, <2>13, <2>14, CongruentChain
  <2>. QED  BY <2>2, <2>15 DEF g
<1>9. \E k \in Int : Opened = HeldValue + (m + l) * s + q * k
  BY <1>8 DEF Congruent
<1>10. ConvertedValue = (Decoded(Opened) - (m + l)) % p
  <2> DEFINE d == Decoded(Opened)
             x == d + (p - m)
             y == IF l = 0 THEN 0 ELSE p - l
  <2>1. d \in Nat
    <3>1. Opened * p + q \div 2 \in Nat
      BY <1>1, <1>6, QuotientOfNat
    <3>2. (Opened * p + q \div 2) \div q \in Nat
      BY <1>1, <3>1, QuotientOfNat
    <3>. QED  BY <1>1, <3>2, QuotientOfNat DEF Decoded
  <2>2. converted[0] = x % p /\ converted[1] = y
    BY <1>2 DEF Finished
  <2> HIDE DEF d, m, l
  <2>3. x \in Nat /\ y \in Nat
    BY <1>1, <1>3, <2>1
  <2>4. x = (d - m) + p * 1 /\ (y = (0 - l) + p * 0 \/ y = (0 - l) + p * 1) /\ 1 \in Int /\ 0 \in Int
    BY <1>1, <1>3, <2>1
  <2>5. Congruent(x, d - m, p) /\ Congruent(y, 0 - l, p)
    BY <2>4 DEF Congruent
  <2> HIDE DEF x, y
  <2>6. Congruent(x % p, x, p) /\ x % p \in Nat
    BY <1>1, <2>3, RemainderCongruent
  <2>7. Congruent(x % p, d - m, p)
    <3>1. d - m \in Int
      BY <1>3, <2>1
    <3>. QED  BY <1>1, <2>3, <2>5, <2>6, <3>1, CongruentChain
  <2> DEFINE w == x % p
             z == d - (m + l)
  <2>8. Congruent(w + y, (d - m) + (0 - l), p)
    <3>1. d - m \in Int /\ 0 - l \in Int /\ w \in Int /\ y \in Int /\ Congruent(w, d - m, p)
      BY <1>3, <2>1, <2>3, <2>6, <2>7
    <3> HIDE DEF w
    <3>. QED  BY <1>1, <2>5, <3>1, CongruentSum
  <2>9. (d - m) + (0 - l) = z /\ z \in Int /\ w + y \in Int
    BY <1>3, <2>1, <2>3, <2>6
  <2>10. (w + y) % p = z % p
    <3>1. Congruent(w + y, z, p)
      BY <2>8, <2>9
    <3> HIDE DEF w, z
    <3>. QED  BY <1>1, <2>9, <3>1, CongruentSame
  <2>. QED  BY <2>2, <2>10 DEF ConvertedValue, d
<1>. QED  BY <1>3, <1>6, <1>7, <1>9, <1>10

\* Less by fewer than P, and not by 0, is not the same modulo P.
LEMMA NotTheSame ==
  ASSUME NEW P \in Nat, P > 0, NEW d \in Int, NEW j \in Nat, j < P
  PROVE  (d - j) % P = d % P <=> j = 0
<1>1. ASSUME (d - j) % P = d % P PROVE j = 0
  <2> DEFINE x == d - j
             k == d \div P
             l == x \div P
             r == d % P
             t == x % P
  <2>1. x \in Int
    OBVIOUS
  <2>2. k \in Int /\ d = P * k + r /\ l \in Int /\ x = P * l + t /\ r \in Int /\ t \in Int
    <3> HIDE DEF x
    <3>. QED  BY <2>1, Division
  <2>3. r = t
    BY <1>1
  <2> HIDE DEF k, l, r, t
  <2>4. j = P * k - P * l
    BY <2>2, <2>3
  <2>5. P * k - P * l = P * (k - l) /\ k - l \in Int
    BY <2>2
  <2> DEFINE e == k - l
  <2>6. e \in Int /\ j = P * e
    BY <2>4, <2>5
  <2> HIDE DEF e
  <2>7. CASE e >= 1
    <3>1. P * e >= P
      BY <2>6, <2>7
    <3>. QED  BY <2>6, <3>1
  <2>8. CASE e <= 0
    <3>1. P * e <= 0
      BY <2>6, <2>8
    <3>. QED  BY <2>6, <3>1
  <2>. QED  BY <2>6, <2>7, <2>8
<1>2. ASSUME j = 0 PROVE (d - j) % P = d % P
  <2>1. d - j = d
    BY <1>2
  <2>. QED  BY <2>1
<1>. QED  BY <1>1, <1>2
LEMMA InvConverts ==
  ASSUME ConvertInv, BothConverted
  PROVE  /\ converted \in [Parties -> 0 .. p - 1]
         /\ ConvertedValue = Decoded(HeldValue)
              <=> (HeldValue * p + q \div 2) % q >= (mask[0] + mask[1]) * Shortfall
         /\ ToleratesNoise
<1>1. p \in Nat /\ p >= 2 /\ q \in Nat /\ q >= p
  BY Moduli DEF ConvertInv, ConvertTypeOK
<1> DEFINE n == mask[0] + mask[1]
           H == HeldValue
           O == Opened
           s == Scale
<1>2. /\ n \in Nat /\ n <= 2 * (p - 1) /\ H \in Nat /\ O \in Nat /\ s \in Nat
      /\ ConvertedValue = (Decoded(O) - n) % p
  <2>1. s \in Nat
    BY <1>1, QuotientOfNat DEF Scale
  <2>. QED  BY <1>1, <2>1, WhenBothConverted
<1>3. PICK k \in Int : O = H + n * s + q * k
  BY WhenBothConverted
<1>4. \A v \in Nat : Decoded(v) = Rounded(v, q, p)
  BY DEF Decoded, Rounded
<1> HIDE DEF n, H, O
<1>5. \A d \in Int : Congruent((d % p) - n, d - n, p)
  <2>1. TAKE d \in Int
  <2> DEFINE r == d % p
  <2>2. Congruent(r, d, p) /\ Congruent(n, n, p) /\ r \in Int
    BY <1>1, <1>2, RemainderCongruent, CongruentItself, Division
  <2> HIDE DEF r
  <2>3. Congruent(r - n, d - n, p)
    BY <1>1, <1>2, <2>2, CongruentSum
  <2>. QED  BY <2>3 DEF r
<1>6. \A d \in Int : ((d % p) - n) % p = (d - n) % p
  <2>1. TAKE d \in Int
  <2> DEFINE x == (d % p) - n
             y == d - n
  <2>2. x \in Int /\ y \in Int /\ Congruent(x, y, p)
    <3>1. d % p \in Int
      BY <1>1, Division
    <3>. QED  BY <1>2, <1>5, <3>1
  <2> HIDE DEF x, y
  <2>3. x % p = y % p
    BY <1>1, <2>2, CongruentSame
  <2>. QED  BY <2>3 DEF x, y
<1>7. ConvertedValue = Decoded(H) <=> (H * p + q \div 2) % q >= n * Shortfall
  <2> DEFINE d == (H * p + q \div 2) \div q
             r == (H * p + q \div 2) % q
  <2>1. d \in Int
    <3>1. H * p + q \div 2 \in Nat
      BY <1>1, <1>2, QuotientOfNat
    <3>. QED  BY <1>1, <3>1, QuotientOfNat
  <2>2. PICK j \in Nat : /\ j < p
                         /\ j = 0 <=> r >= n * (q % p)
                         /\ Rounded(O, q, p) = (d + n - j) % p
    <3>1. H \in Int /\ O \in Int /\ O = H + n * (q \div p) + q * k
      BY <1>2, <1>3 DEF Scale
    <3>2. \A h \in Int, m \in Nat, l \in Int, o \in Int :
            m <= 2 * (p - 1) /\ o = h + m * (q \div p) + q * l =>
              \E j \in Nat : /\ j < p
                             /\ j = 0 <=> (h * p + q \div 2) % q >= m * (q % p)
                             /\ Rounded(o, q, p) = (((h * p + q \div 2) \div q) + m - j) % p
      BY <1>1, RoundedWithMasks
    <3>. QED  BY <1>2, <3>1, <3>2, Zenon
  <2>3. Decoded(H) = d % p
    BY DEF Decoded
  <2> HIDE DEF d, r
  <2>4. ConvertedValue = ((d + n - j) - n) % p
    <3>1. d + n - j \in Int
      BY <1>2, <2>1
    <3>. QED  BY <1>2, <1>4, <1>6, <2>2, <3>1
  <2>5. (d + n - j) - n = d - j
    BY <1>2, <2>1
  <2>6. (d - j) % p = d % p <=> j = 0
    <3>1. p > 0
      BY <1>1
    <3>. QED  BY <1>1, <2>1, <2>2, <3>1, NotTheSame, Zenon
  <2>. QED  BY <2>2, <2>3, <2>4, <2>5, <2>6 DEF Shortfall, r
<1>8. ASSUME NEW v \in 0 .. p - 1
      PROVE  LET carried == (v * Scale) % q
                 up == (H + (q - carried)) % q
                 noise == IF 2 * up > q THEN q - up ELSE up
             IN  noise * p + (v + mask[0] + mask[1]) * Shortfall <= (q - 1) \div 2 => ConvertedValue = v
  <2> DEFINE c == v * s
             t == Shortfall
             x == H + (q - c)
             up == x % q
             l == x \div q
             noise == IF 2 * up > q THEN q - up ELSE up
             e == IF 2 * up > q THEN up - q ELSE up
             g == IF 2 * up > q THEN l ELSE l - 1
  <2>1. t \in Nat /\ q = p * s + t
    BY <1>1, Division DEF Scale, Shortfall
  <2>2. c \in Nat /\ c < q /\ v \in Nat
    <3>1. v * s <= (p - 1) * s
      BY <1>1, <1>2
    <3>2. (p - 1) * s = p * s - s /\ p * s \in Int
      BY <1>1, <1>2
    <3>3. s > 0
      <4>1. SUFFICES ASSUME s = 0 PROVE FALSE
        BY <1>2
      <4>2. t < p
        BY <1>1, Division DEF Shortfall
      <4>. QED  BY <1>1, <2>1, <4>1, <4>2
    <3>4. c \in Nat /\ v \in Nat
      BY <1>1, <1>2
    <3> HIDE DEF c
    <3>5. c <= p * s - s
      BY <3>1, <3>2 DEF c
    <3>. QED  BY <1>2, <2>1, <3>2, <3>3, <3>4, <3>5
  <2>3. c % q = c
    <3> HIDE DEF c
    <3>. QED  BY <1>1, <2>2
  <2> HIDE DEF c
  <2>4. x \in Int
    BY <1>1, <1>2, <2>2
  <2>5. up \in Int /\ 0 <= up /\ up < q /\ l \in Int /\ x = q * l + up
    <3> HIDE DEF x
    <3>. QED  BY <1>1, <2>4, Division
  <2> HIDE DEF up, l
  <2>6. noise \in Nat /\ e \in Int /\ e <= noise /\ 0 - e <= noise /\ g \in Int
    BY <1>1, <2>5
  <2>7. H = c + e + q * g
    <3>1. q * (l - 1) = q * l - q /\ q * l \in Int
      BY <1>1, <2>5
    <3>2. CASE 2 * up > q
      BY <1>1, <1>2, <2>2, <2>5, <3>1, <3>2
    <3>3. CASE ~(2 * up > q)
      BY <1>1, <1>2, <2>2, <2>5, <3>1, <3>3
    <3>. QED  BY <3>2, <3>3
  <2> HIDE DEF noise, e, g, x
  <2>8. ASSUME noise * p + (v + n) * t <= (q - 1) \div 2 PROVE ConvertedValue = v
    <3> DEFINE h == g + k
    <3>1. h \in Int /\ q * h = q * g + q * k /\ q * g \in Int /\ q * k \in Int
      BY <1>1, <2>6
    <3>2. (v + n) * s = c + n * s /\ n * s \in Int /\ (v + n) * s \in Int
      BY <1>2, <2>2 DEF c
    <3>3. O = (v + n) * s + e + q * h
      <4> DEFINE a == n * s
                 b == (v + n) * s
                 f == q * g
                 i == q * k
                 y == q * h
      <4>1. /\ a \in Int /\ b \in Int /\ f \in Int /\ i \in Int
            /\ O = H + a + i /\ H = c + e + f /\ b = c + a /\ y = f + i
        BY <1>3, <2>7, <3>1, <3>2
      <4> HIDE DEF a, b, f, i, y
      <4>2. O = b + e + y
        BY <1>2, <2>2, <2>6, <4>1
      <4>. QED  BY <4>2 DEF b, y
    <3> HIDE DEF h
    <3>4. noise * p + (v + n) * (q % p) <= (q - 1) \div 2
      BY <2>8 DEF Shortfall
    <3>5. Rounded(O, q, p) = (v + n) % p
      <4>1. O \in Int /\ O = (v + n) * (q \div p) + e + q * h
        BY <1>2, <3>3 DEF Scale
      <4>2. \A v1 \in Nat, n1 \in Nat, k1 \in Int, e1 \in Int, m1 \in Nat, o1 \in Int :
              /\ e1 <= m1 /\ 0 - e1 <= m1
              /\ m1 * p + (v1 + n1) * (q % p) <= (q - 1) \div 2
              /\ o1 = (v1 + n1) * (q \div p) + e1 + q * k1
              => Rounded(o1, q, p) = (v1 + n1) % p
        BY <1>1, RoundedWithNoise
      <4>3. v \in Nat /\ n \in Nat /\ h \in Int /\ e \in Int /\ noise \in Nat /\ O \in Int
        BY <1>2, <2>2, <2>6, <3>1, <4>1
      <4>4. \A k1 \in Int, e1 \in Int, m1 \in Nat, o1 \in Int :
              /\ e1 <= m1 /\ 0 - e1 <= m1
              /\ m1 * p + (v + n) * (q % p) <= (q - 1) \div 2
              /\ o1 = (v + n) * (q \div p) + e1 + q * k1
              => Rounded(o1, q, p) = (v + n) % p
        BY <4>2, <4>3, Zenon
      <4>5. e <= noise /\ 0 - e <= noise
        BY <2>6
      <4>. QED  BY <3>4, <4>1, <4>3, <4>4, <4>5, Zenon
    <3>6. ConvertedValue = ((v + n) - n) % p
      <4>1. v + n \in Int
        BY <1>2, <2>2
      <4>. QED  BY <1>2, <1>4, <1>6, <3>5, <4>1
    <3>7. (v + n) - n = v /\ v % p = v
      BY <1>1, <1>2, <2>2
    <3>. QED  BY <3>6, <3>7
  <2>9. /\ (v * Scale) % q = c
        /\ (H + (q - c)) % q = up
        /\ v + mask[0] + mask[1] = v + n
    <3>1. mask[0] \in Int /\ mask[1] \in Int
      BY <1>1, WhenBothConverted
    <3>. QED  BY <2>2, <2>3, <3>1 DEF c, up, x, n
  <2>. QED  BY <2>8, <2>9 DEF noise
<1>. QED  BY <1>7, <1>8, WhenBothConverted DEF H, n, ToleratesNoise

\* Both parties end with reduced shares of what the masked exchange decodes:
\* the value an opening without masks would decode, except exactly where the
\* shortfall of the masks crosses a rounding boundary, and the carried value
\* whenever its noise leaves room (conversion.rs, convert_pair_local).
THEOREM ConversionIsRight == ConvertSpec => []Converts
<1>1. ConvertInit => ConvertInv
  BY InitConvert
<1>2. ConvertInv /\ [ConvertNext]_convertVars => ConvertInv'
  <2>1. ASSUME ConvertInv, UNCHANGED convertVars PROVE ConvertInv'
    BY <2>1 DEF ConvertInv, ConvertTypeOK, ConvertAccepted, Shown, MaskScaled, Scale, Finished,
                Decoded, Opened, p, q, convertVars
  <2>. QED  BY <2>1, StepMaskShare, StepFinishShare DEF ConvertNext
<1>3. ConvertInv => Converts
  BY InvConverts DEF Converts, AgreesWithOpening, ToleratesNoise
<1>. QED  BY <1>1, <1>2, <1>3, PTL DEF ConvertSpec
-----------------------------------------------------------------------------
(* Comparison.                                                             *)

\* x are reduced shares of v modulo m.
IsSharing(x, v, m) == x \in PairsModulo(m) /\ Congruent(x.p0 + x.p1, v, m)

LEMMA SharingReconstructs ==
  ASSUME NEW m \in Nat, m > 0, NEW x, NEW v \in 0 .. m - 1, IsSharing(x, v, m)
  PROVE  Reconstruct(x, m) = v
<1>1. x.p0 \in 0 .. m - 1 /\ x.p1 \in 0 .. m - 1 /\ Congruent(x.p0 + x.p1, v, m)
  BY DEF IsSharing, PairsModulo
<1>2. x.p0 + x.p1 \in Int /\ v \in Int
  BY <1>1
<1>3. (x.p0 + x.p1) % m = v % m
  BY <1>1, <1>2, CongruentSame
<1>4. v % m = v
  OBVIOUS
<1>. QED  BY <1>3, <1>4 DEF Reconstruct

LEMMA SumIsSharing ==
  ASSUME NEW m \in Nat, m > 0, NEW x, NEW v \in Int, IsSharing(x, v, m), NEW y, NEW w \in Int, IsSharing(y, w, m)
  PROVE  IsSharing(AddShares(x, y, m), v + w, m)
<1>1. /\ x.p0 \in 0 .. m - 1 /\ x.p1 \in 0 .. m - 1 /\ Congruent(x.p0 + x.p1, v, m)
      /\ y.p0 \in 0 .. m - 1 /\ y.p1 \in 0 .. m - 1 /\ Congruent(y.p0 + y.p1, w, m)
  BY DEF IsSharing, PairsModulo
<1> DEFINE a == x.p0
           b == x.p1
           c == y.p0
           d == y.p1
           s == AddReduced(a, c, m)
           t == AddReduced(b, d, m)
<1>2. AddShares(x, y, m) = [p0 |-> s, p1 |-> t]
  BY DEF AddShares
<1>3. a \in 0 .. m - 1 /\ b \in 0 .. m - 1 /\ c \in 0 .. m - 1 /\ d \in 0 .. m - 1
  BY <1>1
<1>4. Congruent(a + b, v, m) /\ Congruent(c + d, w, m)
  BY <1>1
<1> HIDE DEF a, b, c, d
<1>5. s \in 0 .. m - 1 /\ Congruent(s, a + c, m) /\ t \in 0 .. m - 1 /\ Congruent(t, b + d, m)
  BY <1>3, SumsReduced
<1> HIDE DEF s, t
<1>6. Congruent(s + t, (a + c) + (b + d), m)
  BY <1>3, <1>5, CongruentSum
<1>7. Congruent((a + b) + (c + d), v + w, m)
  BY <1>3, <1>4, CongruentSum
<1>8. (a + c) + (b + d) = (a + b) + (c + d) /\ s + t \in Int /\ (a + b) + (c + d) \in Int /\ v + w \in Int
  BY <1>3, <1>5
<1>9. Congruent(s + t, v + w, m)
  BY <1>6, <1>7, <1>8, CongruentChain
<1>. QED  BY <1>2, <1>5, <1>9 DEF IsSharing, PairsModulo

LEMMA MultipleIsSharing ==
  ASSUME NEW m \in Nat, m > 0, NEW x, NEW v \in Int, IsSharing(x, v, m), NEW k \in Nat
  PROVE  IsSharing(ScaledShares(x, k, m), v * k, m)
<1>1. /\ x.p0 \in 0 .. m - 1 /\ x.p1 \in 0 .. m - 1 /\ Congruent(x.p0 + x.p1, v, m)
  BY DEF IsSharing, PairsModulo
<1> DEFINE a == x.p0
           b == x.p1
           ak == a * k
           bk == b * k
           s == ak % m
           t == bk % m
<1>2. ScaledShares(x, k, m) = [p0 |-> s, p1 |-> t]
  BY DEF ScaledShares
<1>3. a \in 0 .. m - 1 /\ b \in 0 .. m - 1 /\ Congruent(a + b, v, m)
  BY <1>1
<1> HIDE DEF a, b
<1>4. ak \in Int /\ bk \in Int /\ v * k \in Int /\ a + b \in Int /\ k \in Int /\ (a + b) * k = ak + bk
  BY <1>3
<1>7. Congruent((a + b) * k, v * k, m)
  BY <1>3, <1>4, CongruentTimes
<1> HIDE DEF ak, bk
<1>5. s \in 0 .. m - 1 /\ t \in 0 .. m - 1 /\ Congruent(s, ak, m) /\ Congruent(t, bk, m)
  <2>1. s \in 0 .. m - 1 /\ t \in 0 .. m - 1
    BY <1>4
  <2>2. Congruent(ak % m, ak, m) /\ Congruent(bk % m, bk, m)
    BY <1>4, RemainderCongruent
  <2>. QED  BY <2>1, <2>2
<1> HIDE DEF s, t
<1>6. Congruent(s + t, ak + bk, m)
  BY <1>4, <1>5, CongruentSum
<1>8. s + t \in Int /\ ak + bk \in Int
  BY <1>4, <1>5
<1>9. Congruent(s + t, v * k, m)
  BY <1>4, <1>6, <1>7, <1>8, CongruentChain
<1>. QED  BY <1>2, <1>5, <1>9 DEF IsSharing, PairsModulo

\* Shares of an index select the column that they add up to.
LEMMA SelectsSum ==
  ASSUME NEW m \in Nat, m > 0, NEW index, index.p0 \in Nat, index.p1 \in Nat,
         NEW s \in 0 .. m - 1, Congruent(index.p0 + index.p1, s, m)
  PROVE  Selected(index, m) = s
<1> DEFINE a == index.p0
           b == index.p1
<1>1. a \in Nat /\ b \in Nat /\ Congruent(a + b, s, m) /\ Selected(index, m) = ((a % m) + (b % m)) % m
  BY DEF Selected
<1> HIDE DEF a, b
<1>2. Congruent(a % m, a, m) /\ Congruent(b % m, b, m) /\ a % m \in Nat /\ b % m \in Nat
  <2>1. a \in Int /\ b \in Int
    BY <1>1
  <2>2. Congruent(a % m, a, m) /\ Congruent(b % m, b, m)
    BY <2>1, RemainderCongruent
  <2>3. a % m \in Nat /\ b % m \in Nat
    BY <1>1, QuotientOfNat
  <2>. QED  BY <2>2, <2>3
<1>3. Congruent((a % m) + (b % m), a + b, m)
  BY <1>1, <1>2, CongruentSum
<1>4. Congruent((a % m) + (b % m), s, m)
  <2>1. (a % m) + (b % m) \in Int /\ a + b \in Int /\ s \in Int
    BY <1>1, <1>2
  <2>. QED  BY <1>1, <1>3, <2>1, CongruentChain
<1>5. ((a % m) + (b % m)) % m = s % m
  <2>1. (a % m) + (b % m) \in Int /\ s \in Int
    BY <1>2
  <2>. QED  BY <1>4, <2>1, CongruentSame
<1>6. s % m = s
  OBVIOUS
<1>. QED  BY <1>1, <1>5, <1>6

\* A lookup yields shares of what its table holds at the selected column.
LEMMA LooksUp ==
  ASSUME NEW domain \in Nat, domain > 0, NEW index, NEW s, Selected(index, domain) = s,
         NEW support, NEW table, NEW v \in Nat, v = (IF s \in support THEN table[s] ELSE 0),
         NEW draw \in Nat, NEW m \in Nat, m > 0
  PROVE  IsSharing(Lookup(index, domain, support, table, draw, m), v, m)
<1>1. Lookup(index, domain, support, table, draw, m) = Shared(v, draw, m)
  BY DEF Lookup
<1>. QED  BY <1>1, SharedIsSharing DEF IsSharing
-----------------------------------------------------------------------------
(* Digits of numbers and of sums.                                          *)

LEMMA TimesPositive ==
  ASSUME NEW a \in Nat, a > 0, NEW b \in Nat, b > 0
  PROVE  a * b \in Nat /\ a * b > 0 /\ a * b >= a /\ a * b >= b
<1>1. a * b \in Nat
  OBVIOUS
<1>2. PICK c \in Nat : b = c + 1
  <2>1. b - 1 \in Nat /\ b = (b - 1) + 1
    OBVIOUS
  <2>. QED  BY <2>1
<1>3. a * b = a * c + a /\ a * c \in Nat
  BY <1>2
<1>4. PICK e \in Nat : a = e + 1
  <2>1. a - 1 \in Nat /\ a = (a - 1) + 1
    OBVIOUS
  <2>. QED  BY <2>1
<1>5. a * b = e * b + b /\ e * b \in Nat
  BY <1>4
<1>. QED  BY <1>1, <1>3, <1>5

\* A remainder below B behind a number below b.
LEMMA Stacked ==
  ASSUME NEW B \in Nat, B > 0, NEW b \in Nat, b > 0, NEW e \in 0 .. b - 1, NEW r \in 0 .. B - 1
  PROVE  B * e + r \in 0 .. B * b - 1
<1>1. PICK c \in Nat : b = e + 1 + c
  <2>1. b - 1 - e \in Nat /\ b = e + 1 + (b - 1 - e)
    OBVIOUS
  <2>. QED  BY <2>1
<1>2. B * b = B * e + B + B * c /\ B * c \in Nat /\ B * e \in Nat
  BY <1>1
<1>. QED  BY <1>2

LEMMA SplitProduct ==
  ASSUME NEW a \in Nat, NEW B \in Nat, B > 0, NEW b \in Nat, b > 0
  PROVE  /\ a % (B * b) = B * ((a \div B) % b) + (a % B)
         /\ a \div (B * b) = (a \div B) \div b
<1> DEFINE k == a \div B
           r == a % B
           l == k \div b
           e == k % b
<1>1. k \in Nat /\ r \in 0 .. B - 1 /\ a = B * k + r
  BY Division, QuotientOfNat
<1> HIDE DEF k, r
<1>2. l \in Nat /\ e \in 0 .. b - 1 /\ k = b * l + e
  BY <1>1, Division, QuotientOfNat
<1> HIDE DEF l, e
<1>3. B * e + r \in 0 .. B * b - 1 /\ B * b \in Nat /\ B * b > 0
  BY <1>1, <1>2, Stacked, TimesPositive
<1>4. a = (B * b) * l + (B * e + r)
  <2>1. B * (b * l + e) = (B * b) * l + B * e
    BY <1>2
  <2>. QED  BY <1>1, <1>2, <2>1
<1>5. a \div (B * b) = l /\ a % (B * b) = B * e + r
  <2> DEFINE M == B * b
             z == B * e + r
  <2>1. M \in Nat /\ M > 0 /\ z \in 0 .. M - 1 /\ a = M * l + z /\ l \in Int
    BY <1>2, <1>3, <1>4
  <2> HIDE DEF M, z
  <2>2. a \div M = l /\ a % M = z
    BY <2>1, QuotientIs
  <2>. QED  BY <2>2 DEF M, z
<1>. QED  BY <1>5, Zenon DEF k, r, l, e

\* The digit above B of a sum, and the carry out of it.
LEMMA DigitOfSum ==
  ASSUME NEW x \in Nat, NEW y \in Nat, NEW B \in Nat, B > 0, NEW b \in Nat, b > 0
  PROVE  LET c == ((x % B) + (y % B)) \div B
             s == ((x \div B) % b) + ((y \div B) % b) + c
         IN  /\ c \in {0, 1}
             /\ s \in 0 .. 2 * b - 1
             /\ ((x + y) \div B) % b = s % b
             /\ ((x % (B * b)) + (y % (B * b))) \div (B * b) = s \div b
<1> DEFINE k == x \div B
           l == y \div B
           g == x % B
           o == y % B
           d == k % b
           e == l % b
           c == (g + o) \div B
           r == (g + o) % B
           s == d + e + c
<1>1. k \in Nat /\ l \in Nat /\ g \in 0 .. B - 1 /\ o \in 0 .. B - 1 /\ x = B * k + g /\ y = B * l + o
  BY Division, QuotientOfNat
<1> HIDE DEF k, l, g, o
<1>2. c \in Nat /\ r \in 0 .. B - 1 /\ g + o = B * c + r
  <2> DEFINE z == g + o
  <2>1. z \in Nat
    BY <1>1
  <2> HIDE DEF z
  <2>2. z \div B \in Nat /\ (z % B) \in 0 .. B - 1 /\ z = B * (z \div B) + (z % B)
    BY <2>1, Division, QuotientOfNat
  <2>. QED  BY <2>2, Zenon DEF z
<1>3. d \in 0 .. b - 1 /\ e \in 0 .. b - 1
  BY <1>1
<1> HIDE DEF c, r
<1>4. c \in {0, 1}
  <2>1. ASSUME c >= 2 PROVE FALSE
    <3>1. PICK f \in Nat : c = 2 + f
      <4>1. c - 2 \in Nat /\ c = 2 + (c - 2)
        BY <1>2, <2>1
      <4>. QED  BY <4>1
    <3>2. B * c = 2 * B + B * f /\ B * f \in Nat
      BY <3>1
    <3>. QED  BY <1>1, <1>2, <3>2
  <2>. QED  BY <1>2, <2>1
<1>5. ((x + y) \div B) = k + l + c
  <2>1. B * (k + l + c) = B * k + B * l + B * c
    BY <1>1, <1>2
  <2>2. x + y = B * (k + l + c) + r /\ k + l + c \in Int /\ x + y \in Int
    BY <1>1, <1>2, <2>1
  <2>. QED  BY <1>2, <2>2, QuotientIs
<1>6. ((k + l + c) % b) = s % b
  <2>1. Congruent(k, d, b) /\ Congruent(l, e, b)
    BY <1>1, RemainderCongruent
  <2>2. Congruent(k + l, d + e, b)
    BY <1>1, <1>3, <2>1, CongruentSum
  <2>3. Congruent(c, c, b)
    BY <1>2, CongruentItself
  <2>4. k + l \in Int /\ d + e \in Int /\ c \in Int
    BY <1>1, <1>2, <1>3
  <2> HIDE DEF d, e
  <2>5. Congruent((k + l) + c, (d + e) + c, b)
    BY <2>2, <2>3, <2>4, CongruentSum
  <2>6. (k + l) + c \in Int /\ (d + e) + c \in Int
    BY <2>4
  <2>. QED  BY <2>5, <2>6, CongruentSame
<1>7. s \in 0 .. 2 * b - 1
  BY <1>3, <1>4
<1>8. ((x % (B * b)) + (y % (B * b))) \div (B * b) = s \div b
  <2>1. x % (B * b) = B * d + g /\ y % (B * b) = B * e + o
    <3>1. x % (B * b) = B * ((x \div B) % b) + (x % B) /\ y % (B * b) = B * ((y \div B) % b) + (y % B)
      BY SplitProduct
    <3>. QED  BY <3>1, Zenon DEF k, l, g, o
  <2> HIDE DEF d, e
  <2>2. B * (d + e + c) = B * d + B * e + B * c
    BY <1>2, <1>3
  <2>3. (x % (B * b)) + (y % (B * b)) = B * s + r
    BY <1>1, <1>2, <1>3, <2>1, <2>2
  <2> DEFINE a == B * s + r
  <2> HIDE DEF s
  <2>4. a \in Nat /\ a = B * s + r /\ s \in Int
    BY <1>2, <1>7
  <2> HIDE DEF a
  <2>5. a \div B = s
    BY <1>2, <2>4, QuotientIs
  <2>6. a \div (B * b) = s \div b
    BY <2>4, <2>5, SplitProduct
  <2>. QED  BY <2>3, <2>6 DEF a
<1>9. ((x + y) \div B) % b = s % b
  BY <1>5, <1>6
<1> HIDE DEF s
<1>10. c \in {0, 1} /\ s \in 0 .. 2 * b - 1 /\ ((x + y) \div B) % b = s % b
       /\ ((x % (B * b)) + (y % (B * b))) \div (B * b) = s \div b
  BY <1>4, <1>7, <1>8, <1>9
<1>. QED  BY <1>10, Zenon DEF s, d, e, k, l, g, o, c

\* Digits below N are those of the remainder modulo N.
Covers(N, B, b) == \E Q \in Nat : Q > 0 /\ N = (B * b) * Q
LEMMA DigitOfRemainder ==
  ASSUME NEW a \in Nat, NEW B \in Nat, B > 0, NEW b \in Nat, b > 0, NEW N, Covers(N, B, b)
  PROVE  ((a % N) \div B) % b = (a \div B) % b
<1> PICK Q \in Nat : Q > 0 /\ N = (B * b) * Q
  BY DEF Covers
<1>0. SUFFICES ((a % ((B * b) * Q)) \div B) % b = (a \div B) % b
  OBVIOUS
<1> DEFINE M == B * b
           l == a % (M * Q)
<1>1. M \in Nat /\ M > 0 /\ M * Q \in Nat /\ M * Q > 0
  <2>1. M \in Nat /\ M > 0
    BY TimesPositive
  <2> HIDE DEF M
  <2>. QED  BY <2>1, TimesPositive
<1>2. a \div (M * Q) \in Nat /\ l \in Nat /\ a = (M * Q) * (a \div (M * Q)) + l
  <2> HIDE DEF M
  <2>. QED  BY <1>1, Division, QuotientOfNat
<1> DEFINE k == a \div (M * Q)
           f == l \div B
           r == l % B
<1> HIDE DEF l
<1>3. f \in Nat /\ r \in 0 .. B - 1 /\ l = B * f + r
  BY <1>2, Division, QuotientOfNat
<1>4. k \in Nat /\ a = (M * Q) * k + l
  BY <1>2
<1> HIDE DEF k, f, r
<1>5. a = B * ((b * (Q * k)) + f) + r
  <2>1. ((B * b) * Q) * k = B * (b * (Q * k))
    BY <1>4
  <2>2. B * ((b * (Q * k)) + f) = B * (b * (Q * k)) + B * f
    BY <1>3, <1>4
  <2>. QED  BY <1>3, <1>4, <2>1, <2>2
<1>6. Q * k \in Nat /\ b * (Q * k) \in Nat
  BY <1>4
<1> DEFINE u == Q * k
<1> HIDE DEF u
<1>7. u \in Nat /\ b * u \in Nat /\ a = B * ((b * u) + f) + r
  BY <1>5, <1>6 DEF u
<1>8. a \div B = (b * u) + f
  <2>1. (b * u) + f \in Int /\ a \in Int
    BY <1>3, <1>7
  <2>. QED  BY <1>3, <1>7, <2>1, QuotientIs
<1>9. Congruent((b * u) + f, f, b)
  <2>1. (b * u) + f = f + b * u
    BY <1>3, <1>7
  <2>. QED  BY <1>7, <2>1 DEF Congruent
<1>10. ((b * u) + f) % b = f % b
  <2>1. (b * u) + f \in Int /\ f \in Int
    BY <1>3, <1>7
  <2>. QED  BY <1>9, <2>1, CongruentSame
<1>. QED  BY <1>8, <1>10 DEF f, l
-----------------------------------------------------------------------------
(* The digits of a format.                                                 *)

CompareCall ==
  /\ compareFormat \in [bitWidth : Nat, radixBits : Nat, outputModulus : Nat]
  /\ CompareAccepted
  /\ value \in [p0 : Nat, p1 : Nat]
  /\ thresholds \in SUBSET Nat

\* The bits below digit k; all of them for the one after the last.
BitsBelow(k) == IF k < Digits THEN k * RadixBits ELSE CompareBits

LEMMA DigitCount ==
  ASSUME CompareCall
  PROVE  /\ CompareBits \in Nat /\ RadixBits \in Nat /\ RadixBits > 0
         /\ Digits \in Nat /\ Digits > 0
         /\ \A d \in 0 .. Digits - 1 : d * RadixBits \in Nat /\ d * RadixBits < CompareBits
         /\ \A d \in 0 .. Digits - 1 : d + 1 < Digits => (d + 1) * RadixBits < CompareBits
         /\ CompareBits <= Digits * RadixBits
<1> DEFINE W == CompareBits
           R == RadixBits
           D == Digits
           e == (W + R - 1) % R
<1>1. W \in Nat /\ R \in Nat /\ R > 0 /\ W > 0
  BY DEF CompareCall, CompareAccepted, CompareBits, RadixBits
<1>2. D = (W + R - 1) \div R
  BY DEF Digits
<1> HIDE DEF W, R, D
<1> DEFINE z == W + R - 1
<1>3. z \in Nat /\ z = W + R - 1
  BY <1>1
<1> HIDE DEF z
<1>4. D \in Nat /\ z % R \in 0 .. R - 1 /\ z = R * D + (z % R)
  <2>1. D = z \div R
    BY <1>2, <1>3
  <2>2. z \div R \in Nat /\ z % R \in 0 .. R - 1 /\ z = R * (z \div R) + (z % R)
    BY <1>1, <1>3, Division, QuotientOfNat
  <2>. QED  BY <2>1, <2>2
<1>5. D # 0
  <2>1. ASSUME D = 0 PROVE FALSE
    <3>1. R * D = 0
      BY <1>1, <2>1
    <3>. QED  BY <1>1, <1>3, <1>4, <3>1
  <2>. QED  BY <2>1
<1>6. D * R = R * D /\ W <= D * R
  <2>1. D * R = R * D
    BY <1>1, <1>4
  <2>. QED  BY <1>1, <1>3, <1>4, <2>1
<1>7. ASSUME NEW d \in 0 .. D - 1 PROVE d * R \in Nat /\ d * R < W
  <2>1. PICK c \in Nat : D = d + 1 + c
    <3>1. D - 1 - d \in Nat /\ D = d + 1 + (D - 1 - d)
      BY <1>4
    <3>. QED  BY <3>1
  <2>2. R * D = d * R + R + R * c /\ R * c \in Nat /\ d * R \in Nat
    BY <1>1, <2>1
  <2>. QED  BY <1>1, <1>3, <1>4, <2>2
<1>8. ASSUME NEW d \in 0 .. D - 1, d + 1 < D PROVE (d + 1) * R < W
  <2>1. d + 1 \in 0 .. D - 1
    BY <1>4, <1>8
  <2>. QED  BY <1>7, <2>1
<1>. QED  BY <1>1, <1>4, <1>5, <1>6, <1>7, <1>8 DEF W, R, D

LEMMA DigitWidths ==
  ASSUME CompareCall, NEW d \in 0 .. Digits - 1
  PROVE  /\ DigitShift(d) \in Nat /\ DigitBits(d) \in 0 .. RadixBits
         /\ BitsBelow(d) = DigitShift(d)
         /\ BitsBelow(d + 1) = DigitShift(d) + DigitBits(d)
         /\ BitsBelow(d + 1) \in 0 .. CompareBits
<1>1. /\ CompareBits \in Nat /\ RadixBits \in Nat /\ RadixBits > 0 /\ Digits \in Nat /\ Digits > 0
      /\ d * RadixBits \in Nat /\ d * RadixBits < CompareBits
      /\ d + 1 < Digits => (d + 1) * RadixBits < CompareBits
      /\ CompareBits <= Digits * RadixBits
  BY DigitCount
<1>2. DigitShift(d) = d * RadixBits /\ d < Digits
  BY <1>1 DEF DigitShift
<1>3. (d + 1) * RadixBits = d * RadixBits + RadixBits
  BY <1>1
<1>4. CASE d + 1 < Digits
  <2>1. CompareBits - d * RadixBits >= RadixBits
    BY <1>1, <1>3, <1>4
  <2>2. DigitBits(d) = RadixBits
    BY <1>1, <1>2, <2>1 DEF DigitBits
  <2>3. BitsBelow(d) = d * RadixBits /\ BitsBelow(d + 1) = (d + 1) * RadixBits
    BY <1>2, <1>4 DEF BitsBelow
  <2>. QED  BY <1>1, <1>2, <1>3, <1>4, <2>2, <2>3
<1>5. CASE ~(d + 1 < Digits)
  <2>1. d + 1 = Digits
    BY <1>1, <1>2, <1>5
  <2>2. CompareBits - d * RadixBits <= RadixBits
    BY <1>1, <1>3, <2>1
  <2>3. DigitBits(d) = CompareBits - d * RadixBits
    BY <1>1, <1>2, <2>2 DEF DigitBits
  <2>4. BitsBelow(d) = d * RadixBits /\ BitsBelow(d + 1) = CompareBits
    BY <1>2, <1>5 DEF BitsBelow
  <2>. QED  BY <1>1, <1>2, <2>2, <2>3, <2>4
<1>. QED  BY <1>4, <1>5

LEMMA TwoToGrows ==
  ASSUME NEW a \in Nat, NEW b \in Nat, a <= b
  PROVE  TwoTo[a] <= TwoTo[b] /\ \E k \in Nat : k > 0 /\ TwoTo[b] = TwoTo[a] * k
<1> DEFINE x == TwoTo[a]
           k == TwoTo[b - a]
<1>1. b - a \in Nat /\ a + (b - a) = b
  OBVIOUS
<1>2. TwoTo[b] = x * k /\ x \in Nat /\ k \in Nat /\ x > 0 /\ k > 0
  <2>1. TwoTo[a + (b - a)] = TwoTo[a] * TwoTo[b - a]
    BY <1>1, TwoToSum, Zenon
  <2>2. x \in Nat /\ k \in Nat /\ x > 0 /\ k > 0
    BY <1>1, TwoToType
  <2>. QED  BY <1>1, <2>1, <2>2
<1> HIDE DEF x, k
<1>3. x * k >= x
  BY <1>2, TimesPositive
<1>4. TwoTo[b] = TwoTo[a] * k
  BY <1>2 DEF x
<1>. QED  BY <1>2, <1>3, <1>4 DEF x

LEMMA CompareModuli ==
  ASSUME CompareCall
  PROVE  /\ InternalModulus \in Nat /\ InternalModulus > 3 /\ InternalModulus >= 2 * Radix
         /\ AnswerModulus \in Nat /\ AnswerModulus >= 3
         /\ InputModulus \in Nat /\ InputModulus > 0
         /\ Radix \in Nat /\ Radix > 0
<1>1. CompareBits \in Nat /\ RadixBits \in Nat /\ AnswerModulus \in Nat /\ AnswerModulus >= 3 /\ InternalModulus > 3
  BY DEF CompareCall, CompareAccepted, CompareBits, RadixBits, AnswerModulus
<1>2. Radix \in Nat /\ Radix > 0 /\ InputModulus \in Nat /\ InputModulus > 0
  BY <1>1, TwoToType DEF Radix, InputModulus
<1>3. InternalModulus \in Nat /\ InternalModulus >= 2 * Radix
  BY <1>1, <1>2 DEF InternalModulus, DirectIsWideEnough, NarrowModulus
<1>. QED  BY <1>1, <1>2, <1>3

LEMMA DigitBases ==
  ASSUME CompareCall, NEW d \in 0 .. Digits - 1
  PROVE  LET B == TwoTo[DigitShift(d)]
             b == DigitBase(d)
         IN  /\ B \in Nat /\ B > 0
             /\ b \in Nat /\ b > 0 /\ 2 * b <= InternalModulus
             /\ TwoTo[BitsBelow(d + 1)] = B * b
             /\ \E Q \in Nat : Q > 0 /\ InputModulus = (B * b) * Q
<1> DEFINE B == TwoTo[DigitShift(d)]
           b == DigitBase(d)
<1>1. /\ DigitShift(d) \in Nat /\ DigitBits(d) \in 0 .. RadixBits
      /\ BitsBelow(d + 1) = DigitShift(d) + DigitBits(d)
      /\ BitsBelow(d + 1) \in 0 .. CompareBits
  BY DigitWidths
<1>2. CompareBits \in Nat /\ RadixBits \in Nat
  BY DigitCount
<1>3. DigitBits(d) \in Nat /\ DigitBits(d) <= RadixBits /\ BitsBelow(d + 1) \in Nat /\ BitsBelow(d + 1) <= CompareBits
  BY <1>1, <1>2
<1>4. B \in Nat /\ B > 0 /\ b \in Nat /\ b > 0
  BY <1>1, <1>3, TwoToType DEF DigitBase
<1>5. b <= Radix
  BY <1>2, <1>3, TwoToGrows DEF DigitBase, Radix
<1>6. 2 * b <= InternalModulus
  <2> HIDE DEF b
  <2>. QED  BY <1>4, <1>5, CompareModuli
<1>7. TwoTo[BitsBelow(d + 1)] = B * b
  <2>1. TwoTo[DigitShift(d) + DigitBits(d)] = TwoTo[DigitShift(d)] * TwoTo[DigitBits(d)]
    BY <1>1, <1>3, TwoToSum
  <2>. QED  BY <1>1, <2>1 DEF DigitBase
<1>8. \E Q \in Nat : Q > 0 /\ InputModulus = TwoTo[BitsBelow(d + 1)] * Q
  BY <1>2, <1>3, TwoToGrows DEF InputModulus
<1>. QED  BY <1>4, <1>6, <1>7, <1>8
-----------------------------------------------------------------------------
(* What the shares stand for, as functions of digits and thresholds.       *)
HeldOne == value.p0 % InputModulus
HeldTwo == value.p1 % InputModulus
CarryInto ==
  [d \in 0 .. Digits - 1 |->
     (Below(HeldOne, d) + Below(HeldTwo, d)) \div TwoTo[DigitShift(d)]]
SumDigit == [d \in 0 .. Digits - 1 |-> Digit(HeldSum, d)]
DigitsOf == [t \in Active |-> [d \in 0 .. Digits - 1 |-> Digit(t, d)]]
SumAbove == [k \in 0 .. Digits |-> HeldSum \div TwoTo[BitsBelow(k)]]
Above == [t \in Active |-> [k \in 0 .. Digits |-> t \div TwoTo[BitsBelow(k)]]]

LEMMA SumIs ==
  ASSUME CompareCall
  PROVE  /\ HeldOne \in 0 .. InputModulus - 1 /\ HeldTwo \in 0 .. InputModulus - 1
         /\ HeldSum = (HeldOne + HeldTwo) % InputModulus
         /\ HeldSum \in 0 .. InputModulus - 1
         /\ HeldOne % InputModulus = HeldOne /\ HeldTwo % InputModulus = HeldTwo /\ HeldSum % InputModulus = HeldSum
<1> DEFINE M == InputModulus
           x == value.p0
           y == value.p1
<1>1. M \in Nat /\ M > 0 /\ x \in Nat /\ y \in Nat
  BY CompareModuli DEF CompareCall
<1>2. HeldOne = x % M /\ HeldTwo = y % M /\ HeldSum = (x + y) % M
  BY DEF HeldOne, HeldTwo, HeldSum
<1> HIDE DEF M, x, y
<1>3. Congruent(x, x % M, M) /\ Congruent(y, y % M, M) /\ x % M \in 0 .. M - 1 /\ y % M \in 0 .. M - 1
  <2>1. x % M \in 0 .. M - 1 /\ y % M \in 0 .. M - 1 /\ x \in Int /\ y \in Int
    BY <1>1
  <2>. QED  BY <1>1, <2>1, RemainderCongruent
<1>4. Congruent(x + y, (x % M) + (y % M), M)
  BY <1>1, <1>3, CongruentSum
<1>5. (x + y) % M = ((x % M) + (y % M)) % M
  <2>1. x + y \in Int /\ (x % M) + (y % M) \in Int
    BY <1>1, <1>3
  <2>. QED  BY <1>1, <1>4, <2>1, CongruentSame
<1>6. (x + y) % M \in 0 .. M - 1
  BY <1>1
<1> DEFINE h1 == x % M
           h2 == y % M
           s == (x + y) % M
<1>7. h1 \in 0 .. M - 1 /\ h2 \in 0 .. M - 1 /\ s \in 0 .. M - 1 /\ HeldOne = h1 /\ HeldTwo = h2 /\ HeldSum = s /\ s = (h1 + h2) % M
  BY <1>2, <1>3, <1>5, <1>6
<1> HIDE DEF h1, h2, s
<1>8. h1 % M = h1 /\ h2 % M = h2 /\ s % M = s
  BY <1>1, <1>7
<1>. QED  BY <1>7, <1>8 DEF M

\* The digits of the shares and the carry add up to the digit of the sum and
\* the carry out of it.
DigitSum(d) == Digit(value.p0, d) + Digit(value.p1, d) + CarryInto[d]
LEMMA DigitsAddUp ==
  ASSUME CompareCall, NEW d \in 0 .. Digits - 1
  PROVE  /\ Digit(value.p0, d) \in 0 .. DigitBase(d) - 1 /\ Digit(value.p1, d) \in 0 .. DigitBase(d) - 1
         /\ CarryInto[d] \in {0, 1}
         /\ DigitSum(d) \in 0 .. 2 * DigitBase(d) - 1
         /\ SumDigit[d] = DigitSum(d) % DigitBase(d)
         /\ SumDigit[d] \in 0 .. DigitBase(d) - 1
         /\ d + 1 < Digits => CarryInto[d + 1] = DigitSum(d) \div DigitBase(d)
<1> DEFINE B == TwoTo[DigitShift(d)]
           b == DigitBase(d)
           x == HeldOne
           y == HeldTwo
           c == ((x % B) + (y % B)) \div B
           s == ((x \div B) % b) + ((y \div B) % b) + c
<1>1. B \in Nat /\ B > 0 /\ b \in Nat /\ b > 0 /\ TwoTo[BitsBelow(d + 1)] = B * b
  BY DigitBases
<1>2. Covers(InputModulus, B, b)
  BY DigitBases DEF Covers
<1>3. x \in Nat /\ y \in Nat
  BY SumIs, CompareModuli
<1>4. CarryInto[d] = c
  BY DEF CarryInto, Below
<1>5. Digit(value.p0, d) = (x \div B) % b /\ Digit(value.p1, d) = (y \div B) % b
  BY DEF Digit, HeldOne, HeldTwo
<1>6. DigitSum(d) = s
  BY <1>4, <1>5 DEF DigitSum
<1>7. SumDigit[d] = ((x + y) \div B) % b
  <2>1. SumDigit[d] = (((x + y) % InputModulus) \div B) % b
    BY SumIs, Zenon DEF SumDigit, Digit
  <2> HIDE DEF B, b, x, y
  <2> DEFINE a == x + y
  <2>2. a \in Nat
    BY <1>3
  <2> HIDE DEF a
  <2>3. ((a % InputModulus) \div B) % b = (a \div B) % b
    <3>1. B \in Nat /\ B > 0 /\ b \in Nat /\ b > 0
      BY <1>1
    <3>. QED  BY <1>2, <2>2, <3>1, DigitOfRemainder
  <2>. QED  BY <2>1, <2>3, Zenon DEF a
<1>8. d + 1 < Digits => CarryInto[d + 1] = ((x % (B * b)) + (y % (B * b))) \div (B * b)
  <2>1. HAVE d + 1 < Digits
  <2>2. d + 1 \in 0 .. Digits - 1
    BY <2>1, DigitCount
  <2>3. BitsBelow(d + 1) = DigitShift(d + 1)
    BY <2>2, DigitWidths
  <2>4. TwoTo[DigitShift(d + 1)] = B * b
    BY <1>1, <2>3
  <2>5. CarryInto[d + 1] = ((x % TwoTo[DigitShift(d + 1)]) + (y % TwoTo[DigitShift(d + 1)])) \div TwoTo[DigitShift(d + 1)]
    BY <2>2, Zenon DEF CarryInto, Below
  <2>. QED  BY <2>4, <2>5, Zenon
<1> HIDE DEF B, b, x, y
<1>9. /\ c \in {0, 1}
      /\ s \in 0 .. 2 * b - 1
      /\ ((x + y) \div B) % b = s % b
      /\ ((x % (B * b)) + (y % (B * b))) \div (B * b) = s \div b
  BY <1>1, <1>3, DigitOfSum
<1>10. (x \div B) % b \in 0 .. b - 1 /\ (y \div B) % b \in 0 .. b - 1
  <2>1. x \div B \in Nat /\ y \div B \in Nat
    BY <1>1, <1>3, QuotientOfNat
  <2>. QED  BY <1>1, <2>1
<1>11. s % b \in 0 .. b - 1
  <2> HIDE DEF s
  <2>1. s \in Nat
    BY <1>1, <1>9
  <2>. QED  BY <1>1, <2>1
<1>12. Digit(value.p0, d) \in 0 .. b - 1 /\ Digit(value.p1, d) \in 0 .. b - 1
  BY <1>5, <1>10
<1>13. SumDigit[d] = s % b /\ SumDigit[d] \in 0 .. b - 1
  BY <1>7, <1>9, <1>11
<1>14. d + 1 < Digits => CarryInto[d + 1] = s \div b
  BY <1>8, <1>9
<1> HIDE DEF c, s
<1>15. DigitSum(d) \in 0 .. 2 * b - 1 /\ SumDigit[d] = DigitSum(d) % b /\ (d + 1 < Digits => CarryInto[d + 1] = DigitSum(d) \div b)
  BY <1>6, <1>9, <1>13, <1>14
<1>16. CarryInto[d] \in {0, 1}
  BY <1>4, <1>9
<1>. QED  BY <1>12, <1>13, <1>15, <1>16 DEF b
-----------------------------------------------------------------------------
(* Lookups on shares of digits and of bits.                                *)

LEMMA SelectsDigit ==
  ASSUME CompareCall, NEW d \in 0 .. Digits - 1, IsSharing(carry, CarryInto[d], InternalModulus)
  PROVE  Selected(Index(d), InternalModulus) = DigitSum(d) /\ DigitSum(d) \in 0 .. InternalModulus - 1
<1> DEFINE m == InternalModulus
           a == Digit(value.p0, d)
           b == Digit(value.p1, d)
           c == CarryInto[d]
           a1 == AddReduced(a, carry.p0, m)
           b1 == AddReduced(b, carry.p1, m)
<1>1. m \in Nat /\ m > 0 /\ 2 * DigitBase(d) <= m /\ DigitBase(d) \in Nat /\ DigitBase(d) > 0
  BY CompareModuli, DigitBases
<1>2. a \in 0 .. m - 1 /\ b \in 0 .. m - 1 /\ c \in {0, 1} /\ DigitSum(d) \in 0 .. m - 1
  <2>1. a \in 0 .. DigitBase(d) - 1 /\ b \in 0 .. DigitBase(d) - 1 /\ c \in {0, 1} /\ DigitSum(d) \in 0 .. 2 * DigitBase(d) - 1
    BY DigitsAddUp
  <2> HIDE DEF a, b, c, m
  <2>. QED  BY <1>1, <2>1
<1>3. carry.p0 \in 0 .. m - 1 /\ carry.p1 \in 0 .. m - 1 /\ Congruent(carry.p0 + carry.p1, c, m)
  BY DEF IsSharing, PairsModulo
<1>4. Index(d) = [p0 |-> AddReduced(a % m, carry.p0, m), p1 |-> AddReduced(b % m, carry.p1, m)]
  BY DEF Index, IndexShare
<1>5. DigitSum(d) = a + b + c
  BY DEF DigitSum
<1> DEFINE u == carry.p0
           v == carry.p1
<1> HIDE DEF a, b, c, m
<1>6. a % m = a /\ b % m = b
  BY <1>1, <1>2
<1>7. Index(d) = [p0 |-> a1, p1 |-> b1]
  BY <1>4, <1>6
<1>8. u \in 0 .. m - 1 /\ v \in 0 .. m - 1 /\ Congruent(u + v, c, m)
  BY <1>3
<1>9. a1 \in 0 .. m - 1 /\ Congruent(a1, a + u, m) /\ b1 \in 0 .. m - 1 /\ Congruent(b1, b + v, m)
  BY <1>1, <1>2, <1>3, SumsReduced
<1> HIDE DEF u, v, a1, b1
<1>10. Congruent(a1 + b1, (a + u) + (b + v), m)
  BY <1>1, <1>2, <1>8, <1>9, CongruentSum
<1>11. Congruent((u + v) + (a + b), c + (a + b), m)
  <2>1. a + b \in Int /\ u + v \in Int /\ c \in Int
    BY <1>2, <1>8
  <2>2. Congruent(a + b, a + b, m)
    BY <1>1, <2>1, CongruentItself
  <2>. QED  BY <1>1, <1>8, <2>1, <2>2, CongruentSum
<1>12. (a + u) + (b + v) = (u + v) + (a + b) /\ c + (a + b) = a + b + c
  BY <1>2, <1>8
<1>13. Congruent(a1 + b1, DigitSum(d), m)
  <2>1. a1 + b1 \in Int /\ (u + v) + (a + b) \in Int /\ a + b + c \in Int
    BY <1>2, <1>8, <1>9
  <2>. QED  BY <1>1, <1>5, <1>10, <1>11, <1>12, <2>1, CongruentChain
<1>14. Index(d).p0 = a1 /\ Index(d).p1 = b1 /\ a1 \in Nat /\ b1 \in Nat
  BY <1>7, <1>9
<1>15. Selected(Index(d), m) = DigitSum(d)
  BY <1>1, <1>2, <1>13, <1>14, SelectsSum
<1>. QED  BY <1>2, <1>15 DEF m

\* In a table that is 0 outside the support, what stands at the digit.
LEMMA LooksUpDigit ==
  ASSUME CompareCall, NEW d \in 0 .. Digits - 1, IsSharing(carry, CarryInto[d], InternalModulus),
         NEW draw \in Nat, NEW table, NEW v \in {0, 1}, table[DigitSum(d)] = v,
         v = 1 => DigitSum(d) \in Support(d)
  PROVE  IsSharing(LookupDigit(d, table, draw), v, InternalModulus)
<1> DEFINE s == DigitSum(d)
<1>1. Selected(Index(d), InternalModulus) = s
  BY SelectsDigit
<1>2. v = (IF s \in Support(d) THEN table[s] ELSE 0)
  OBVIOUS
<1>3. InternalModulus \in Nat /\ InternalModulus > 0 /\ v \in Nat
  BY CompareModuli
<1> HIDE DEF s
<1>. QED  BY <1>1, <1>2, <1>3, LooksUp DEF LookupDigit

LEMMA InSupport ==
  ASSUME CompareCall, NEW d \in 0 .. Digits - 1
  PROVE  /\ \A t \in Active : DigitSum(d) % DigitBase(d) <= Digit(t, d) => DigitSum(d) \in Support(d)
         /\ HasCarry(d) /\ DigitSum(d) >= DigitBase(d) => DigitSum(d) \in Support(d)
<1>1. DigitSum(d) \in 0 .. 2 * DigitBase(d) - 1
  BY DigitsAddUp
<1>2. InternalModulus \in Nat /\ DigitBase(d) \in Nat /\ DigitBase(d) > 0 /\ 2 * DigitBase(d) <= InternalModulus
  BY CompareModuli, DigitBases
<1>3. LastColumn(d) = 2 * DigitBase(d) - 1
  BY <1>2 DEF LastColumn
<1>4. DigitSum(d) \in 0 .. LastColumn(d)
  BY <1>1, <1>3
<1>. QED  BY <1>4 DEF Support

LEMMA DigitsTaken ==
  ASSUME CompareCall, NEW d \in 0 .. Digits - 1, IsSharing(carry, CarryInto[d], InternalModulus), NEW draw \in Nat
  PROVE  /\ \A t \in Active :
              /\ IsSharing(LookupDigit(d, [c \in Columns |-> Bit(c % DigitBase(d) = Digit(t, d))], draw),
                           Bit(SumDigit[d] = DigitsOf[t][d]), InternalModulus)
              /\ IsSharing(LookupDigit(d, [c \in Columns |-> Bit(c % DigitBase(d) < Digit(t, d))], draw),
                           Bit(SumDigit[d] < DigitsOf[t][d]), InternalModulus)
         /\ HasCarry(d) =>
              IsSharing(LookupDigit(d, [c \in Columns |-> Bit(c >= DigitBase(d))], draw), CarryInto[d + 1], InternalModulus)
<1> DEFINE s == DigitSum(d)
<1>1. s \in Columns
  BY SelectsDigit DEF Columns
<1>2. SumDigit[d] = s % DigitBase(d) /\ SumDigit[d] \in 0 .. DigitBase(d) - 1
  BY DigitsAddUp
<1>3. ASSUME NEW t \in Active
      PROVE  /\ IsSharing(LookupDigit(d, [c \in Columns |-> Bit(c % DigitBase(d) = Digit(t, d))], draw),
                          Bit(SumDigit[d] = DigitsOf[t][d]), InternalModulus)
             /\ IsSharing(LookupDigit(d, [c \in Columns |-> Bit(c % DigitBase(d) < Digit(t, d))], draw),
                          Bit(SumDigit[d] < DigitsOf[t][d]), InternalModulus)
  <2> DEFINE same == [c \in Columns |-> Bit(c % DigitBase(d) = Digit(t, d))]
             below == [c \in Columns |-> Bit(c % DigitBase(d) < Digit(t, d))]
             v == Bit(SumDigit[d] = Digit(t, d))
             w == Bit(SumDigit[d] < Digit(t, d))
  <2>1. DigitsOf[t][d] = Digit(t, d)
    BY DEF DigitsOf
  <2>2. same[s] = v /\ below[s] = w
    <3> HIDE DEF s
    <3>. QED  BY <1>1, <1>2 DEF Bit, s
  <2>3. v \in {0, 1} /\ w \in {0, 1}
    BY DEF Bit
  <2>4. /\ v = 1 => SumDigit[d] = Digit(t, d)
        /\ w = 1 => SumDigit[d] < Digit(t, d)
    BY DEF Bit
  <2>5. DigitBase(d) \in Nat
    BY DigitBases
  <2>6. v = 1 \/ w = 1 => s % DigitBase(d) <= Digit(t, d)
    <3> HIDE DEF v, w
    <3>1. SumDigit[d] \in Nat
      BY <1>2, <2>5
    <3>2. Digit(t, d) \in Nat
      <4>1. t \in Nat /\ InputModulus \in Nat /\ InputModulus > 0
        BY CompareModuli DEF Active, CompareCall
      <4>2. TwoTo[DigitShift(d)] \in Nat /\ TwoTo[DigitShift(d)] > 0 /\ DigitBase(d) \in Nat /\ DigitBase(d) > 0
        BY DigitBases
      <4>3. t % InputModulus \in Nat
        BY <4>1, QuotientOfNat
      <4>4. (t % InputModulus) \div TwoTo[DigitShift(d)] \in Nat
        BY <4>2, <4>3, QuotientOfNat
      <4>. QED  BY <4>2, <4>4, QuotientOfNat DEF Digit
    <3>3. v = 1 \/ w = 1 => SumDigit[d] <= Digit(t, d)
      BY <2>4, <3>1, <3>2
    <3>. QED  BY <1>2, <3>3
  <2>7. v = 1 \/ w = 1 => s \in Support(d)
    BY <2>6, InSupport
  <2> HIDE DEF same, below, v, w, s
  <2>8. IsSharing(LookupDigit(d, same, draw), v, InternalModulus)
    BY <2>2, <2>3, <2>7, LooksUpDigit DEF s
  <2>9. IsSharing(LookupDigit(d, below, draw), w, InternalModulus)
    BY <2>2, <2>3, <2>7, LooksUpDigit DEF s
  <2>. QED  BY <2>1, <2>8, <2>9, Zenon DEF same, below, v, w
<1>4. ASSUME HasCarry(d)
      PROVE  IsSharing(LookupDigit(d, [c \in Columns |-> Bit(c >= DigitBase(d))], draw), CarryInto[d + 1], InternalModulus)
  <2> DEFINE table == [c \in Columns |-> Bit(c >= DigitBase(d))]
             v == Bit(s >= DigitBase(d))
  <2>1. table[s] = v /\ v \in {0, 1} /\ (v = 1 => s >= DigitBase(d))
    BY <1>1 DEF Bit
  <2>2. v = 1 => s \in Support(d)
    BY <1>4, <2>1, InSupport
  <2>3. CarryInto[d + 1] = v
    <3> DEFINE b == DigitBase(d)
    <3>1. CarryInto[d + 1] = s \div b /\ s \in 0 .. 2 * b - 1
      BY <1>4, DigitsAddUp DEF HasCarry
    <3>2. b \in Nat /\ b > 0
      BY DigitBases
    <3> HIDE DEF b, s
    <3>3. CASE s >= b
      <4>1. s = b * 1 + (s - b) /\ s - b \in 0 .. b - 1 /\ s \in Int
        BY <3>1, <3>2, <3>3
      <4>2. s \div b = 1
        BY <3>2, <4>1, QuotientIs
      <4>. QED  BY <3>1, <3>3, <4>2 DEF Bit, b
    <3>4. CASE ~(s >= b)
      <4>1. s = b * 0 + s /\ s \in 0 .. b - 1 /\ s \in Int
        BY <3>1, <3>2, <3>4
      <4>2. s \div b = 0
        BY <3>2, <4>1, QuotientIs
      <4>. QED  BY <3>1, <3>4, <4>2 DEF Bit, b
    <3>. QED  BY <3>3, <3>4
  <2> HIDE DEF table, v, s
  <2>4. IsSharing(LookupDigit(d, table, draw), v, InternalModulus)
    BY <2>1, <2>2, LooksUpDigit DEF s
  <2>. QED  BY <2>3, <2>4 DEF table
<1>. QED  BY <1>3, <1>4

\* Two shared bits at once: the index 3 is selected if both are 1.
LEMMA BothBits ==
  ASSUME CompareCall, NEW x, NEW v \in {0, 1}, IsSharing(x, v, InternalModulus),
         NEW y, NEW w \in {0, 1}, IsSharing(y, w, InternalModulus), NEW draw \in Nat
  PROVE  IsSharing(AndShared(x, y, draw), Bit(v = 1 /\ w = 1), InternalModulus)
<1> DEFINE m == InternalModulus
           index == AddShares(x, ScaledShares(y, 2, m), m)
           s == v + w * 2
<1>1. m \in Nat /\ m > 3
  BY CompareModuli
<1>2. IsSharing(x, v, m) /\ IsSharing(y, w, m)
  OBVIOUS
<1>3. AndShared(x, y, draw) = Lookup(index, m, {3}, [c \in 0 .. m - 1 |-> Bit(c = 3)], draw, m)
  BY DEF AndShared, Columns
<1> HIDE DEF m
<1>4. IsSharing(ScaledShares(y, 2, m), w * 2, m)
  BY <1>1, <1>2, MultipleIsSharing
<1>5. IsSharing(index, v + w * 2, m)
  <2>1. w * 2 \in Int /\ v \in Int
    OBVIOUS
  <2>. QED  BY <1>1, <1>2, <1>4, <2>1, SumIsSharing
<1>6. s \in 0 .. m - 1 /\ s \in 0 .. 3 /\ (s = 3 <=> v = 1 /\ w = 1)
  BY <1>1
<1> HIDE DEF index
<1>7. index.p0 \in Nat /\ index.p1 \in Nat /\ Congruent(index.p0 + index.p1, s, m)
  BY <1>1, <1>5 DEF IsSharing, PairsModulo
<1> DEFINE table == [c \in 0 .. m - 1 |-> Bit(c = 3)]
           r == Bit(v = 1 /\ w = 1)
<1> HIDE DEF s
<1>8. Selected(index, m) = s
  BY <1>1, <1>6, <1>7, SelectsSum
<1>9. r = (IF s \in {3} THEN table[s] ELSE 0) /\ r \in Nat
  BY <1>6 DEF Bit
<1> HIDE DEF table, r
<1>10. IsSharing(Lookup(index, m, {3}, table, draw, m), r, m)
  <2> DEFINE support == {3}
  <2>1. m \in Nat /\ m > 0 /\ r = (IF s \in support THEN table[s] ELSE 0)
    BY <1>1, <1>9
  <2> HIDE DEF support
  <2>2. IsSharing(Lookup(index, m, support, table, draw, m), r, m)
    BY <1>8, <1>9, <2>1, LooksUp
  <2>. QED  BY <2>2 DEF support
<1>. QED  BY <1>3, <1>10 DEF table, r, m

\* The answer, in the other modulus.
LEMMA ConvertsAnswer ==
  ASSUME CompareCall, NEW x, NEW v \in {0, 1}, IsSharing(x, v, InternalModulus), NEW draw \in Nat
  PROVE  IsSharing(Converted(x, draw), v, AnswerModulus)
<1> DEFINE m == InternalModulus
           table == [c \in 0 .. m - 1 |-> Bit(c = 1)]
<1>1. m \in Nat /\ m > 3 /\ AnswerModulus \in Nat /\ AnswerModulus > 0
  BY CompareModuli
<1>2. Converted(x, draw) = Lookup(x, m, {1}, table, draw, AnswerModulus)
  BY DEF Converted, Columns
<1>3. x.p0 \in Nat /\ x.p1 \in Nat /\ Congruent(x.p0 + x.p1, v, m)
  BY <1>1 DEF IsSharing, PairsModulo
<1> HIDE DEF m
<1>4. Selected(x, m) = v
  BY <1>1, <1>3, SelectsSum
<1>5. v = (IF v \in {1} THEN table[v] ELSE 0) /\ v \in Nat
  BY <1>1 DEF Bit
<1> HIDE DEF table
<1>6. IsSharing(Lookup(x, m, {1}, table, draw, AnswerModulus), v, AnswerModulus)
  <2> DEFINE support == {1}
  <2>1. m > 0 /\ v = (IF v \in support THEN table[v] ELSE 0)
    BY <1>1, <1>5
  <2> HIDE DEF support
  <2>2. IsSharing(Lookup(x, m, support, table, draw, AnswerModulus), v, AnswerModulus)
    BY <1>1, <1>4, <1>5, <2>1, LooksUp
  <2>. QED  BY <2>2 DEF support
<1>. QED  BY <1>2, <1>6
-----------------------------------------------------------------------------
(* From the highest digit down.                                            *)

LEMMA Lexicographic ==
  ASSUME NEW b \in Nat, b > 0, NEW H \in Nat, NEW T \in Nat, NEW h \in 0 .. b - 1, NEW g \in 0 .. b - 1
  PROVE  /\ b * H + h < b * T + g <=> H < T \/ (H = T /\ h < g)
         /\ b * H + h = b * T + g <=> H = T /\ h = g
<1>1. ASSUME NEW x \in Nat, NEW y \in Nat, x < y PROVE b * x + b <= b * y
  <2>1. PICK k \in Nat : y = x + 1 + k
    <3>1. y - x - 1 \in Nat /\ y = x + 1 + (y - x - 1)
      BY <1>1
    <3>. QED  BY <3>1
  <2>2. b * y = b * x + b + b * k /\ b * k \in Nat /\ b * x \in Nat
    BY <2>1
  <2>. QED  BY <2>2
<1>2. b * H \in Nat /\ b * T \in Nat
  OBVIOUS
<1>3. CASE H < T
  BY <1>1, <1>2, <1>3
<1>4. CASE T < H
  BY <1>1, <1>2, <1>4
<1>5. CASE H = T
  BY <1>2, <1>5
<1>. QED  BY <1>3, <1>4, <1>5

LEMMA DigitBelow ==
  ASSUME CompareCall, NEW d \in 0 .. Digits - 1, NEW v \in 0 .. InputModulus - 1
  PROVE  /\ Digit(v, d) \in 0 .. DigitBase(d) - 1
         /\ v \div TwoTo[BitsBelow(d + 1)] \in Nat
         /\ v \div TwoTo[BitsBelow(d)] = DigitBase(d) * (v \div TwoTo[BitsBelow(d + 1)]) + Digit(v, d)
<1> DEFINE B == TwoTo[DigitShift(d)]
           b == DigitBase(d)
           k == v \div B
<1>1. B \in Nat /\ B > 0 /\ b \in Nat /\ b > 0 /\ TwoTo[BitsBelow(d + 1)] = B * b /\ BitsBelow(d) = DigitShift(d)
  BY DigitBases, DigitWidths
<1>2. v % InputModulus = v /\ v \in Nat
  BY CompareModuli
<1>3. Digit(v, d) = k % b
  BY <1>2 DEF Digit
<1> HIDE DEF B, b
<1>4. k \in Nat
  BY <1>1, <1>2, QuotientOfNat
<1>5. v \div (B * b) = k \div b
  BY <1>1, <1>2, SplitProduct
<1> HIDE DEF k
<1>6. k \div b \in Nat /\ k % b \in 0 .. b - 1 /\ k = b * (k \div b) + (k % b)
  BY <1>1, <1>4, Division, QuotientOfNat
<1>7. v \div TwoTo[BitsBelow(d + 1)] = k \div b /\ v \div TwoTo[BitsBelow(d)] = k
  BY <1>1, <1>5 DEF k, B
<1>. QED  BY <1>3, <1>6, <1>7 DEF b

LEMMA FoldDigit ==
  ASSUME CompareCall, NEW d \in 0 .. Digits - 1, NEW t \in Active
  PROVE  /\ SumAbove[d] < Above[t][d] <=>
              SumAbove[d + 1] < Above[t][d + 1] \/ (SumAbove[d + 1] = Above[t][d + 1] /\ SumDigit[d] < DigitsOf[t][d])
         /\ SumAbove[d] = Above[t][d] <=> SumAbove[d + 1] = Above[t][d + 1] /\ SumDigit[d] = DigitsOf[t][d]
         /\ SumAbove[d + 1] \in Nat /\ Above[t][d + 1] \in Nat
<1>1. Digits \in Nat /\ d \in 0 .. Digits /\ d + 1 \in 0 .. Digits
  BY DigitCount
<1>2. t \in 0 .. InputModulus - 1 /\ HeldSum \in 0 .. InputModulus - 1
  BY CompareModuli, SumIs DEF Active, CompareCall
<1> DEFINE b == DigitBase(d)
           H == HeldSum \div TwoTo[BitsBelow(d + 1)]
           T == t \div TwoTo[BitsBelow(d + 1)]
           h == Digit(HeldSum, d)
           g == Digit(t, d)
<1>3. /\ SumAbove[d] = HeldSum \div TwoTo[BitsBelow(d)] /\ SumAbove[d + 1] = H
      /\ Above[t][d] = t \div TwoTo[BitsBelow(d)] /\ Above[t][d + 1] = T
      /\ SumDigit[d] = h /\ DigitsOf[t][d] = g
  BY <1>1, Zenon DEF SumAbove, Above, SumDigit, DigitsOf
<1>4. /\ H \in Nat /\ h \in 0 .. b - 1 /\ HeldSum \div TwoTo[BitsBelow(d)] = b * H + h
      /\ T \in Nat /\ g \in 0 .. b - 1 /\ t \div TwoTo[BitsBelow(d)] = b * T + g
  BY <1>2, DigitBelow
<1>5. b \in Nat /\ b > 0
  BY DigitBases
<1> HIDE DEF b, H, T, h, g
<1>6. /\ b * H + h < b * T + g <=> H < T \/ (H = T /\ h < g)
      /\ b * H + h = b * T + g <=> H = T /\ h = g
  BY <1>4, <1>5, Lexicographic
<1>7. SumAbove[d] = b * H + h /\ Above[t][d] = b * T + g
  BY <1>3, <1>4
<1>. QED  BY <1>3, <1>4, <1>6, <1>7

LEMMA AboveAll ==
  ASSUME CompareCall, NEW t \in Active
  PROVE  /\ SumAbove[Digits] = 0 /\ Above[t][Digits] = 0
         /\ SumAbove[0] = HeldSum /\ Above[t][0] = t
<1>1. Digits \in Nat /\ Digits > 0 /\ 0 \in 0 .. Digits /\ Digits \in 0 .. Digits /\ RadixBits \in Nat
  BY DigitCount
<1>2. t \in 0 .. InputModulus - 1 /\ HeldSum \in 0 .. InputModulus - 1 /\ InputModulus \in Nat /\ InputModulus > 0
  BY CompareModuli, SumIs DEF Active, CompareCall
<1>3. BitsBelow(Digits) = CompareBits /\ BitsBelow(0) = 0
  BY <1>1 DEF BitsBelow
<1>4. TwoTo[BitsBelow(Digits)] = InputModulus /\ TwoTo[BitsBelow(0)] = 1
  BY <1>3, TwoToStep DEF InputModulus
<1>5. ASSUME NEW v \in 0 .. InputModulus - 1 PROVE v \div InputModulus = 0 /\ v \div 1 = v
  <2>1. v = InputModulus * 0 + v /\ v \in Int /\ v = 1 * v + 0
    BY <1>2
  <2>2. v \div InputModulus = 0
    BY <1>2, <2>1, QuotientIs
  <2>. QED  BY <1>2, <2>2
<1>6. HeldSum \div InputModulus = 0 /\ HeldSum \div 1 = HeldSum /\ t \div InputModulus = 0 /\ t \div 1 = t
  BY <1>2, <1>5
<1>. QED  BY <1>1, <1>4, <1>6 DEF SumAbove, Above

\* At the last digit the shift may pass the bits of the value, and both numbers
\* are then 0.
LEMMA AboveAtShift ==
  ASSUME CompareCall, NEW k \in 0 .. Digits, NEW t \in Active
  PROVE  SumAbove[k] = HeldSum \div TwoTo[DigitShift(k)] /\ Above[t][k] = t \div TwoTo[DigitShift(k)]
<1>1. /\ Digits \in Nat /\ RadixBits \in Nat /\ CompareBits \in Nat /\ CompareBits <= Digits * RadixBits
  BY DigitCount
<1>2. SumAbove[k] = HeldSum \div TwoTo[BitsBelow(k)] /\ Above[t][k] = t \div TwoTo[BitsBelow(k)]
  BY DEF SumAbove, Above
<1>3. CASE k < Digits
  BY <1>2, <1>3 DEF BitsBelow, DigitShift
<1>4. CASE ~(k < Digits)
  <2>1. k = Digits
    BY <1>1, <1>4
  <2>2. SumAbove[Digits] = 0 /\ Above[t][Digits] = 0
    BY AboveAll
  <2> DEFINE M == TwoTo[DigitShift(k)]
  <2>3. DigitShift(k) \in Nat /\ CompareBits <= DigitShift(k)
    BY <1>1, <2>1 DEF DigitShift
  <2>4. M \in Nat /\ M > 0 /\ InputModulus <= M
    BY <1>1, <2>3, TwoToType, TwoToGrows DEF InputModulus
  <2>5. t \in 0 .. InputModulus - 1 /\ HeldSum \in 0 .. InputModulus - 1 /\ InputModulus \in Nat
    BY CompareModuli, SumIs DEF Active, CompareCall
  <2> HIDE DEF M
  <2>6. ASSUME NEW v \in 0 .. InputModulus - 1 PROVE v \div M = 0
    <3>1. v = M * 0 + v /\ v \in 0 .. M - 1 /\ v \in Int
      BY <2>4, <2>5
    <3>. QED  BY <2>4, <3>1, QuotientIs
  <2>7. HeldSum \div M = 0 /\ t \div M = 0
    BY <2>5, <2>6
  <2>. QED  BY <2>1, <2>2, <2>7 DEF M
<1>. QED  BY <1>3, <1>4
-----------------------------------------------------------------------------
(* The inductive invariant.                                                *)

\* The digits taken so far are compared.
TakenExact ==
  comparePhase \in {"digits", "fold"} =>
    \A t \in Active : \A d \in 0 .. digit - 1 :
      /\ IsSharing(eq[t][d], Bit(SumDigit[d] = DigitsOf[t][d]), InternalModulus)
      /\ IsSharing(lt[t][d], Bit(SumDigit[d] < DigitsOf[t][d]), InternalModulus)

RisingExact ==
  comparePhase = "digits" =>
    /\ digit < Digits
    /\ IsSharing(carry, CarryInto[digit], InternalModulus)
    /\ \A t \in Active : IsSharing(prefix[t], 1, InternalModulus) /\ IsSharing(less[t], 0, InternalModulus)

FallingExact ==
  comparePhase = "fold" =>
    /\ digit > 0
    /\ \A t \in Active :
         /\ IsSharing(prefix[t], Bit(SumAbove[digit] = Above[t][digit]), InternalModulus)
         /\ IsSharing(less[t], Bit(SumAbove[digit] < Above[t][digit]), InternalModulus)

FoldedExact ==
  comparePhase = "convert" => \A t \in Active : IsSharing(less[t], Bit(HeldSum < t), InternalModulus)

AnsweredExact ==
  \A t \in thresholds :
    t \notin Active \/ comparePhase = "done" => IsSharing(less[t], Bit(HeldSum < t), AnswerModulus)

CompareInv ==
  /\ CompareTypeOK
  /\ CompareAccepted
  /\ TakenExact
  /\ RisingExact
  /\ FallingExact
  /\ FoldedExact
  /\ AnsweredExact

LEMMA InvCall ==
  ASSUME CompareTypeOK, CompareAccepted
  PROVE  CompareCall
BY ComparisonAssumption DEF CompareTypeOK, CompareCall

\* What a call is given stays.
LEMMA CallStays ==
  ASSUME UNCHANGED <<compareFormat, value, thresholds>>
  PROVE  /\ Digits' = Digits /\ InternalModulus' = InternalModulus /\ AnswerModulus' = AnswerModulus
         /\ Active' = Active /\ HeldSum' = HeldSum /\ CarryInto' = CarryInto /\ SumDigit' = SumDigit
         /\ DigitsOf' = DigitsOf /\ SumAbove' = SumAbove /\ Above' = Above
         /\ CompareAccepted' = CompareAccepted
<1>1. /\ CompareBits' = CompareBits /\ RadixBits' = RadixBits /\ AnswerModulus' = AnswerModulus
      /\ compareFormat' = compareFormat /\ value' = value /\ thresholds' = thresholds
  BY DEF CompareBits, RadixBits, AnswerModulus
<1>2. Radix' = Radix /\ InputModulus' = InputModulus /\ Digits' = Digits
  BY <1>1 DEF Radix, InputModulus, Digits
<1>3. InternalModulus' = InternalModulus
  BY <1>1, <1>2 DEF InternalModulus, DirectIsWideEnough, DirectIsSmall, NarrowModulus
<1>4. Active' = Active /\ HeldSum' = HeldSum /\ HeldOne' = HeldOne /\ HeldTwo' = HeldTwo
  BY <1>1, <1>2 DEF Active, HeldSum, HeldOne, HeldTwo
<1>5. CarryInto' = CarryInto
  BY <1>1, <1>2, <1>4 DEF CarryInto, Below, DigitShift
<1>6. SumDigit' = SumDigit /\ DigitsOf' = DigitsOf
  BY <1>1, <1>2, <1>4 DEF SumDigit, DigitsOf, Digit, DigitShift, DigitBase, DigitBits
<1>7. SumAbove' = SumAbove /\ Above' = Above
  BY <1>1, <1>2, <1>4 DEF SumAbove, Above, BitsBelow
<1>8. CompareAccepted' = CompareAccepted
  BY <1>1, <1>3 DEF CompareAccepted
<1>. QED  BY <1>1, <1>2, <1>3, <1>4, <1>5, <1>6, <1>7, <1>8
-----------------------------------------------------------------------------
\* Shares of a public number.
LEMMA PublicIsSharing ==
  ASSUME NEW m \in Nat, NEW v \in 0 .. m - 1
  PROVE  IsSharing(SharePublic(v, m), v, m)
<1>1. SharePublic(v, m) = [p0 |-> v, p1 |-> 0]
  <2>1. v % m = v /\ 0 % m = 0 /\ m > 0
    OBVIOUS
  <2>. QED  BY <2>1 DEF SharePublic
<1>2. Congruent(v + 0, v, m)
  BY CongruentItself
<1>. QED  BY <1>1, <1>2 DEF IsSharing, PairsModulo

\* How a threshold compares that needs no comparison.
LEMMA AnsweredAtOnce ==
  ASSUME CompareCall, NEW t \in thresholds, t \notin Active
  PROVE  Bit(t >= InputModulus) = Bit(HeldSum < t)
<1>1. t \in Nat /\ HeldSum \in 0 .. InputModulus - 1 /\ InputModulus \in Nat
  BY SumIs, CompareModuli DEF CompareCall
<1>2. t = 0 \/ ~(t < InputModulus)
  BY DEF Active
<1>3. t >= InputModulus <=> HeldSum < t
  BY <1>1, <1>2
<1>. QED  BY <1>3 DEF Bit

LEMMA InitCompare == CompareInit => CompareInv
<1>. SUFFICES ASSUME CompareInit PROVE CompareInv
  OBVIOUS
<1>1. /\ compareFormat \in CompareFormats /\ CompareAccepted
      /\ value \in [p0 : CompareInputs, p1 : CompareInputs]
      /\ thresholds \in ThresholdSets
  BY DEF CompareInit
<1>2. CompareCall
  BY <1>1, ComparisonAssumption DEF CompareCall
<1>3. /\ InternalModulus \in Nat /\ InternalModulus > 3 /\ AnswerModulus \in Nat /\ AnswerModulus >= 3
      /\ Digits \in Nat /\ Digits > 0
  BY <1>2, CompareModuli, DigitCount
<1>4. IsSharing(Zero, 0, InternalModulus) /\ IsSharing(One, 1, InternalModulus)
  <2> DEFINE m == InternalModulus
  <2>1. m \in Nat /\ 0 \in 0 .. m - 1 /\ 1 \in 0 .. m - 1
    BY <1>3
  <2> HIDE DEF m
  <2>2. IsSharing(SharePublic(0, m), 0, m) /\ IsSharing(SharePublic(1, m), 1, m)
    BY <2>1, PublicIsSharing
  <2>. QED  BY <2>2 DEF m, Zero, One
<1>5. Zero \in Pairs(InternalModulus) /\ One \in Pairs(InternalModulus)
  BY <1>4 DEF IsSharing, PairsModulo, Pairs
<1>6. ASSUME NEW t \in thresholds, t \notin Active
      PROVE  IsSharing(less[t], Bit(HeldSum < t), AnswerModulus)
  <2>1. less[t] = SharePublic(Bit(t >= InputModulus), AnswerModulus)
    BY <1>6 DEF CompareInit
  <2>2. Bit(t >= InputModulus) \in 0 .. AnswerModulus - 1
    BY <1>3 DEF Bit
  <2>3. IsSharing(less[t], Bit(t >= InputModulus), AnswerModulus)
    BY <1>3, <2>1, <2>2, PublicIsSharing
  <2>. QED  BY <1>2, <1>6, <2>3, AnsweredAtOnce
<1>7. ASSUME NEW t \in Active
      PROVE  IsSharing(less[t], 0, InternalModulus) /\ IsSharing(prefix[t], 1, InternalModulus) /\ t \in thresholds
  <2>1. t \in thresholds /\ t < InputModulus /\ t \in Nat
    BY <1>2 DEF Active, CompareCall
  <2>2. ~(t >= InputModulus)
    BY <2>1, <1>2, CompareModuli
  <2>3. less[t] = Zero
    BY <2>1, <2>2 DEF CompareInit, Bit, Zero
  <2>4. prefix[t] = One
    BY DEF CompareInit
  <2>. QED  BY <1>4, <2>1, <2>3, <2>4
<1>8. comparePhase = (IF Active = {} THEN "done" ELSE "digits") /\ digit = 0 /\ carry = Zero
  BY DEF CompareInit
<1>9. CompareTypeOK
  <2>1. /\ eq \in [Active -> [0 .. Digits - 1 -> Pairs(InternalModulus)]]
        /\ lt \in [Active -> [0 .. Digits - 1 -> Pairs(InternalModulus)]]
        /\ prefix \in [Active -> Pairs(InternalModulus)]
    BY <1>5 DEF CompareInit
  <2>2. ASSUME NEW t \in thresholds
        PROVE  less[t] \in Pairs(IF comparePhase = "done" \/ t \notin Active THEN AnswerModulus ELSE InternalModulus)
    <3>1. CASE t \in Active
      <4>1. comparePhase # "done"
        BY <1>8, <3>1
      <4>. QED  BY <1>7, <3>1, <4>1 DEF IsSharing, PairsModulo, Pairs
    <3>2. CASE t \notin Active
      BY <1>6, <3>2 DEF IsSharing, PairsModulo, Pairs
    <3>. QED  BY <3>1, <3>2
  <2>3. digit \in 0 .. Digits /\ carry \in Pairs(InternalModulus) /\ comparePhase \in {"digits", "fold", "convert", "done"}
    BY <1>3, <1>5, <1>8
  <2>. QED  BY <1>1, <2>1, <2>2, <2>3 DEF CompareTypeOK
<1>10. IsSharing(carry, CarryInto[0], InternalModulus)
  <2>1. 0 \in 0 .. Digits - 1
    BY <1>3
  <2>2. CarryInto[0] = 0
    <3>1. DigitShift(0) = 0
      BY <1>2, DigitCount DEF DigitShift
    <3>2. TwoTo[DigitShift(0)] = 1
      BY <3>1, TwoToStep
    <3>3. HeldOne \in Int /\ HeldTwo \in Int
      BY <1>2, SumIs, CompareModuli
    <3>4. CarryInto[0] = ((HeldOne % 1) + (HeldTwo % 1)) \div 1
      BY <2>1, <3>2, Zenon DEF CarryInto, Below
    <3>. QED  BY <3>3, <3>4
  <2>. QED  BY <1>4, <1>8, <2>2
<1>11. TakenExact /\ RisingExact /\ FallingExact /\ FoldedExact
  <2>1. 0 .. digit - 1 = {}
    BY <1>8
  <2>. QED  BY <1>3, <1>7, <1>8, <1>10, <2>1 DEF TakenExact, RisingExact, FallingExact, FoldedExact
<1>12. AnsweredExact
  <2>1. comparePhase = "done" => Active = {}
    BY <1>8
  <2>. QED  BY <1>6, <2>1 DEF AnsweredExact
<1>. QED  BY <1>1, <1>9, <1>11, <1>12 DEF CompareInv
LEMMA StepTakeDigit ==
  ASSUME CompareInv, NEW draw \in CompareDraws, TakeDigit(draw)
  PROVE  CompareInv'
<1> DEFINE m == InternalModulus
           d == digit
           same(t) == LookupDigit(d, [c \in Columns |-> Bit(c % DigitBase(d) = Digit(t, d))], draw)
           below(t) == LookupDigit(d, [c \in Columns |-> Bit(c % DigitBase(d) < Digit(t, d))], draw)
           out == LookupDigit(d, [c \in Columns |-> Bit(c >= DigitBase(d))], draw)
<1>1. CompareTypeOK /\ CompareAccepted /\ TakenExact /\ RisingExact /\ AnsweredExact /\ CompareCall
  BY InvCall DEF CompareInv
<1>2. comparePhase = "digits" /\ UNCHANGED <<compareFormat, value, thresholds, prefix, less>>
  BY DEF TakeDigit
<1>3. /\ Digits' = Digits /\ InternalModulus' = InternalModulus /\ AnswerModulus' = AnswerModulus
      /\ Active' = Active /\ HeldSum' = HeldSum /\ CarryInto' = CarryInto /\ SumDigit' = SumDigit
      /\ DigitsOf' = DigitsOf /\ SumAbove' = SumAbove /\ Above' = Above
      /\ CompareAccepted' = CompareAccepted
  BY <1>2, CallStays
<1>4. Digits \in Nat /\ d \in 0 .. Digits - 1 /\ draw \in Nat /\ IsSharing(carry, CarryInto[d], m)
  BY <1>1, <1>2, DigitCount, ComparisonAssumption DEF CompareTypeOK, RisingExact
<1>5. /\ \A t \in Active : IsSharing(same(t), Bit(SumDigit[d] = DigitsOf[t][d]), m)
                           /\ IsSharing(below(t), Bit(SumDigit[d] < DigitsOf[t][d]), m)
      /\ HasCarry(d) => IsSharing(out, CarryInto[d + 1], m)
  BY <1>1, <1>4, DigitsTaken
<1>6. /\ eq' = [t \in Active |-> [eq[t] EXCEPT ![d] = same(t)]]
      /\ lt' = [t \in Active |-> [lt[t] EXCEPT ![d] = below(t)]]
      /\ carry' = IF HasCarry(d) THEN out ELSE carry
      /\ \/ HasCarry(d) /\ digit' = d + 1 /\ comparePhase' = comparePhase
         \/ ~HasCarry(d) /\ digit' = Digits /\ comparePhase' = "fold"
  BY Zenon DEF TakeDigit
<1> HIDE DEF same, below, out
<1>7. \A x, v : IsSharing(x, v, m) => x \in Pairs(m)
  BY DEF IsSharing, PairsModulo, Pairs
<1>8. /\ eq \in [Active -> [0 .. Digits - 1 -> Pairs(m)]] /\ lt \in [Active -> [0 .. Digits - 1 -> Pairs(m)]]
      /\ carry \in Pairs(m) /\ prefix \in [Active -> Pairs(m)]
  BY <1>1 DEF CompareTypeOK
<1>9. digit' = d + 1 /\ digit' \in 0 .. Digits /\ (HasCarry(d) => d + 1 < Digits) /\ (~HasCarry(d) => d + 1 = Digits)
  BY <1>4, <1>6 DEF HasCarry
<1>10. ASSUME NEW t \in Active
       PROVE  /\ eq'[t] \in [0 .. Digits - 1 -> Pairs(m)] /\ lt'[t] \in [0 .. Digits - 1 -> Pairs(m)]
              /\ eq'[t][d] = same(t) /\ lt'[t][d] = below(t)
              /\ \A k \in 0 .. d - 1 : eq'[t][k] = eq[t][k] /\ lt'[t][k] = lt[t][k]
  <2> DEFINE e == eq[t]
             l == lt[t]
  <2>1. e \in [0 .. Digits - 1 -> Pairs(m)] /\ l \in [0 .. Digits - 1 -> Pairs(m)]
    BY <1>8
  <2>2. same(t) \in Pairs(m) /\ below(t) \in Pairs(m)
    BY <1>5, <1>7
  <2>3. eq'[t] = [e EXCEPT ![d] = same(t)] /\ lt'[t] = [l EXCEPT ![d] = below(t)]
    BY <1>6
  <2> HIDE DEF e, l
  <2>4. [e EXCEPT ![d] = same(t)] \in [0 .. Digits - 1 -> Pairs(m)] /\ [l EXCEPT ![d] = below(t)] \in [0 .. Digits - 1 -> Pairs(m)]
    BY <2>1, <2>2
  <2>5. [e EXCEPT ![d] = same(t)][d] = same(t) /\ [l EXCEPT ![d] = below(t)][d] = below(t)
    BY <1>4, <2>1
  <2>6. \A k \in 0 .. d - 1 : [e EXCEPT ![d] = same(t)][k] = e[k] /\ [l EXCEPT ![d] = below(t)][k] = l[k]
    <3>1. \A k \in 0 .. d - 1 : k # d /\ k \in 0 .. Digits - 1
      BY <1>4
    <3>. QED  BY <2>1, <3>1
  <2>. QED  BY <2>3, <2>4, <2>5, <2>6 DEF e, l
<1>11. eq' \in [Active -> [0 .. Digits - 1 -> Pairs(m)]] /\ lt' \in [Active -> [0 .. Digits - 1 -> Pairs(m)]]
  BY <1>6, <1>10
<1>12. carry' \in Pairs(m)
  BY <1>5, <1>6, <1>7, <1>8
<1>13. ASSUME NEW t \in thresholds
       PROVE  less[t] \in Pairs(IF t \notin Active THEN AnswerModulus ELSE m)
  BY <1>1, <1>2 DEF CompareTypeOK
<1>14. CompareTypeOK'
  <2>1. comparePhase' \in {"digits", "fold"}
    BY <1>2, <1>6
  <2>2. \A t \in thresholds :
          less[t] \in Pairs(IF comparePhase' = "done" \/ t \notin Active THEN AnswerModulus ELSE m)
    BY <1>13, <2>1
  <2>. QED  BY <1>1, <1>2, <1>3, <1>8, <1>9, <1>11, <1>12, <2>1, <2>2, Zenon DEF CompareTypeOK
<1>15. TakenExact'
  <2>1. ASSUME NEW t \in Active, NEW k \in 0 .. d
        PROVE  /\ IsSharing(eq'[t][k], Bit(SumDigit[k] = DigitsOf[t][k]), m)
               /\ IsSharing(lt'[t][k], Bit(SumDigit[k] < DigitsOf[t][k]), m)
    <3>1. CASE k = d
      BY <1>5, <1>10, <3>1
    <3>2. CASE k # d
      <4>1. k \in 0 .. d - 1
        BY <1>4, <3>2
      <4>. QED  BY <1>1, <1>2, <1>10, <4>1 DEF TakenExact
    <3>. QED  BY <3>1, <3>2
  <2>2. digit' - 1 = d
    BY <1>4, <1>9
  <2>. QED  BY <1>3, <2>1, <2>2, Zenon DEF TakenExact
<1>16. RisingExact'
  <2>1. ASSUME comparePhase' = "digits" PROVE HasCarry(d) /\ digit' = d + 1 /\ d + 1 < Digits /\ carry' = out
    BY <1>6, <1>9, <2>1
  <2>2. \A t \in Active : IsSharing(prefix[t], 1, m) /\ IsSharing(less[t], 0, m)
    BY <1>1, <1>2 DEF RisingExact
  <2>. QED  BY <1>2, <1>3, <1>5, <2>1, <2>2 DEF RisingExact
<1>17. FallingExact'
  <2>1. ASSUME comparePhase' = "fold" PROVE digit' = Digits /\ Digits > 0
    BY <1>1, <1>2, <1>6, <2>1, DigitCount
  <2>2. ASSUME NEW t \in Active
        PROVE  /\ IsSharing(prefix[t], Bit(SumAbove[Digits] = Above[t][Digits]), m)
               /\ IsSharing(less[t], Bit(SumAbove[Digits] < Above[t][Digits]), m)
    <3>1. SumAbove[Digits] = 0 /\ Above[t][Digits] = 0
      BY <1>1, AboveAll
    <3>2. Bit(SumAbove[Digits] = Above[t][Digits]) = 1 /\ Bit(SumAbove[Digits] < Above[t][Digits]) = 0
      BY <3>1 DEF Bit
    <3>3. IsSharing(prefix[t], 1, m) /\ IsSharing(less[t], 0, m)
      BY <1>1, <1>2 DEF RisingExact
    <3>. QED  BY <3>2, <3>3
  <2>. QED  BY <1>2, <1>3, <2>1, <2>2 DEF FallingExact
<1>18. FoldedExact' /\ AnsweredExact'
  <2>1. comparePhase' # "convert" /\ comparePhase' # "done"
    BY <1>2, <1>6
  <2>. QED  BY <1>1, <1>2, <1>3, <2>1 DEF FoldedExact, AnsweredExact
<1>. QED  BY <1>1, <1>3, <1>14, <1>15, <1>16, <1>17, <1>18 DEF CompareInv

LEMMA StepFold ==
  ASSUME CompareInv, NEW draw \in CompareDraws, Fold(draw)
  PROVE  CompareInv'
<1> DEFINE m == InternalModulus
           d == digit - 1
           here(t) == LessHere(t, d, draw)
           sum(t) == AddShares(less[t], here(t), m)
           both(t) == AndShared(prefix[t], eq[t][d], draw)
<1>1. CompareTypeOK /\ CompareAccepted /\ TakenExact /\ FallingExact /\ AnsweredExact /\ CompareCall
  BY InvCall DEF CompareInv
<1>2. comparePhase = "fold" /\ UNCHANGED <<compareFormat, value, thresholds, carry, eq, lt>>
  BY DEF Fold
<1>3. /\ Digits' = Digits /\ InternalModulus' = InternalModulus /\ AnswerModulus' = AnswerModulus
      /\ Active' = Active /\ HeldSum' = HeldSum /\ CarryInto' = CarryInto /\ SumDigit' = SumDigit
      /\ DigitsOf' = DigitsOf /\ SumAbove' = SumAbove /\ Above' = Above
      /\ CompareAccepted' = CompareAccepted
  BY <1>2, CallStays
<1>4. /\ Digits \in Nat /\ d \in 0 .. Digits - 1 /\ d + 1 = digit /\ draw \in Nat
      /\ m \in Nat /\ m > 3
  BY <1>1, <1>2, DigitCount, CompareModuli, ComparisonAssumption DEF CompareTypeOK, FallingExact
<1>5. /\ less' = [t \in thresholds |-> IF t \in Active THEN sum(t) ELSE less[t]]
      /\ prefix' = [t \in Active |-> both(t)]
      /\ digit' = d
      /\ comparePhase' = AfterFold(d)
  BY Zenon DEF Fold
<1>6. /\ d > 0 => comparePhase' = "fold"
      /\ ~(d > 0) => comparePhase' = "convert" \/ (comparePhase' = "done" /\ m = AnswerModulus)
  BY <1>5 DEF AfterFold
<1> HIDE DEF sum, both
<1>7. ASSUME NEW t \in Active
      PROVE  /\ IsSharing(prefix'[t], Bit(SumAbove[d] = Above[t][d]), m)
             /\ IsSharing(less'[t], Bit(SumAbove[d] < Above[t][d]), m)
             /\ t \in thresholds
  <2> DEFINE H == SumAbove[d + 1]
             T == Above[t][d + 1]
             h == SumDigit[d]
             g == DigitsOf[t][d]
  <2>1. /\ SumAbove[d] < Above[t][d] <=> H < T \/ (H = T /\ h < g)
        /\ SumAbove[d] = Above[t][d] <=> H = T /\ h = g
        /\ H \in Nat /\ T \in Nat
    BY <1>1, <1>4, FoldDigit
  <2>2. /\ IsSharing(prefix[t], Bit(H = T), m)
        /\ IsSharing(less[t], Bit(H < T), m)
        /\ IsSharing(eq[t][d], Bit(h = g), m)
        /\ IsSharing(lt[t][d], Bit(h < g), m)
    <3>1. d \in 0 .. digit - 1
      BY <1>4
    <3>. QED  BY <1>1, <1>2, <1>4, <3>1 DEF FallingExact, TakenExact
  <2>3. t \in thresholds /\ prefix'[t] = both(t) /\ less'[t] = sum(t)
    BY <1>5 DEF Active
  <2> HIDE DEF H, T, h, g
  <2> DEFINE same == Bit(H = T)
             under == Bit(H < T)
             u == Bit(h = g)
             v == Bit(h < g)
             x == Bit(same = 1 /\ v = 1)
  <2>4. /\ same \in {0, 1} /\ under \in {0, 1} /\ u \in {0, 1} /\ v \in {0, 1} /\ x \in {0, 1}
        /\ (same = 1 <=> H = T) /\ (under = 1 <=> H < T) /\ (u = 1 <=> h = g) /\ (v = 1 <=> h < g)
    BY DEF Bit
  <2>5. Bit(same = 1 /\ u = 1) = Bit(SumAbove[d] = Above[t][d])
    BY <2>1, <2>4 DEF Bit
  <2>6. under + x = Bit(SumAbove[d] < Above[t][d])
    <3>1. CASE H < T
      <4>1. under = 1 /\ same = 0 /\ SumAbove[d] < Above[t][d]
        BY <2>1, <2>4, <3>1
      <4>2. x = 0
        BY <4>1 DEF Bit
      <4>. QED  BY <4>1, <4>2 DEF Bit
    <3>2. CASE ~(H < T)
      <4>1. under = 0 /\ (SumAbove[d] < Above[t][d] <=> same = 1 /\ v = 1)
        BY <2>1, <2>4, <3>2
      <4>2. x = Bit(SumAbove[d] < Above[t][d])
        BY <4>1 DEF Bit
      <4>. QED  BY <2>4, <4>1, <4>2
    <3>. QED  BY <3>1, <3>2
  <2> HIDE DEF same, under, u, v
  <2>7. IsSharing(both(t), Bit(same = 1 /\ u = 1), m)
    <3>1. IsSharing(prefix[t], same, InternalModulus) /\ IsSharing(eq[t][d], u, InternalModulus)
      BY <2>2 DEF same, u
    <3>2. IsSharing(AndShared(prefix[t], eq[t][d], draw), Bit(same = 1 /\ u = 1), InternalModulus)
      BY <1>1, <1>4, <2>4, <3>1, BothBits
    <3>. QED  BY <3>2 DEF both
  <2>8. IsSharing(here(t), x, m)
    <3>1. IsSharing(prefix[t], same, InternalModulus) /\ IsSharing(lt[t][d], v, InternalModulus)
      BY <2>2 DEF same, v
    <3>2. IsSharing(AndShared(prefix[t], lt[t][d], draw), Bit(same = 1 /\ v = 1), InternalModulus)
      BY <1>1, <1>4, <2>4, <3>1, BothBits
    <3>. QED  BY <3>2 DEF LessHere
  <2> HIDE DEF x, here, m
  <2>9. IsSharing(AddShares(less[t], here(t), m), under + x, m)
    <3>1. IsSharing(less[t], under, m) /\ under \in Int /\ x \in Int /\ m > 0
      BY <1>4, <2>2, <2>4 DEF under
    <3>. QED  BY <1>4, <2>8, <3>1, SumIsSharing
  <2>. QED  BY <2>3, <2>5, <2>6, <2>7, <2>9 DEF sum
<1>8. \A x, v, n : IsSharing(x, v, n) => x \in Pairs(n)
  BY DEF IsSharing, PairsModulo, Pairs
<1>9. ASSUME NEW t \in thresholds, t \notin Active
      PROVE  less'[t] = less[t] /\ IsSharing(less'[t], Bit(HeldSum < t), AnswerModulus)
  BY <1>1, <1>5, <1>9 DEF AnsweredExact
<1>10. ASSUME ~(d > 0), NEW t \in Active
       PROVE  IsSharing(less'[t], Bit(HeldSum < t), m)
  <2>1. d = 0
    BY <1>4, <1>10
  <2>. QED  BY <1>1, <1>7, <2>1, AboveAll
<1>11. CompareTypeOK'
  <2>1. prefix' \in [Active -> Pairs(m)]
    BY <1>5, <1>7, <1>8
  <2>2. ASSUME NEW t \in thresholds
        PROVE  less'[t] \in Pairs(IF comparePhase' = "done" \/ t \notin Active THEN AnswerModulus ELSE m)
    <3>1. CASE t \in Active
      <4>1. less'[t] \in Pairs(m)
        BY <1>7, <1>8, <3>1
      <4>2. comparePhase' = "done" => m = AnswerModulus
        BY <1>4, <1>6
      <4>. QED  BY <3>1, <4>1, <4>2
    <3>2. CASE t \notin Active
      BY <1>8, <1>9, <3>2
    <3>. QED  BY <3>1, <3>2
  <2>3. digit' \in 0 .. Digits /\ comparePhase' \in {"digits", "fold", "convert", "done"}
    BY <1>4, <1>5, <1>6
  <2>4. /\ compareFormat \in CompareFormats /\ value \in [p0 : CompareInputs, p1 : CompareInputs]
        /\ thresholds \in ThresholdSets /\ carry \in Pairs(m)
        /\ eq \in [Active -> [0 .. Digits - 1 -> Pairs(m)]] /\ lt \in [Active -> [0 .. Digits - 1 -> Pairs(m)]]
    BY <1>1 DEF CompareTypeOK
  <2>. QED  BY <1>2, <1>3, <2>1, <2>2, <2>3, <2>4, Zenon DEF CompareTypeOK
<1>12. TakenExact'
  <2>1. \A k \in 0 .. digit' - 1 : k \in 0 .. digit - 1
    BY <1>4, <1>5
  <2>2. \A t \in Active : \A k \in 0 .. digit - 1 :
          /\ IsSharing(eq[t][k], Bit(SumDigit[k] = DigitsOf[t][k]), m)
          /\ IsSharing(lt[t][k], Bit(SumDigit[k] < DigitsOf[t][k]), m)
    BY <1>1, <1>2 DEF TakenExact
  <2>. QED  BY <1>2, <1>3, <2>1, <2>2 DEF TakenExact
<1>13. FallingExact'
  <2>1. comparePhase' = "fold" => d > 0
    BY <1>6
  <2>. QED  BY <1>3, <1>5, <1>7, <2>1 DEF FallingExact
<1>14. RisingExact'
  BY <1>6 DEF RisingExact
<1>15. FoldedExact'
  <2>1. comparePhase' = "convert" => ~(d > 0)
    BY <1>6
  <2>. QED  BY <1>3, <1>10, <2>1 DEF FoldedExact
<1>16. AnsweredExact'
  <2>1. comparePhase' = "done" => ~(d > 0) /\ m = AnswerModulus
    BY <1>6
  <2>. QED  BY <1>2, <1>3, <1>9, <1>10, <2>1 DEF AnsweredExact
<1>. QED  BY <1>1, <1>3, <1>11, <1>12, <1>13, <1>14, <1>15, <1>16 DEF CompareInv

LEMMA StepConvertAnswers ==
  ASSUME CompareInv, NEW draw \in CompareDraws, ConvertAnswers(draw)
  PROVE  CompareInv'
<1>1. CompareTypeOK /\ CompareAccepted /\ FoldedExact /\ AnsweredExact /\ CompareCall
  BY InvCall DEF CompareInv
<1>2. /\ comparePhase = "convert" /\ comparePhase' = "done"
      /\ UNCHANGED <<compareFormat, value, thresholds, digit, carry, eq, lt, prefix>>
      /\ less' = [t \in thresholds |-> IF t \in Active THEN Converted(less[t], draw) ELSE less[t]]
  BY DEF ConvertAnswers
<1>3. /\ Digits' = Digits /\ InternalModulus' = InternalModulus /\ AnswerModulus' = AnswerModulus
      /\ Active' = Active /\ HeldSum' = HeldSum /\ CompareAccepted' = CompareAccepted
  BY <1>2, CallStays
<1>4. ASSUME NEW t \in thresholds
      PROVE  IsSharing(less'[t], Bit(HeldSum < t), AnswerModulus)
  <2>1. CASE t \in Active
    <3>1. IsSharing(less[t], Bit(HeldSum < t), InternalModulus) /\ Bit(HeldSum < t) \in {0, 1} /\ draw \in Nat
      BY <1>1, <1>2, <2>1, ComparisonAssumption DEF FoldedExact, Bit
    <3>2. IsSharing(Converted(less[t], draw), Bit(HeldSum < t), AnswerModulus)
      BY <1>1, <3>1, ConvertsAnswer
    <3>. QED  BY <1>2, <2>1, <3>2
  <2>2. CASE t \notin Active
    BY <1>1, <1>2, <2>2 DEF AnsweredExact
  <2>. QED  BY <2>1, <2>2
<1>5. CompareTypeOK'
  <2>1. \A t \in thresholds : less'[t] \in Pairs(AnswerModulus)
    BY <1>4 DEF IsSharing, PairsModulo, Pairs
  <2>2. /\ compareFormat \in CompareFormats /\ value \in [p0 : CompareInputs, p1 : CompareInputs]
        /\ thresholds \in ThresholdSets /\ carry \in Pairs(InternalModulus) /\ digit \in 0 .. Digits
        /\ eq \in [Active -> [0 .. Digits - 1 -> Pairs(InternalModulus)]]
        /\ lt \in [Active -> [0 .. Digits - 1 -> Pairs(InternalModulus)]]
        /\ prefix \in [Active -> Pairs(InternalModulus)]
    BY <1>1 DEF CompareTypeOK
  <2>. QED  BY <1>2, <1>3, <2>1, <2>2 DEF CompareTypeOK
<1>6. TakenExact' /\ RisingExact' /\ FallingExact' /\ FoldedExact'
  BY <1>2 DEF TakenExact, RisingExact, FallingExact, FoldedExact
<1>7. AnsweredExact'
  BY <1>2, <1>3, <1>4 DEF AnsweredExact
<1>. QED  BY <1>1, <1>3, <1>5, <1>6, <1>7 DEF CompareInv
LEMMA InvCompares == ASSUME CompareInv PROVE Compares
<1>1. CompareTypeOK /\ CompareAccepted /\ RisingExact /\ FallingExact /\ AnsweredExact /\ CompareCall
  BY InvCall DEF CompareInv
<1>2. /\ InternalModulus \in Nat /\ InternalModulus > 3 /\ AnswerModulus \in Nat /\ AnswerModulus >= 3
      /\ Digits \in Nat /\ digit \in 0 .. Digits
  BY <1>1, CompareModuli, DigitCount DEF CompareTypeOK
<1>3. CarryIsExact
  <2>1. SUFFICES ASSUME comparePhase = "digits"
        PROVE  Reconstruct(carry, InternalModulus) = CarryInto[digit]
    <3>1. comparePhase = "digits" => digit \in 0 .. Digits - 1
      BY <1>1, <1>2 DEF RisingExact
    <3>. QED  BY <2>1, <3>1, Zenon DEF CarryIsExact, CarryInto, HeldOne, HeldTwo
  <2>2. digit \in 0 .. Digits - 1 /\ IsSharing(carry, CarryInto[digit], InternalModulus)
    BY <1>1, <1>2, <2>1 DEF RisingExact
  <2>3. CarryInto[digit] \in {0, 1}
    BY <1>1, <2>2, DigitsAddUp
  <2> DEFINE c == CarryInto[digit]
             m == InternalModulus
  <2>4. c \in 0 .. m - 1 /\ m \in Nat /\ m > 0 /\ IsSharing(carry, c, m)
    BY <1>2, <2>2, <2>3
  <2> HIDE DEF c, m
  <2>5. Reconstruct(carry, m) = c
    BY <2>4, SharingReconstructs
  <2>. QED  BY <2>5 DEF c, m
<1>4. FoldIsExact
  <2>1. SUFFICES ASSUME comparePhase = "fold", NEW t \in Active
        PROVE  /\ Reconstruct(prefix[t], InternalModulus)
                    = Bit(HeldSum \div TwoTo[DigitShift(digit)] = t \div TwoTo[DigitShift(digit)])
               /\ Reconstruct(less[t], InternalModulus)
                    = Bit(HeldSum \div TwoTo[DigitShift(digit)] < t \div TwoTo[DigitShift(digit)])
    BY Zenon DEF FoldIsExact
  <2>2. /\ IsSharing(prefix[t], Bit(SumAbove[digit] = Above[t][digit]), InternalModulus)
        /\ IsSharing(less[t], Bit(SumAbove[digit] < Above[t][digit]), InternalModulus)
    BY <1>1, <2>1 DEF FallingExact
  <2>3. SumAbove[digit] = HeldSum \div TwoTo[DigitShift(digit)] /\ Above[t][digit] = t \div TwoTo[DigitShift(digit)]
    BY <1>1, <1>2, AboveAtShift
  <2> DEFINE m == InternalModulus
             same == Bit(SumAbove[digit] = Above[t][digit])
             under == Bit(SumAbove[digit] < Above[t][digit])
  <2>4. same \in 0 .. m - 1 /\ under \in 0 .. m - 1 /\ m \in Nat /\ m > 0 /\ IsSharing(prefix[t], same, m) /\ IsSharing(less[t], under, m)
    BY <1>2, <2>2 DEF Bit
  <2> HIDE DEF m, same, under
  <2>5. Reconstruct(prefix[t], m) = same /\ Reconstruct(less[t], m) = under
    BY <2>4, SharingReconstructs
  <2>. QED  BY <2>3, <2>5 DEF m, same, under
<1>5. ASSUME comparePhase = "done", NEW t \in thresholds
      PROVE  less[t] \in Pairs(AnswerModulus) /\ Reconstruct(less[t], AnswerModulus) = Bit(HeldSum < t)
  <2> DEFINE m == AnswerModulus
             answer == Bit(HeldSum < t)
  <2>1. answer \in 0 .. m - 1 /\ m \in Nat /\ m > 0 /\ IsSharing(less[t], answer, m)
    BY <1>1, <1>2, <1>5 DEF Bit, AnsweredExact
  <2> HIDE DEF m, answer
  <2>2. Reconstruct(less[t], m) = answer
    BY <2>1, SharingReconstructs
  <2>3. less[t] \in Pairs(m)
    BY <2>1 DEF IsSharing, PairsModulo, Pairs
  <2>. QED  BY <2>2, <2>3 DEF m, answer
<1>. QED  BY <1>3, <1>4, <1>5 DEF Compares

\* However a call came here, every step from it, and every stutter, keeps the
\* invariant.
LEMMA StepCompare == CompareInv /\ [CompareNext]_compareVars => CompareInv'
<1>. SUFFICES ASSUME CompareInv, [CompareNext]_compareVars PROVE CompareInv'
  OBVIOUS
<1>1. ASSUME NEW draw \in CompareDraws, TakeDigit(draw) PROVE CompareInv'
  BY <1>1, StepTakeDigit
<1>2. ASSUME NEW draw \in CompareDraws, Fold(draw) PROVE CompareInv'
  BY <1>2, StepFold
<1>3. ASSUME NEW draw \in CompareDraws, ConvertAnswers(draw) PROVE CompareInv'
  BY <1>3, StepConvertAnswers
<1>4. CASE UNCHANGED compareVars
  <2>1. UNCHANGED <<compareFormat, value, thresholds, comparePhase, digit, carry, eq, lt, prefix, less>>
    BY <1>4 DEF compareVars
  <2>2. /\ Digits' = Digits /\ InternalModulus' = InternalModulus /\ AnswerModulus' = AnswerModulus
        /\ Active' = Active /\ HeldSum' = HeldSum /\ CarryInto' = CarryInto /\ SumDigit' = SumDigit
        /\ DigitsOf' = DigitsOf /\ SumAbove' = SumAbove /\ Above' = Above
        /\ CompareAccepted' = CompareAccepted
    BY <2>1, CallStays
  <2>3. CompareTypeOK' /\ TakenExact' /\ RisingExact'
    BY <2>1, <2>2 DEF CompareInv, CompareTypeOK, TakenExact, RisingExact
  <2>4. FallingExact' /\ FoldedExact' /\ AnsweredExact'
    BY <2>1, <2>2 DEF CompareInv, FallingExact, FoldedExact, AnsweredExact
  <2>. QED  BY <2>2, <2>3, <2>4 DEF CompareInv
<1>. QED  BY <1>1, <1>2, <1>3, <1>4 DEF CompareNext

\* Whatever the format, the shares that the parties hold, the thresholds and
\* the shares that lookups draw: the shared carry is that of the digits below,
\* the shared answers of the fold compare the digits folded so far, and in the
\* end the parties hold reduced shares of the comparison with every threshold.
THEOREM ComparisonIsExact == CompareSpec => []Compares
<1>1. CompareInit => CompareInv
  BY InitCompare
<1>2. CompareInv /\ [CompareNext]_compareVars => CompareInv'
  BY StepCompare
<1>3. CompareInv => Compares
  BY InvCompares
<1>. QED  BY <1>1, <1>2, <1>3, PTL DEF CompareSpec
-----------------------------------------------------------------------------
(* Programs of a token: what the machine is left with.                     *)

\* What a machine remembers after n instructions, each carried out on the memory
\* that the ones before it left.
Remembers(mem, code, inputs, n) ==
  /\ Len(code) = n /\ mem \in [1 .. n -> Int]
  /\ \A c \in 1 .. n : Executed(code[c], [k \in 1 .. c - 1 |-> mem[k]], inputs) = mem[c]

\* A program leaves what its last instruction does.
LEMMA RunIs ==
  ASSUME NEW code, NEW inputs, NEW n \in Nat, n > 0, NEW mem, Remembers(mem, code, inputs, n)
  PROVE  Run(code, inputs) = mem[n]
<1> DEFINE Held(c) == [k \in 1 .. c |-> mem[k]]
           g == [c \in 0 .. n |-> Held(c)]
           Recurses(f) == f = [c \in 0 .. n |-> IF c = 0 THEN <<>> ELSE Append(f[c - 1], Executed(code[c], f[c - 1], inputs))]
<1>. /\ Len(code) = n /\ mem \in [1 .. n -> Int]
     /\ \A c \in 1 .. n : Executed(code[c], [k \in 1 .. c - 1 |-> mem[k]], inputs) = mem[c]
  BY DEF Remembers
<1>1. Held(0) = <<>>
  OBVIOUS
<1>2. ASSUME NEW c \in 1 .. n PROVE Held(c) = Append(Held(c - 1), mem[c])
  <2>1. c - 1 \in Nat /\ Held(c - 1) \in Seq(Int) /\ Len(Held(c - 1)) = c - 1 /\ mem[c] \in Int
    OBVIOUS
  <2>2. Held(c) \in Seq(Int) /\ Len(Held(c)) = c
    OBVIOUS
  <2> DEFINE a == Append(Held(c - 1), mem[c])
  <2>3. a \in Seq(Int) /\ Len(a) = c /\ (\A k \in 1 .. c : a[k] = IF k = c THEN mem[c] ELSE Held(c - 1)[k])
    <3> HIDE DEF Held
    <3>. QED  BY <2>1
  <2>4. \A k \in 1 .. c : Held(c)[k] = a[k]
    <3>1. TAKE k \in 1 .. c
    <3>2. Held(c)[k] = mem[k] /\ (k # c => Held(c - 1)[k] = mem[k])
      OBVIOUS
    <3> HIDE DEF Held, a
    <3>. QED  BY <2>3, <3>2
  <2> HIDE DEF Held, a
  <2>. QED  BY <2>1, <2>2, <2>3, <2>4
<1>3. Recurses(g)
  <2>1. \A c \in 0 .. n : g[c] = Held(c)
    OBVIOUS
  <2>2. \A c \in 0 .. n : c # 0 => c \in 1 .. n /\ c - 1 \in 0 .. n /\ Executed(code[c], Held(c - 1), inputs) = mem[c]
    BY SMT
  <2>3. \A c \in 0 .. n : g[c] = IF c = 0 THEN <<>> ELSE Append(g[c - 1], Executed(code[c], g[c - 1], inputs))
    <3>1. TAKE c \in 0 .. n
    <3>2. CASE c = 0
      <4> HIDE DEF Held, g
      <4>. QED  BY <1>1, <2>1, <3>2
    <3>3. CASE c # 0
      <4>1. c \in 1 .. n /\ c - 1 \in 0 .. n /\ Executed(code[c], Held(c - 1), inputs) = mem[c]
        BY <2>2, <3>3
      <4> HIDE DEF Held, g
      <4>2. g[c - 1] = Held(c - 1) /\ g[c] = Held(c)
        BY <2>1, <4>1
      <4>3. Held(c) = Append(Held(c - 1), mem[c])
        BY <1>2, <4>1
      <4>. QED  BY <3>3, <4>1, <4>2, <4>3
    <3>. QED  BY <3>2, <3>3
  <2>4. g = [c \in 0 .. n |-> g[c]]
    OBVIOUS
  <2> HIDE DEF g
  <2>. QED  BY <2>3, <2>4
<1>4. ASSUME NEW f, Recurses(f) PROVE f[n] = g[n]
  <2> DEFINE S == {c \in Nat : c <= n => f[c] = g[c]}
  <2>1. \A c \in 0 .. n :
          /\ f[c] = IF c = 0 THEN <<>> ELSE Append(f[c - 1], Executed(code[c], f[c - 1], inputs))
          /\ g[c] = IF c = 0 THEN <<>> ELSE Append(g[c - 1], Executed(code[c], g[c - 1], inputs))
    <3> HIDE DEF g
    <3>. QED  BY <1>3, <1>4
  <2> HIDE DEF g
  <2>2. 0 \in S
    BY <2>1
  <2>3. ASSUME NEW c \in Nat, c \in S PROVE c + 1 \in S
    <3>1. SUFFICES ASSUME c + 1 <= n PROVE f[c + 1] = g[c + 1]
      OBVIOUS
    <3>2. c + 1 \in 0 .. n /\ c + 1 # 0 /\ (c + 1) - 1 = c /\ f[c] = g[c]
      BY <2>3, <3>1
    <3>. QED  BY <2>1, <3>2
  <2>4. \A c \in Nat : c \in S
    <3> HIDE DEF S
    <3>. QED  BY <2>2, <2>3, Induction
  <2>. QED  BY <2>4
<1>5. Run(code, inputs) = (CHOOSE f : Recurses(f))[n][n]
  BY DEF Run
<1>6. g[n][n] = mem[n]
  OBVIOUS
<1> HIDE DEF g, Recurses
<1>. QED  BY <1>3, <1>4, <1>5, <1>6

\* A linear combination, reduced term by term, is that of the integers.
LEMMA AddsTerm ==
  ASSUME NEW m \in Nat, m > 0, NEW s \in Int, NEW k \in Int, NEW x \in Int
  PROVE  ((s % m) + ((k % m) * x)) % m = (s + (k * x)) % m
<1>1. s % m \in Int /\ k % m \in Int /\ Congruent(s % m, s, m) /\ Congruent(k % m, k, m)
  BY Division, RemainderCongruent
<1> DEFINE sm == s % m
           km == k % m
<1> HIDE DEF sm, km
<1>2. sm \in Int /\ km \in Int /\ Congruent(sm, s, m) /\ Congruent(km, k, m)
  BY <1>1 DEF sm, km
<1>3. Congruent(km * x, k * x, m)
  BY <1>2, CongruentTimes
<1>4. km * x \in Int /\ k * x \in Int
  BY <1>2
<1> DEFINE a == km * x
           b == k * x
<1> HIDE DEF a, b
<1>5. a \in Int /\ b \in Int /\ Congruent(a, b, m)
  BY <1>3, <1>4 DEF a, b
<1>6. Congruent(sm + a, s + b, m)
  BY <1>2, <1>5, CongruentSum
<1>7. (sm + a) % m = (s + b) % m
  BY <1>2, <1>5, <1>6, CongruentSame
<1>. QED  BY <1>7 DEF sm, km, a, b

LEMMA SummedIs ==
  ASSUME modulus \in Nat, modulus > 0, NEW instruction, NEW memory, NEW L \in Nat, Len(instruction.terms) = L,
         NEW e \in [0 .. L -> Int], e[0] = instruction.value,
         \A n \in 1 .. L :
           /\ instruction.terms[n][1] \in Int /\ memory[instruction.terms[n][2]] \in Int
           /\ e[n] = e[n - 1] + (instruction.terms[n][1] * memory[instruction.terms[n][2]])
  PROVE  Summed(instruction, memory) = e[L] % modulus
<1> DEFINE t == instruction.terms
           g == [n \in 0 .. L |-> e[n] % modulus]
           Recurses(f) == f = [n \in 0 .. L |-> IF n = 0 THEN Mod(instruction.value)
                                               ELSE Mod(f[n - 1] + Mod(t[n][1]) * memory[t[n][2]])]
<1>1. Recurses(g)
  <2>1. ASSUME NEW n \in 0 .. L
        PROVE  g[n] = IF n = 0 THEN Mod(instruction.value) ELSE Mod(g[n - 1] + Mod(t[n][1]) * memory[t[n][2]])
    <3>1. CASE n = 0
      BY <3>1 DEF Mod
    <3>2. CASE n # 0
      <4>1. n \in 1 .. L /\ n - 1 \in 0 .. L /\ e[n - 1] \in Int
        BY <3>2
      <4>2. t[n][1] \in Int /\ memory[t[n][2]] \in Int /\ e[n] = e[n - 1] + (t[n][1] * memory[t[n][2]])
        BY <4>1
      <4>3. g[n] = e[n] % modulus /\ g[n - 1] = e[n - 1] % modulus
        BY <4>1
      <4> DEFINE k == t[n][1]
                 x == memory[t[n][2]]
                 s == e[n - 1]
      <4>4. k \in Int /\ x \in Int /\ s \in Int /\ e[n] = s + (k * x)
        BY <4>1, <4>2
      <4> HIDE DEF k, x, s
      <4>5. ((s % modulus) + ((k % modulus) * x)) % modulus = (s + (k * x)) % modulus
        BY <4>4, AddsTerm
      <4> HIDE DEF g
      <4>. QED  BY <3>2, <4>3, <4>4, <4>5 DEF Mod, k, x, s
    <3>. QED  BY <3>1, <3>2
  <2>2. g = [n \in 0 .. L |-> g[n]]
    OBVIOUS
  <2> HIDE DEF g, t
  <2>. QED  BY <2>1, <2>2
<1>2. ASSUME NEW f, Recurses(f) PROVE f[L] = g[L]
  <2> DEFINE S == {n \in Nat : n <= L => f[n] = g[n]}
  <2> HIDE DEF g
  <2>1. \A n \in 0 .. L :
          /\ f[n] = IF n = 0 THEN Mod(instruction.value) ELSE Mod(f[n - 1] + Mod(t[n][1]) * memory[t[n][2]])
          /\ g[n] = IF n = 0 THEN Mod(instruction.value) ELSE Mod(g[n - 1] + Mod(t[n][1]) * memory[t[n][2]])
    BY <1>1, <1>2
  <2>2. 0 \in S
    BY <2>1
  <2>3. ASSUME NEW n \in Nat, n \in S PROVE n + 1 \in S
    <3>1. SUFFICES ASSUME n + 1 <= L PROVE f[n + 1] = g[n + 1]
      OBVIOUS
    <3>2. n + 1 \in 0 .. L /\ n + 1 # 0 /\ (n + 1) - 1 = n /\ f[n] = g[n]
      BY <2>3, <3>1
    <3>. QED  BY <2>1, <3>2
  <2>4. \A n \in Nat : n \in S
    <3> HIDE DEF S
    <3>. QED  BY <2>2, <2>3, Induction
  <2>. QED  BY <2>4
<1>3. Summed(instruction, memory) = (CHOOSE f : Recurses(f))[L]
  BY DEF Summed
<1>4. g[L] = e[L] % modulus
  OBVIOUS
<1> HIDE DEF g, Recurses
<1>. QED  BY <1>1, <1>2, <1>3, <1>4

\* A linear combination of up to four cells.
Term(t, n, memory) == IF n <= Len(t) THEN t[n][1] * memory[t[n][2]] ELSE 0

LEMMA SumsTerms ==
  ASSUME modulus \in Nat, modulus > 0, NEW memory, NEW inputs, NEW v \in Int, NEW t, Len(t) \in 1 .. 4,
         \A n \in 1 .. Len(t) : t[n][1] \in Int /\ memory[t[n][2]] \in Int
  PROVE  Executed(Lin(v, t), memory, inputs)
           = (v + Term(t, 1, memory) + Term(t, 2, memory) + Term(t, 3, memory) + Term(t, 4, memory)) % modulus
<1> DEFINE L == Len(t)
           T(n) == Term(t, n, memory)
           instruction == Lin(v, t)
           e == [n \in 0 .. L |-> IF n = 0 THEN v ELSE IF n = 1 THEN v + T(1) ELSE IF n = 2 THEN v + T(1) + T(2)
                                 ELSE IF n = 3 THEN v + T(1) + T(2) + T(3) ELSE v + T(1) + T(2) + T(3) + T(4)]
<1>1. instruction.kind = "lin" /\ instruction.value = v /\ instruction.terms = t
  BY DEF Lin
<1>2. \A n \in 1 .. L : T(n) = t[n][1] * memory[t[n][2]] /\ T(n) \in Int
  BY DEF Term
<1>3. /\ L = 1 \/ L = 2 \/ L = 3 \/ L = 4
      /\ T(1) \in Int /\ T(2) \in Int /\ T(3) \in Int /\ T(4) \in Int
      /\ (L < 2 => T(2) = 0) /\ (L < 3 => T(3) = 0) /\ (L < 4 => T(4) = 0)
  <2>4. L \in 1 .. 4
    OBVIOUS
  <2>1. 1 <= L /\ L <= 4 /\ L \in Nat
    <3> HIDE DEF L
    <3>. QED  BY <2>4
  <2>2. ASSUME NEW n \in Nat, n >= 1 PROVE T(n) \in Int /\ (L < n => T(n) = 0)
    <3>1. CASE n <= L
      BY <1>2, <2>1, <2>2, <3>1
    <3>2. CASE ~(n <= L)
      BY <2>1, <3>2 DEF Term
    <3>. QED  BY <3>1, <3>2
  <2> HIDE DEF T, L
  <2>3. L = 1 \/ L = 2 \/ L = 3 \/ L = 4
    BY <2>1
  <2>. QED  BY <2>2, <2>3
<1> HIDE DEF T, L
<1>4. e \in [0 .. L -> Int] /\ e[0] = v
  <2>1. 0 \in 0 .. L
    BY <1>3
  <2>4. T(1) \in Int /\ T(2) \in Int /\ T(3) \in Int /\ T(4) \in Int
    BY <1>3
  <2>5. /\ v + T(1) \in Int /\ v + T(1) + T(2) \in Int /\ v + T(1) + T(2) + T(3) \in Int
        /\ v + T(1) + T(2) + T(3) + T(4) \in Int
    BY <2>4
  <2>2. \A n \in 0 .. L : e[n] \in Int
    BY <2>5
  <2>3. e = [n \in 0 .. L |-> e[n]] /\ e[0] = v
    BY <2>1
  <2> HIDE DEF e
  <2>. QED  BY <2>2, <2>3
<1>5. \A n \in 1 .. L : e[n] = e[n - 1] + T(n)
  <2>1. TAKE n \in 1 .. L
  <2>2. (n = 1 \/ n = 2 \/ n = 3 \/ n = 4) /\ n \in 0 .. L /\ n - 1 \in 0 .. L
    BY <1>3
  <2>3. CASE n = 1
    BY <1>3, <2>2, <2>3
  <2>4. CASE n = 2
    BY <1>3, <2>2, <2>4
  <2>5. CASE n = 3
    BY <1>3, <2>2, <2>5
  <2>6. CASE n = 4
    BY <1>3, <2>2, <2>6
  <2>. QED  BY <2>2, <2>3, <2>4, <2>5, <2>6
<1>6. e[L] = v + T(1) + T(2) + T(3) + T(4)
  <2>1. L \in 0 .. L
    BY <1>3
  <2>. QED  BY <1>3, <2>1
<1>7. Executed(instruction, memory, inputs) = Summed(instruction, memory)
  BY <1>1 DEF Executed
<1> HIDE DEF e, instruction
<1>8. Summed(instruction, memory) = e[L] % modulus
  <2>1. /\ L \in Nat /\ Len(instruction.terms) = L /\ e[0] = instruction.value
        /\ \A n \in 1 .. L :
             /\ instruction.terms[n][1] \in Int /\ memory[instruction.terms[n][2]] \in Int
             /\ e[n] = e[n - 1] + (instruction.terms[n][1] * memory[instruction.terms[n][2]])
    <3>. QED  BY <1>1, <1>2, <1>3, <1>4, <1>5 DEF L
  <2>. QED  BY <1>4, <2>1, SummedIs
<1>. QED  BY <1>6, <1>7, <1>8 DEF instruction, T
-----------------------------------------------------------------------------
(* Adding a number to one whose bits are loaded.                           *)

\* The carry into bit i of a sum.
CarryToBit(r, g, i) == ((r % TwoTo[i]) + (g % TwoTo[i])) \div TwoTo[i]

LEMMA BitAdded ==
  ASSUME NEW r \in Nat, NEW g \in Nat, NEW i \in Nat
  PROVE  LET s == BitOf(r, i) + BitOf(g, i) + CarryToBit(r, g, i)
         IN  /\ BitOf(r, i) \in {0, 1} /\ BitOf(g, i) \in {0, 1} /\ CarryToBit(r, g, i) \in {0, 1}
             /\ BitOf(r + g, i) = s % 2
             /\ CarryToBit(r, g, i + 1) = s \div 2
<1> DEFINE B == TwoTo[i]
           b == 2
           c == ((r % B) + (g % B)) \div B
           s == ((r \div B) % b) + ((g \div B) % b) + c
<1>1. TwoTo[i + 1] = B * b /\ b = 2
  BY TwoToType, TwoToStep
<1>8. B \in Nat /\ B > 0 /\ b \in Nat /\ b > 0
  BY TwoToType
<1>2. BitOf(r, i) = (r \div B) % b /\ BitOf(g, i) = (g \div B) % b /\ CarryToBit(r, g, i) = c /\ BitOf(r + g, i) = ((r + g) \div B) % b
  BY DEF BitOf, CarryToBit
<1> HIDE DEF B, b
<1>3. /\ c \in {0, 1}
      /\ s \in 0 .. 2 * b - 1
      /\ ((r + g) \div B) % b = s % b
      /\ ((r % (B * b)) + (g % (B * b))) \div (B * b) = s \div b
  BY <1>8, DigitOfSum
<1>4. r \div B \in Nat /\ g \div B \in Nat
  BY <1>8, QuotientOfNat
<1>5. (r \div B) % b \in {0, 1} /\ (g \div B) % b \in {0, 1}
  BY <1>1, <1>4
<1>6. CarryToBit(r, g, i + 1) = ((r % (B * b)) + (g % (B * b))) \div (B * b)
  BY <1>1 DEF CarryToBit
<1> HIDE DEF c, s
<1>7. BitOf(r, i) + BitOf(g, i) + CarryToBit(r, g, i) = s
  BY <1>2 DEF s
<1>. QED  BY <1>1, <1>2, <1>3, <1>5, <1>6, <1>7

LEMMA NoCarryIn ==
  ASSUME NEW r \in Nat, NEW g \in Nat
  PROVE  CarryToBit(r, g, 0) = 0
<1>1. TwoTo[0] = 1
  BY TwoToStep
<1>2. r % 1 = 0 /\ g % 1 = 0
  OBVIOUS
<1>. QED  BY <1>1, <1>2 DEF CarryToBit

\* What the cells of the addition hold.
AddedCell(r, g, c) ==
  LET i == (c - 2) \div 4
      j == (c - 2) % 4
  IN  IF c = 1 THEN 0
      ELSE IF j = 0 THEN BitOf(r, i)
      ELSE IF j = 1 THEN BitOf(r, i) * CarryToBit(r, g, i)
      ELSE IF j = 2 THEN CarryToBit(r, g, i + 1)
      ELSE BitOf(r + g, i)

LEMMA CellsAre ==
  ASSUME NEW r \in Nat, NEW g \in Nat, NEW i \in Nat
  PROVE  /\ AddedCell(r, g, 4 * i + 2) = BitOf(r, i)
         /\ AddedCell(r, g, 4 * i + 3) = BitOf(r, i) * CarryToBit(r, g, i)
         /\ AddedCell(r, g, 4 * i + 4) = CarryToBit(r, g, i + 1)
         /\ AddedCell(r, g, 4 * i + 5) = BitOf(r + g, i)
         /\ AddedCell(r, g, SumCell(i)) = BitOf(r + g, i)
         /\ AddedCell(r, g, CarryCell(i)) = CarryToBit(r, g, i)
<1>1. ASSUME NEW k \in Nat, NEW j \in 0 .. 3
      PROVE  /\ ((4 * k + 2 + j) - 2) \div 4 = k /\ ((4 * k + 2 + j) - 2) % 4 = j
             /\ 4 * k + 2 + j # 1
  OBVIOUS
<1>2. ASSUME NEW k \in Nat, NEW j \in 0 .. 3
      PROVE  AddedCell(r, g, 4 * k + 2 + j)
               = IF j = 0 THEN BitOf(r, k) ELSE IF j = 1 THEN BitOf(r, k) * CarryToBit(r, g, k)
                 ELSE IF j = 2 THEN CarryToBit(r, g, k + 1) ELSE BitOf(r + g, k)
  BY <1>1 DEF AddedCell
<1>4. ASSUME NEW k \in Nat
      PROVE  /\ AddedCell(r, g, 4 * k + 2) = BitOf(r, k)
             /\ AddedCell(r, g, 4 * k + 3) = BitOf(r, k) * CarryToBit(r, g, k)
             /\ AddedCell(r, g, 4 * k + 4) = CarryToBit(r, g, k + 1)
             /\ AddedCell(r, g, 4 * k + 5) = BitOf(r + g, k)
  <2>1. /\ 4 * k + 2 + 0 = 4 * k + 2 /\ 4 * k + 2 + 1 = 4 * k + 3
        /\ 4 * k + 2 + 2 = 4 * k + 4 /\ 4 * k + 2 + 3 = 4 * k + 5
        /\ 0 \in 0 .. 3 /\ 1 \in 0 .. 3 /\ 2 \in 0 .. 3 /\ 3 \in 0 .. 3
    OBVIOUS
  <2>. QED  BY <1>2, <2>1
<1>5. AddedCell(r, g, SumCell(i)) = BitOf(r + g, i)
  BY <1>4 DEF SumCell
<1>6. AddedCell(r, g, CarryCell(i)) = CarryToBit(r, g, i)
  <2>1. CASE i = 0
    BY <2>1, NoCarryIn DEF CarryCell, AddedCell
  <2>2. CASE i # 0
    <3>1. PICK k \in Nat : k + 1 = i
      <4>1. i - 1 \in Nat /\ (i - 1) + 1 = i
        BY <2>2
      <4>. QED  BY <4>1
    <3>2. AddedCell(r, g, 4 * k + 4) = CarryToBit(r, g, k + 1)
      BY <1>4
    <3>3. 4 * k + 4 = CarryCell(i)
      BY <2>2, <3>1 DEF CarryCell
    <3>. QED  BY <3>1, <3>2, <3>3
  <2>. QED  BY <2>1, <2>2
<1>. QED  BY <1>4, <1>5, <1>6

\* The last two cells of a bit combine its cells: the bit, the carry in and their product.
Combines(t, memory, x, z, prod) ==
  /\ Len(t) = 3 /\ t[1][1] \in Int /\ t[2][1] \in Int /\ t[3][1] \in Int
  /\ memory[t[1][2]] = x /\ memory[t[2][2]] = z /\ memory[t[3][2]] = prod

LEMMA CombinesBit ==
  ASSUME modulus \in Nat, modulus > 0, NEW x \in {0, 1}, NEW z \in {0, 1}, NEW prod \in {0, 1},
         NEW inputs, NEW memory, NEW v \in Int, NEW t, Combines(t, memory, x, z, prod)
  PROVE  Executed(Lin(v, t), memory, inputs) = (v + (t[1][1] * x) + (t[2][1] * z) + (t[3][1] * prod)) % modulus
<1>. /\ Len(t) = 3 /\ t[1][1] \in Int /\ t[2][1] \in Int /\ t[3][1] \in Int
     /\ memory[t[1][2]] = x /\ memory[t[2][2]] = z /\ memory[t[3][2]] = prod
  BY DEF Combines
<1>1. Len(t) \in 1 .. 4 /\ \A n \in 1 .. Len(t) : t[n][1] \in Int /\ memory[t[n][2]] \in Int
  <2>1. \A n \in 1 .. 3 : n = 1 \/ n = 2 \/ n = 3
    OBVIOUS
  <2>. QED  BY <2>1
<1>2. /\ Term(t, 1, memory) = t[1][1] * x /\ Term(t, 2, memory) = t[2][1] * z
      /\ Term(t, 3, memory) = t[3][1] * prod /\ Term(t, 4, memory) = 0
  BY DEF Term
<1>3. Executed(Lin(v, t), memory, inputs)
        = (v + Term(t, 1, memory) + Term(t, 2, memory) + Term(t, 3, memory) + Term(t, 4, memory)) % modulus
  BY <1>1, SumsTerms, Zenon
<1>4. t[1][1] * x \in Int /\ t[2][1] * z \in Int /\ t[3][1] * prod \in Int
  OBVIOUS
<1> DEFINE a == t[1][1] * x
           b == t[2][1] * z
           d == t[3][1] * prod
<1> HIDE DEF a, b, d
<1>5. a \in Int /\ b \in Int /\ d \in Int
  BY <1>4 DEF a, b, d
<1>6. v + a + b + d + 0 = v + a + b + d
  BY <1>5
<1>7. Executed(Lin(v, t), memory, inputs) = (v + a + b + d + 0) % modulus
  BY <1>2, <1>3 DEF a, b, d
<1>. QED  BY <1>6, <1>7 DEF a, b, d

HoldsBits(inputs, name, bits, r) == \A i \in 0 .. bits - 1 : inputs[<<name, i>>] = BitOf(r, i)
AddedUpTo(last, memory, r, g) == \A k \in 1 .. last : memory[k] = AddedCell(r, g, k)

LEMMA AddsBits ==
  ASSUME modulus \in Nat, modulus >= 2, NEW bits \in Nat, NEW r \in Nat, NEW g \in Nat,
         NEW name, NEW inputs, HoldsBits(inputs, name, bits, r),
         NEW c \in 1 .. 4 * bits + 1, NEW memory, AddedUpTo(c - 1, memory, r, g)
  PROVE  Executed(BitAdd(bits, g, name)[c], memory, inputs) = AddedCell(r, g, c)
<1>1. CASE c = 1
  <2>1. BitAdd(bits, g, name)[c] = Const(0)
    BY <1>1 DEF BitAdd
  <2>2. Executed(Const(0), memory, inputs) = Mod(0)
    BY DEF Executed, Const
  <2>3. Mod(0) = 0
    BY DEF Mod
  <2>. QED  BY <1>1, <2>1, <2>2, <2>3 DEF AddedCell
<1>2. CASE c # 1
  <2>1. PICK i \in 0 .. bits - 1, j \in 0 .. 3 : c = 4 * i + 2 + j /\ (c - 2) \div 4 = i /\ (c - 2) % 4 = j
    <3>1. (c - 2) \div 4 \in 0 .. bits - 1 /\ (c - 2) % 4 \in 0 .. 3 /\ c = 4 * ((c - 2) \div 4) + 2 + ((c - 2) % 4)
      BY <1>2
    <3>. QED  BY <3>1
  <2> DEFINE x == BitOf(r, i)
             y == BitOf(g, i)
             z == CarryToBit(r, g, i)
             prod == x * z
  <2>2. /\ x \in {0, 1} /\ y \in {0, 1} /\ z \in {0, 1} /\ prod \in {0, 1}
        /\ BitOf(r + g, i) = (x + y + z) % 2 /\ CarryToBit(r, g, i + 1) = (x + y + z) \div 2
    <3>1. i \in Nat
      OBVIOUS
    <3>2. /\ x \in {0, 1} /\ y \in {0, 1} /\ z \in {0, 1}
          /\ BitOf(r + g, i) = (x + y + z) % 2 /\ CarryToBit(r, g, i + 1) = (x + y + z) \div 2
      BY <3>1, BitAdded, Zenon
    <3> HIDE DEF x, y, z
    <3>. QED  BY <3>2
  <2>3. BitAdd(bits, g, name)[c] = AddBit(i, g, name)[j + 1]
    BY <1>2, <2>1 DEF BitAdd
  <2>4. CarryCell(i) \in 1 .. c - 1 /\ memory[CarryCell(i)] = z
    <3>1. i \in Nat /\ CarryCell(i) \in 1 .. c - 1
      BY <2>1 DEF CarryCell
    <3>. QED  BY <3>1, CellsAre DEF AddedUpTo
  <2>5. inputs[<<name, i>>] = x
    BY DEF HoldsBits
  <2>6. /\ j > 0 => memory[4 * i + 2] = x
        /\ j > 1 => memory[4 * i + 3] = prod
        /\ AddedCell(r, g, c) = IF j = 0 THEN x ELSE IF j = 1 THEN prod ELSE IF j = 2 THEN (x + y + z) \div 2 ELSE (x + y + z) % 2
    <3>1. i \in Nat /\ (j > 0 => 4 * i + 2 \in 1 .. c - 1) /\ (j > 1 => 4 * i + 3 \in 1 .. c - 1)
      BY <2>1
    <3>2. AddedCell(r, g, 4 * i + 2) = x /\ AddedCell(r, g, 4 * i + 3) = prod
      BY <3>1, CellsAre
    <3>3. AddedCell(r, g, c) = IF j = 0 THEN x ELSE IF j = 1 THEN prod ELSE IF j = 2 THEN (x + y + z) \div 2 ELSE (x + y + z) % 2
      BY <1>2, <2>1, <2>2 DEF AddedCell
    <3>. QED  BY <3>1, <3>2, <3>3 DEF AddedUpTo
  <2> DEFINE cc == CarryCell(i)
             cb == 4 * i + 2
             cp == 4 * i + 3
             wire == <<name, i>>
  <2>7. AddBit(i, g, name) =
          <<Load(wire), MulIn(wire, cc),
            IF y = 0 THEN Lin(0, << <<1, cp>> >>) ELSE Lin(0, << <<1, cb>>, <<1, cc>>, <<-1, cp>> >>),
            IF y = 0 THEN Lin(0, << <<1, cb>>, <<1, cc>>, <<-2, cp>> >>)
            ELSE Lin(1, << <<-1, cb>>, <<-1, cc>>, <<2, cp>> >>)>>
    BY DEF AddBit
  <2>8. /\ modulus > 0 /\ 0 \in Int /\ 1 \in Int /\ -1 \in Int /\ 2 \in Int /\ -2 \in Int
        /\ Mod(0) = 0 /\ Mod(1) = 1
    BY DEF Mod
  <2> HIDE DEF x, y, z, prod, cc, cb, cp, wire
  <2>9. /\ memory[cc] = z /\ inputs[wire] = x
        /\ j > 0 => memory[cb] = x
        /\ j > 1 => memory[cp] = prod
        /\ prod = x * z
    BY <2>4, <2>5, <2>6 DEF cc, cb, cp, wire, prod
  <2>10. CASE j = 0
    <3>1. BitAdd(bits, g, name)[c] = Load(wire)
      BY <2>3, <2>7, <2>10
    <3>2. Executed(Load(wire), memory, inputs) = Mod(x)
      BY <2>9 DEF Executed, Load
    <3>. QED  BY <2>2, <2>6, <2>8, <2>10, <3>1, <3>2
  <2>11. CASE j = 1
    <3>1. BitAdd(bits, g, name)[c] = MulIn(wire, cc)
      BY <2>3, <2>7, <2>11
    <3>2. Executed(MulIn(wire, cc), memory, inputs) = Mod(Mod(x) * z)
      BY <2>9 DEF Executed, MulIn
    <3>3. Mod(x) = x /\ x * z = prod /\ Mod(prod) = prod
      BY <2>2, <2>8, <2>9
    <3>. QED  BY <2>2, <2>6, <2>11, <3>1, <3>2, <3>3
  <2>12. CASE j > 1 /\ ~(j = 2 /\ y = 0)
    <3>1. PICK v \in {0, 1}, k1 \in {-1, 1}, k2 \in {-1, 1}, k3 \in {-2, -1, 2} :
            /\ BitAdd(bits, g, name)[c] = Lin(v, << <<k1, cb>>, <<k2, cc>>, <<k3, cp>> >>)
            /\ j = 2 => v = 0 /\ k1 = 1 /\ k2 = 1 /\ k3 = -1
            /\ j = 3 /\ y = 0 => v = 0 /\ k1 = 1 /\ k2 = 1 /\ k3 = -2
            /\ j = 3 /\ y = 1 => v = 1 /\ k1 = -1 /\ k2 = -1 /\ k3 = 2
      <4>1. CASE j = 2
        <5>1. BitAdd(bits, g, name)[c] = Lin(0, << <<1, cb>>, <<1, cc>>, <<-1, cp>> >>)
          BY <2>3, <2>7, <2>12, <4>1
        <5>. QED  BY <4>1, <5>1
      <4>2. CASE j = 3 /\ y = 0
        <5>1. BitAdd(bits, g, name)[c] = Lin(0, << <<1, cb>>, <<1, cc>>, <<-2, cp>> >>)
          BY <2>3, <2>7, <2>12, <4>2
        <5>. QED  BY <4>2, <5>1
      <4>3. CASE j = 3 /\ y = 1
        <5>1. BitAdd(bits, g, name)[c] = Lin(1, << <<-1, cb>>, <<-1, cc>>, <<2, cp>> >>)
          BY <2>3, <2>7, <2>12, <4>3
        <5>. QED  BY <4>3, <5>1
      <4>. QED  BY <2>2, <2>12, <4>1, <4>2, <4>3
    <3> DEFINE t == << <<k1, cb>>, <<k2, cc>>, <<k3, cp>> >>
    <3>2. /\ Len(t) = 3 /\ t[1][1] = k1 /\ t[2][1] = k2 /\ t[3][1] = k3
          /\ memory[t[1][2]] = x /\ memory[t[2][2]] = z /\ memory[t[3][2]] = prod
      BY <2>9, <2>12
    <3>3. v \in Int /\ k1 \in Int /\ k2 \in Int /\ k3 \in Int /\ BitAdd(bits, g, name)[c] = Lin(v, t)
      BY <3>1
    <3> HIDE DEF t
    <3>4. Executed(Lin(v, t), memory, inputs) = (v + (t[1][1] * x) + (t[2][1] * z) + (t[3][1] * prod)) % modulus
      <4>1. Combines(t, memory, x, z, prod)
        BY <3>2, <3>3 DEF Combines
      <4>. QED  BY <2>2, <2>8, <3>3, <4>1, CombinesBit
    <3>5. Executed(BitAdd(bits, g, name)[c], memory, inputs) = (v + (k1 * x) + (k2 * z) + (k3 * prod)) % modulus
      BY <3>2, <3>3, <3>4
    <3>6. (v + (k1 * x) + (k2 * z) + (k3 * prod)) % modulus = IF j = 2 THEN (x + y + z) \div 2 ELSE (x + y + z) % 2
      <4>1. (x = 0 \/ x = 1) /\ (y = 0 \/ y = 1) /\ (z = 0 \/ z = 1) /\ 0 % modulus = 0 /\ 1 % modulus = 1
        BY <2>2
      <4>2. (j = 2 /\ y = 1) \/ (j = 3 /\ y = 0) \/ (j = 3 /\ y = 1)
        BY <2>12, <4>1
      <4>3. prod = x * z
        BY <2>9
      <4>4. CASE j = 2 /\ y = 1
        <5>1. (v + (k1 * x) + (k2 * z) + (k3 * prod)) = (IF x = 1 \/ z = 1 THEN 1 ELSE 0)
          BY <3>1, <4>1, <4>3, <4>4
        <5>. QED  BY <4>1, <4>4, <5>1
      <4>5. CASE j = 3 /\ y = 0
        <5>1. (v + (k1 * x) + (k2 * z) + (k3 * prod)) = (IF x = z THEN 0 ELSE 1)
          BY <3>1, <4>1, <4>3, <4>5
        <5>. QED  BY <4>1, <4>5, <5>1
      <4>6. CASE j = 3 /\ y = 1
        <5>1. (v + (k1 * x) + (k2 * z) + (k3 * prod)) = (IF x = z THEN 1 ELSE 0)
          BY <3>1, <4>1, <4>3, <4>6
        <5>. QED  BY <4>1, <4>6, <5>1
      <4>. QED  BY <4>2, <4>4, <4>5, <4>6
    <3>. QED  BY <2>6, <2>12, <3>5, <3>6
  <2>13. CASE j = 2 /\ y = 0
    <3> DEFINE t == << <<1, cp>> >>
    <3>1. BitAdd(bits, g, name)[c] = Lin(0, t)
      BY <2>3, <2>7, <2>13
    <3>2. Len(t) = 1 /\ t[1][1] = 1 /\ memory[t[1][2]] = prod
      BY <2>9, <2>13
    <3> HIDE DEF t
    <3>3. Len(t) \in 1 .. 4 /\ \A n \in 1 .. Len(t) : t[n][1] \in Int /\ memory[t[n][2]] \in Int
      <4>1. \A n \in 1 .. 1 : n = 1
        OBVIOUS
      <4>. QED  BY <2>2, <3>2, <4>1
    <3>4. Term(t, 1, memory) = prod /\ Term(t, 2, memory) = 0 /\ Term(t, 3, memory) = 0 /\ Term(t, 4, memory) = 0
      BY <2>2, <3>2 DEF Term
    <3>5. Executed(Lin(0, t), memory, inputs)
            = (0 + Term(t, 1, memory) + Term(t, 2, memory) + Term(t, 3, memory) + Term(t, 4, memory)) % modulus
      BY <2>8, <3>3, SumsTerms
    <3>6. prod % modulus = (x + y + z) \div 2
      <4>1. (x = 0 \/ x = 1) /\ (z = 0 \/ z = 1) /\ 0 % modulus = 0 /\ 1 % modulus = 1 /\ prod = x * z
        BY <2>2, <2>9
      <4>. QED  BY <2>13, <4>1
    <3>. QED  BY <2>2, <2>6, <2>13, <3>1, <3>4, <3>5, <3>6
  <2>. QED  BY <2>1, <2>10, <2>11, <2>12, <2>13
<1>. QED  BY <1>1, <1>2

LEMMA AddedCellType ==
  ASSUME NEW r \in Nat, NEW g \in Nat, NEW c \in Nat, c > 0
  PROVE  AddedCell(r, g, c) \in {0, 1}
<1>1. CASE c = 1
  BY <1>1 DEF AddedCell
<1>2. CASE c # 1
  <2>1. PICK i \in Nat : (c - 2) \div 4 = i
    <3>1. (c - 2) \div 4 \in Nat
      BY <1>2
    <3>. QED  BY <3>1
  <2>2. /\ BitOf(r, i) \in {0, 1} /\ CarryToBit(r, g, i) \in {0, 1}
        /\ BitOf(g, i) \in {0, 1}
        /\ BitOf(r + g, i) = (BitOf(r, i) + BitOf(g, i) + CarryToBit(r, g, i)) % 2
        /\ CarryToBit(r, g, i + 1) = (BitOf(r, i) + BitOf(g, i) + CarryToBit(r, g, i)) \div 2
    BY BitAdded, Zenon
  <2> DEFINE x == BitOf(r, i)
             y == BitOf(g, i)
             z == CarryToBit(r, g, i)
             prod == x * z
  <2>3. AddedCell(r, g, c) \in {x, prod, (x + y + z) \div 2, (x + y + z) % 2}
    BY <1>2, <2>1, <2>2 DEF AddedCell
  <2>4. x \in {0, 1} /\ y \in {0, 1} /\ z \in {0, 1} /\ prod = x * z
    BY <2>2
  <2> HIDE DEF x, y, z, prod
  <2>5. prod \in {0, 1} /\ (x + y + z) \div 2 \in {0, 1} /\ (x + y + z) % 2 \in {0, 1}
    BY <2>4
  <2>. QED  BY <2>3, <2>4, <2>5
<1>. QED  BY <1>1, <1>2

\* A program that begins with an addition ends with what its tail leaves.
BeginsAdding(code, bits, g, name) == \A c \in 1 .. 4 * bits + 1 : code[c] = BitAdd(bits, g, name)[c]
Leaves(tail, n, code, inputs, bits, r, g) ==
  \A c \in 4 * bits + 2 .. n : \A memory :
    AddedUpTo(4 * bits + 1, memory, r, g) /\ (\A k \in 4 * bits + 2 .. c - 1 : memory[k] = tail[k])
      => Executed(code[c], memory, inputs) = tail[c]

LEMMA RunAdds ==
  ASSUME modulus \in Nat, modulus >= 2, NEW bits \in Nat, NEW r \in Nat, NEW g \in Nat,
         NEW name, NEW inputs, HoldsBits(inputs, name, bits, r),
         NEW code, NEW n \in Nat, Len(code) = n, n > 4 * bits + 1, BeginsAdding(code, bits, g, name),
         NEW tail \in [4 * bits + 2 .. n -> Int], Leaves(tail, n, code, inputs, bits, r, g)
  PROVE  Run(code, inputs) = tail[n]
<1> DEFINE e == 4 * bits + 1
           mem == [c \in 1 .. n |-> IF c <= e THEN AddedCell(r, g, c) ELSE tail[c]]
           Before(c) == [k \in 1 .. c - 1 |-> mem[k]]
<1>1. e \in Nat /\ e > 0 /\ e < n /\ e + 1 = 4 * bits + 2
  OBVIOUS
<1>2. mem \in [1 .. n -> Int]
  <2>1. \A c \in 1 .. n : mem[c] \in Int
    <3>1. TAKE c \in 1 .. n
    <3>2. CASE c <= e
      <4>1. AddedCell(r, g, c) \in {0, 1}
        BY AddedCellType
      <4>. QED  BY <3>2, <4>1
    <3>3. CASE ~(c <= e)
      <4>1. c \in 4 * bits + 2 .. n
        BY <3>3
      <4>. QED  BY <3>3, <4>1
    <3>. QED  BY <3>2, <3>3
  <2>2. mem = [c \in 1 .. n |-> mem[c]]
    OBVIOUS
  <2> HIDE DEF mem
  <2>. QED  BY <2>1, <2>2
<1>3. ASSUME NEW c \in 1 .. n PROVE Executed(code[c], Before(c), inputs) = mem[c]
  <2>1. \A k \in 1 .. c - 1 : k \in 1 .. n /\ Before(c)[k] = mem[k]
    OBVIOUS
  <2>2. CASE c <= e
    <3>1. \A k \in 1 .. c - 1 : Before(c)[k] = AddedCell(r, g, k)
      BY <2>1, <2>2
    <3>2. c \in 1 .. 4 * bits + 1 /\ mem[c] = AddedCell(r, g, c) /\ code[c] = BitAdd(bits, g, name)[c]
      BY <2>2 DEF BeginsAdding
    <3> DEFINE memory == Before(c)
    <3> HIDE DEF mem, memory
    <3>3. AddedUpTo(c - 1, memory, r, g)
      BY <3>1 DEF memory, AddedUpTo
    <3>4. Executed(BitAdd(bits, g, name)[c], memory, inputs) = AddedCell(r, g, c)
      BY <3>2, <3>3, AddsBits
    <3>. QED  BY <3>2, <3>4 DEF memory
  <2>3. CASE ~(c <= e)
    <3>1. c \in 4 * bits + 2 .. n /\ mem[c] = tail[c]
      BY <2>3
    <3>2. \A k \in 1 .. 4 * bits + 1 : k \in 1 .. c - 1 /\ Before(c)[k] = AddedCell(r, g, k)
      BY <2>1, <2>3
    <3>3. \A k \in 4 * bits + 2 .. c - 1 : Before(c)[k] = tail[k]
      <4>1. \A k \in 4 * bits + 2 .. c - 1 : k \in 1 .. c - 1 /\ k \in 1 .. n /\ ~(k <= e)
        BY <1>1
      <4>2. \A k \in 1 .. n : ~(k <= e) => mem[k] = tail[k]
        OBVIOUS
      <4> HIDE DEF mem, e
      <4>. QED  BY <2>1, <4>1, <4>2
    <3> DEFINE memory == Before(c)
    <3> HIDE DEF mem, memory
    <3>4. AddedUpTo(4 * bits + 1, memory, r, g) /\ \A k \in 4 * bits + 2 .. c - 1 : memory[k] = tail[k]
      BY <3>2, <3>3 DEF memory, AddedUpTo
    <3>5. Executed(code[c], memory, inputs) = tail[c]
      BY <3>1, <3>4 DEF Leaves
    <3>. QED  BY <3>1, <3>5 DEF memory
  <2>. QED  BY <2>2, <2>3
<1>4. mem[n] = tail[n]
  BY <1>1
<1> HIDE DEF mem
<1>5. Run(code, inputs) = mem[n]
  <2>1. n \in Nat /\ n > 0
    BY <1>1
  <2>2. \A c \in 1 .. n : Executed(code[c], [k \in 1 .. c - 1 |-> mem[k]], inputs) = mem[c]
    BY <1>3
  <2>3. Remembers(mem, code, inputs, n)
    BY <1>2, <2>2 DEF Remembers
  <2>. QED  BY <2>1, <2>3, RunIs
<1>. QED  BY <1>4, <1>5

LEMMA Joined ==
  ASSUME NEW s, NEW n \in Nat, s = [c \in 1 .. n |-> s[c]], NEW t, NEW m \in Nat, t = [c \in 1 .. m |-> t[c]]
  PROVE  /\ Len(s \o t) = n + m
         /\ s \o t = [c \in 1 .. n + m |-> IF c <= n THEN s[c] ELSE t[c - n]]
<1> DEFINE S == {s[c] : c \in 1 .. n} \cup {t[c] : c \in 1 .. m}
<1>1. s \in [1 .. n -> S] /\ t \in [1 .. m -> S]
  OBVIOUS
<1> HIDE DEF S
<1>2. s \in Seq(S) /\ t \in Seq(S) /\ Len(s) = n /\ Len(t) = m
  BY <1>1
<1>3. s \o t \in Seq(S) /\ Len(s \o t) = n + m
  BY <1>2
<1>4. \A c \in 1 .. n + m : (s \o t)[c] = IF c <= n THEN s[c] ELSE t[c - n]
  BY <1>2
<1>5. s \o t = [c \in 1 .. n + m |-> (s \o t)[c]]
  BY <1>3
<1> DEFINE j == s \o t
<1> HIDE DEF j
<1>6. j = [c \in 1 .. n + m |-> j[c]] /\ \A c \in 1 .. n + m : j[c] = IF c <= n THEN s[c] ELSE t[c - n]
  BY <1>4, <1>5 DEF j
<1>7. j = [c \in 1 .. n + m |-> IF c <= n THEN s[c] ELSE t[c - n]]
  BY <1>6
<1>. QED  BY <1>3, <1>7 DEF j

-----------------------------------------------------------------------------
(* A token that was prepared, and what its machine holds.                  *)

HatCall == op \in Tokens /\ Acceptable

LEMMA HatFormat ==
  ASSUME HatCall
  PROVE  /\ op.name \in {"cmp", "relu", "maxpool", "trunc", "poly"} /\ op.backend \in {"local", "bks"}
         /\ op.bitwidth \in Nat /\ op.bitwidth > 0 /\ op.bitwidth - 1 \in Nat
         /\ op.shift \in Nat /\ op.signed \in BOOLEAN /\ op.threshold \in Int /\ op.coeffs \in Seq(Int)
         /\ op.name = "trunc" => op.shift > 0 /\ op.shift <= op.bitwidth /\ op.bitwidth - op.shift \in Nat
         /\ op.name = "poly" => op.coeffs # <<>>
         /\ TwoTo[op.bitwidth - 1] \in Nat /\ TwoTo[op.bitwidth - 1] > 0
         /\ modulus \in Nat /\ modulus >= 2 /\ modulus = 2 * TwoTo[op.bitwidth - 1]
         /\ modulus \div 2 = TwoTo[op.bitwidth - 1]
<1>1. /\ op.name \in {"cmp", "relu", "maxpool", "trunc", "poly"} /\ op.backend \in {"local", "bks"}
      /\ op.bitwidth \in Nat /\ op.shift \in Nat /\ op.signed \in BOOLEAN /\ op.threshold \in Int /\ op.coeffs \in Seq(Int)
  BY TokensAssumption DEF HatCall
<1>2. /\ op.bitwidth > 0 /\ op.bitwidth - 1 \in Nat
      /\ op.name = "trunc" => op.shift > 0 /\ op.shift <= op.bitwidth /\ op.bitwidth - op.shift \in Nat
      /\ op.name = "poly" => op.coeffs # <<>>
  <2>1. /\ op.bitwidth \in 1 .. 62 /\ (op.name = "trunc" => op.shift \in 1 .. op.bitwidth)
        /\ op.name = "poly" => op.coeffs # <<>>
    BY DEF HatCall, Acceptable
  <2>2. ASSUME NEW b \in Nat, NEW s \in Nat, b \in 1 .. 62
        PROVE  b > 0 /\ b - 1 \in Nat /\ (s \in 1 .. b => s > 0 /\ s <= b /\ b - s \in Nat)
    BY <2>2
  <2>. QED  BY <1>1, <2>1, <2>2
<1> DEFINE h == op.bitwidth - 1
<1>3. h \in Nat /\ h + 1 = op.bitwidth
  BY <1>1, <1>2
<1> HIDE DEF h
<1>4. TwoTo[h] \in Nat /\ TwoTo[h] > 0 /\ TwoTo[op.bitwidth] = 2 * TwoTo[h]
  BY <1>3, TwoToType, TwoToStep
<1>5. modulus = 2 * TwoTo[h] /\ modulus \in Nat /\ modulus >= 2 /\ modulus \div 2 = TwoTo[h]
  BY <1>4 DEF modulus
<1>. QED  BY <1>1, <1>2, <1>4, <1>5 DEF h

LEMMA HighBit ==
  ASSUME HatCall, NEW x \in Nat
  PROVE  /\ x % modulus \in 0 .. modulus - 1
         /\ BitOf(x, op.bitwidth - 1) = IF x % modulus < modulus \div 2 THEN 0 ELSE 1
<1> DEFINE B == TwoTo[op.bitwidth - 1]
           b == 2
<1>1. modulus = B * b /\ modulus \div 2 = B /\ b = 2 /\ BitOf(x, op.bitwidth - 1) = (x \div B) % b
  BY HatFormat DEF BitOf
<1>2. B \in Nat /\ B > 0 /\ b \in Nat /\ b > 0
  BY HatFormat
<1> HIDE DEF B, b
<1>3. x % (B * b) = B * ((x \div B) % b) + (x % B)
  BY <1>2, SplitProduct
<1>4. x \div B \in Nat /\ x % B \in Int /\ 0 <= x % B /\ x % B < B
  BY <1>2, Division, QuotientOfNat
<1> DEFINE d == (x \div B) % b
           e == x % B
<1>5. d \in {0, 1}
  BY <1>1, <1>4
<1>6. e \in Int /\ 0 <= e /\ e < B
  BY <1>4
<1> HIDE DEF d, e
<1>7. x % modulus = B * d + e
  BY <1>1, <1>3 DEF d, e
<1>8. BitOf(x, op.bitwidth - 1) = d
  BY <1>1 DEF d
<1>9. CASE d = 0
  <2>1. x % modulus = e
    BY <1>2, <1>6, <1>7, <1>9
  <2>. QED  BY <1>1, <1>2, <1>6, <1>8, <1>9, <2>1
<1>10. CASE d = 1
  <2>1. x % modulus = B + e
    BY <1>2, <1>6, <1>7, <1>10
  <2>. QED  BY <1>1, <1>2, <1>6, <1>8, <1>10, <2>1
<1>. QED  BY <1>5, <1>9, <1>10

LEMMA InputsHeld ==
  ASSUME HatCall, NEW r \in 0 .. modulus - 1
  PROVE  \A w \in RequiredInputWires : w \in DOMAIN Inputs(r) /\ Inputs(r)[w] = WireValue(r, w)
<1>1. RequiredInputWires \subseteq LocalWires
  <2>1. CASE op.name = "cmp"
    BY <2>1 DEF RequiredInputWires, LocalWires
  <2>2. CASE op.name \in {"relu", "maxpool"}
    BY <2>2 DEF RequiredInputWires, LocalWires
  <2>3. CASE op.name = "trunc" /\ op.signed
    BY <2>3 DEF RequiredInputWires, LocalWires
  <2>4. CASE op.name = "trunc" /\ ~op.signed
    BY <2>4 DEF RequiredInputWires, LocalWires, LimbShift
  <2>5. CASE op.name = "poly"
    BY <2>5 DEF RequiredInputWires, LocalWires
  <2>. QED  BY <2>1, <2>2, <2>3, <2>4, <2>5, HatFormat
<1>. QED  BY <1>1 DEF Inputs

LEMMA PartsHeld ==
  ASSUME HatCall, NEW r \in 0 .. modulus - 1
  PROVE  /\ op.name \in {"cmp", "relu", "maxpool"} \/ (op.name = "trunc" /\ op.signed) =>
              /\ HoldsBits(Inputs(r), "bit", op.bitwidth, r)
              /\ \A i \in 0 .. op.bitwidth - 1 : <<"bit", i>> \in DOMAIN Inputs(r)
         /\ op.name = "trunc" /\ ~op.signed =>
              /\ HoldsBits(Inputs(r), "low bit", op.shift, r)
              /\ \A i \in 0 .. op.shift - 1 : <<"low bit", i>> \in DOMAIN Inputs(r)
         /\ op.name \in {"relu", "maxpool", "poly"} => RWire \in DOMAIN Inputs(r) /\ Inputs(r)[RWire] = r
         /\ op.name = "trunc" => HighLimb \in DOMAIN Inputs(r) /\ Inputs(r)[HighLimb] = r \div TwoTo[op.shift]
<1>1. modulus \in Nat /\ modulus >= 2 /\ r \in Nat /\ Mod(r) = r
  <2>1. modulus \in Nat /\ modulus >= 2
    BY HatFormat
  <2>2. r \in Nat /\ r % modulus = r
    BY <2>1
  <2>. QED  BY <2>1, <2>2 DEF Mod
<1>2. \A i \in Nat : WireValue(r, <<"bit", i>>) = BitOf(r, i) /\ WireValue(r, <<"low bit", i>>) = BitOf(r, i)
  BY DEF WireValue
<1>3. WireValue(r, RWire) = r
  BY <1>1 DEF WireValue, RWire
<1>4. op.name \in {"cmp", "relu", "maxpool"} \/ (op.name = "trunc" /\ op.signed) => BitWires \subseteq RequiredInputWires
  BY DEF RequiredInputWires
<1>5. op.name = "trunc" /\ ~op.signed => {<<"low bit", i>> : i \in 0 .. op.shift - 1} \subseteq RequiredInputWires
  BY DEF RequiredInputWires
<1>6. op.name \in {"relu", "maxpool", "poly"} => RWire \in RequiredInputWires
  BY DEF RequiredInputWires
<1>7. op.name = "trunc" => HighLimb \in RequiredInputWires
  BY HatFormat DEF RequiredInputWires
<1>8. ASSUME op.name = "trunc" PROVE WireValue(r, HighLimb) = r \div TwoTo[op.shift]
  <2>1. LimbShift = op.shift
    BY <1>8 DEF LimbShift
  <2>2. CASE op.shift >= op.bitwidth
    <3>1. op.shift = op.bitwidth /\ TwoTo[op.shift] = modulus
      BY <1>8, <2>2, HatFormat DEF modulus
    <3>2. r = modulus * 0 + r /\ 0 \in Int
      BY <1>1
    <3>3. r \div modulus = 0
      BY <1>1, <3>2, QuotientIs
    <3>. QED  BY <2>1, <2>2, <3>1, <3>3 DEF WireValue, HighLimb
  <2>3. CASE ~(op.shift >= op.bitwidth)
    BY <2>1, <2>3 DEF WireValue, HighLimb
  <2>. QED  BY <2>2, <2>3
<1>9. ASSUME op.name \in {"cmp", "relu", "maxpool"} \/ (op.name = "trunc" /\ op.signed), NEW i \in 0 .. op.bitwidth - 1
      PROVE  <<"bit", i>> \in DOMAIN Inputs(r) /\ Inputs(r)[<<"bit", i>>] = BitOf(r, i)
  <2>1. <<"bit", i>> \in RequiredInputWires
    BY <1>4, <1>9 DEF BitWires
  <2>2. i \in Nat
    BY HatFormat
  <2>. QED  BY <1>2, <2>1, <2>2, InputsHeld
<1>10. ASSUME op.name = "trunc" /\ ~op.signed, NEW i \in 0 .. op.shift - 1
       PROVE  <<"low bit", i>> \in DOMAIN Inputs(r) /\ Inputs(r)[<<"low bit", i>>] = BitOf(r, i)
  <2>1. <<"low bit", i>> \in RequiredInputWires
    BY <1>5, <1>10
  <2>2. i \in Nat
    BY HatFormat
  <2>. QED  BY <1>2, <2>1, <2>2, InputsHeld
<1>. QED  BY <1>3, <1>6, <1>7, <1>8, <1>9, <1>10, InputsHeld DEF HoldsBits

-----------------------------------------------------------------------------
(* The programs, and what they leave.                                      *)

LEMMA Appended ==
  ASSUME NEW s, NEW n \in Nat, s = [c \in 1 .. n |-> s[c]], NEW x
  PROVE  Append(s, x) = [c \in 1 .. n + 1 |-> IF c <= n THEN s[c] ELSE x]
<1> DEFINE S == {s[c] : c \in 1 .. n} \cup {x}
<1>1. s \in [1 .. n -> S] /\ x \in S
  OBVIOUS
<1> HIDE DEF S
<1>2. s \in Seq(S) /\ Len(s) = n
  BY <1>1
<1> DEFINE a == Append(s, x)
<1>3. a \in Seq(S) /\ Len(a) = n + 1 /\ \A c \in 1 .. n + 1 : a[c] = IF c <= n THEN s[c] ELSE x
  BY <1>1, <1>2
<1>4. a = [c \in 1 .. n + 1 |-> a[c]]
  BY <1>3
<1> HIDE DEF a
<1>5. a = [c \in 1 .. n + 1 |-> IF c <= n THEN s[c] ELSE x]
  BY <1>3, <1>4
<1>. QED  BY <1>5 DEF a

\* The programs, cell by cell: the addition, then what follows it.
LEMMA CmpCode ==
  ASSUME HatCall, NEW delta \in Int, NEW t \in Int
  PROVE  LET code == CompileCmp(delta, t)
             e == 4 * op.bitwidth + 1
         IN  /\ code = [c \in 1 .. e + 1 |-> IF c <= e THEN BitAdd(op.bitwidth, Mod(delta - t), "bit")[c]
                                             ELSE Lin(1, << <<-1, SumCell(op.bitwidth - 1)>> >>)]
             /\ Mod(delta - t) \in Nat /\ e \in Nat
<1> DEFINE e == 4 * op.bitwidth + 1
           s == BitAdd(op.bitwidth, Mod(delta - t), "bit")
<1>1. e \in Nat /\ s = [c \in 1 .. e |-> s[c]]
  BY HatFormat DEF BitAdd
<1>2. Mod(delta - t) \in Nat
  <2>1. delta - t \in Int /\ modulus \in Nat /\ modulus > 0
    BY HatFormat
  <2> DEFINE d == delta - t
  <2> HIDE DEF d
  <2>2. d % modulus \in Int /\ 0 <= d % modulus
    BY <2>1, Division DEF d
  <2>3. Mod(d) \in Nat
    BY <2>2 DEF Mod
  <2>. QED  BY <2>3 DEF d
<1> HIDE DEF e, s
<1>3. Append(s, Lin(1, << <<-1, SumCell(op.bitwidth - 1)>> >>))
        = [c \in 1 .. e + 1 |-> IF c <= e THEN s[c] ELSE Lin(1, << <<-1, SumCell(op.bitwidth - 1)>> >>)]
  BY <1>1, Appended
<1>. QED  BY <1>1, <1>2, <1>3 DEF CompileCmp, e, s

\* One less the bit of the sum.
LEMMA NotSumBit ==
  ASSUME HatCall, NEW memory, NEW inputs, NEW cell, memory[cell] \in {0, 1}
  PROVE  Executed(Lin(1, << <<-1, cell>> >>), memory, inputs) = 1 - memory[cell]
<1> DEFINE t == << <<-1, cell>> >>
           x == memory[cell]
<1>1. Len(t) = 1 /\ t[1][1] = -1 /\ memory[t[1][2]] = x
  OBVIOUS
<1>2. x = 0 \/ x = 1
  OBVIOUS
<1>3. modulus \in Nat /\ modulus >= 2 /\ modulus > 0
  BY HatFormat
<1> HIDE DEF t, x
<1>4. Len(t) \in 1 .. 4 /\ \A n \in 1 .. Len(t) : t[n][1] \in Int /\ memory[t[n][2]] \in Int
  <2>1. \A n \in 1 .. 1 : n = 1
    OBVIOUS
  <2>. QED  BY <1>1, <1>2, <2>1
<1>5. Term(t, 1, memory) = 0 - x /\ Term(t, 2, memory) = 0 /\ Term(t, 3, memory) = 0 /\ Term(t, 4, memory) = 0
  BY <1>1, <1>2 DEF Term
<1>6. Executed(Lin(1, t), memory, inputs)
        = (1 + Term(t, 1, memory) + Term(t, 2, memory) + Term(t, 3, memory) + Term(t, 4, memory)) % modulus
  <2>1. 1 \in Int
    OBVIOUS
  <2>. QED  BY <1>3, <1>4, <2>1, SumsTerms
<1>7. (1 + (0 - x) + 0 + 0 + 0) % modulus = 1 - x
  <2>1. 0 % modulus = 0 /\ 1 % modulus = 1
    BY <1>3
  <2>. QED  BY <1>2, <2>1
<1>. QED  BY <1>5, <1>6, <1>7 DEF t, x

\* A comparison leaves one less the high bit of the sum.
LEMMA CmpRuns ==
  ASSUME HatCall, op.name = "cmp", NEW r \in 0 .. modulus - 1, NEW delta \in Int, NEW t \in Int
  PROVE  Run(CompileCmp(delta, t), Inputs(r)) = 1 - BitOf(r + Mod(delta - t), op.bitwidth - 1)
<1> DEFINE b == op.bitwidth
           e == 4 * b + 1
           g == Mod(delta - t)
           code == CompileCmp(delta, t)
           last == Lin(1, << <<-1, SumCell(b - 1)>> >>)
           x == BitOf(r + g, b - 1)
           tail == [c \in 4 * b + 2 .. e + 1 |-> 1 - x]
           inputs == Inputs(r)
<1>1. b \in Nat /\ b - 1 \in Nat /\ modulus \in Nat /\ modulus >= 2 /\ e \in Nat /\ e + 1 = 4 * b + 2
  <2>1. b \in Nat /\ b - 1 \in Nat /\ modulus \in Nat /\ modulus >= 2
    BY HatFormat
  <2> HIDE DEF b
  <2>. QED  BY <2>1
<1>2. r \in Nat /\ g \in Nat
  <2>1. g \in Nat
    BY CmpCode, Zenon
  <2>. QED  BY <1>1, <2>1
<1>3. /\ code = [c \in 1 .. e + 1 |-> IF c <= e THEN BitAdd(b, g, "bit")[c] ELSE last]
  BY CmpCode
<1>4. HoldsBits(inputs, "bit", b, r)
  BY PartsHeld
<1>5. AddedCell(r, g, SumCell(b - 1)) = x /\ SumCell(b - 1) = e /\ SumCell(b - 1) \in 1 .. e
  <2> HIDE DEF b, g
  <2>1. AddedCell(r, g, SumCell(b - 1)) = BitOf(r + g, b - 1)
    <3>1. PICK i \in Nat : i = b - 1
      BY <1>1
    <3>2. AddedCell(r, g, SumCell(i)) = BitOf(r + g, i)
      BY <1>2, CellsAre
    <3>. QED  BY <3>1, <3>2
  <2>2. SumCell(b - 1) = e /\ SumCell(b - 1) \in 1 .. e
    BY <1>1 DEF SumCell
  <2>. QED  BY <2>1, <2>2
<1>6. x \in {0, 1}
  BY <1>1, <1>2, <1>5, AddedCellType
<1> HIDE DEF b, g, code, x, inputs
<1>7. Len(code) = e + 1 /\ BeginsAdding(code, b, g, "bit") /\ code[e + 1] = last
  <2> HIDE DEF last
  <2>1. \A c \in 1 .. e : c \in 1 .. e + 1 /\ c <= e
    BY <1>1
  <2>2. e + 1 \in 1 .. e + 1 /\ ~(e + 1 <= e)
    BY <1>1
  <2>3. Len(code) = e + 1
    BY <1>1, <1>3
  <2>. QED  BY <1>3, <2>1, <2>2, <2>3 DEF BeginsAdding
<1>8. tail \in [4 * b + 2 .. e + 1 -> Int] /\ e + 1 \in 4 * b + 2 .. e + 1 /\ tail[e + 1] = 1 - x
  BY <1>1, <1>6
<1>9. Leaves(tail, e + 1, code, inputs, b, r, g)
  <2>1. SUFFICES ASSUME NEW c \in 4 * b + 2 .. e + 1, NEW memory, AddedUpTo(4 * b + 1, memory, r, g)
                 PROVE  Executed(code[c], memory, inputs) = tail[c]
    BY DEF Leaves
  <2>2. c = e + 1
    BY <1>1
  <2>3. memory[SumCell(b - 1)] = x
    BY <1>5, <2>1 DEF AddedUpTo
  <2>4. Executed(last, memory, inputs) = 1 - memory[SumCell(b - 1)]
    BY <1>6, <2>3, NotSumBit
  <2>. QED  BY <1>7, <1>8, <2>2, <2>3, <2>4
<1>10. e + 1 \in Nat /\ e + 1 > 4 * b + 1
  BY <1>1
<1> HIDE DEF e, tail, last
<1>11. Run(code, inputs) = tail[e + 1]
  <2> DEFINE n == e + 1
  <2> HIDE DEF n
  <2>1. n \in Nat /\ n > 4 * b + 1 /\ Len(code) = n /\ tail \in [4 * b + 2 .. n -> Int] /\ Leaves(tail, n, code, inputs, b, r, g)
    BY <1>7, <1>8, <1>9, <1>10 DEF n
  <2>2. Run(code, inputs) = tail[n]
    BY <1>1, <1>2, <1>4, <1>7, <2>1, RunAdds
  <2>. QED  BY <2>2 DEF n
<1>. QED  BY <1>8, <1>11 DEF b, g, code, x, inputs

CombinesPair(t, memory, k1, x1, k2, x2) ==
  /\ Len(t) = 2 /\ t[1][1] = k1 /\ t[2][1] = k2
  /\ memory[t[1][2]] = x1 /\ memory[t[2][2]] = x2

LEMMA PairSums ==
  ASSUME HatCall, NEW memory, NEW inputs, NEW v \in Int, NEW t,
         NEW k1 \in Int, NEW x1 \in Int, NEW k2 \in Int, NEW x2 \in Int, CombinesPair(t, memory, k1, x1, k2, x2)
  PROVE  Executed(Lin(v, t), memory, inputs) = (v + (k1 * x1) + (k2 * x2)) % modulus
<1>. /\ Len(t) = 2 /\ t[1][1] = k1 /\ t[2][1] = k2
     /\ memory[t[1][2]] = x1 /\ memory[t[2][2]] = x2
  BY DEF CombinesPair
<1>1. Len(t) \in 1 .. 4 /\ \A n \in 1 .. Len(t) : t[n][1] \in Int /\ memory[t[n][2]] \in Int
  <2>1. \A n \in 1 .. 2 : n = 1 \/ n = 2
    OBVIOUS
  <2>. QED  BY <2>1
<1>2. Term(t, 1, memory) = k1 * x1 /\ Term(t, 2, memory) = k2 * x2 /\ Term(t, 3, memory) = 0 /\ Term(t, 4, memory) = 0
  BY DEF Term
<1>3. Executed(Lin(v, t), memory, inputs)
        = (v + Term(t, 1, memory) + Term(t, 2, memory) + Term(t, 3, memory) + Term(t, 4, memory)) % modulus
  <2>1. modulus \in Nat /\ modulus > 0
    BY HatFormat
  <2>. QED  BY <1>1, <2>1, SumsTerms
<1> DEFINE a == k1 * x1
           b == k2 * x2
<1>4. a \in Int /\ b \in Int
  OBVIOUS
<1> HIDE DEF a, b
<1>5. v + a + b + 0 + 0 = v + a + b
  BY <1>4
<1>6. Executed(Lin(v, t), memory, inputs) = (v + a + b + 0 + 0) % modulus
  BY <1>2, <1>3 DEF a, b
<1>. QED  BY <1>5, <1>6 DEF a, b

LEMMA ReluCode ==
  ASSUME HatCall, NEW delta \in Int
  PROVE  LET e == 4 * op.bitwidth + 1
         IN  CompileRelu(delta)
               = [c \in 1 .. e + 3 |-> IF c <= e THEN BitAdd(op.bitwidth, Mod(delta - 0), "bit")[c]
                                       ELSE IF c = e + 1 THEN Lin(1, << <<-1, SumCell(op.bitwidth - 1)>> >>)
                                       ELSE IF c = e + 2 THEN MulIn(RWire, e + 1)
                                       ELSE Lin(0, << <<1, e + 2>>, <<delta, e + 1>> >>)]
<1> DEFINE e == 4 * op.bitwidth + 1
           s == CompileCmp(delta, 0)
           t == <<MulIn(RWire, Len(s)), Lin(0, << <<1, Len(s) + 1>>, <<delta, Len(s)>> >>)>>
           B == BitAdd(op.bitwidth, Mod(delta - 0), "bit")
           last == Lin(1, << <<-1, SumCell(op.bitwidth - 1)>> >>)
           n == e + 1
<1>1. e \in Nat /\ s = [c \in 1 .. e + 1 |-> IF c <= e THEN B[c] ELSE last]
  <2>1. 0 \in Int
    OBVIOUS
  <2>. QED  BY <2>1, CmpCode
<1> HIDE DEF e, s, B, last
<1>2. n \in Nat /\ s = [c \in 1 .. n |-> s[c]] /\ Len(s) = n /\ t = [c \in 1 .. 2 |-> t[c]] /\ 2 \in Nat
  <2>1. n \in Nat /\ s = [c \in 1 .. n |-> s[c]]
    BY <1>1
  <2> HIDE DEF n
  <2>2. Len(s) = n
    BY <2>1
  <2>3. t = [c \in 1 .. 2 |-> t[c]]
    OBVIOUS
  <2>. QED  BY <2>1, <2>2, <2>3
<1>3. t[1] = MulIn(RWire, e + 1) /\ t[2] = Lin(0, << <<1, e + 2>>, <<delta, e + 1>> >>)
  BY <1>1, <1>2
<1> DEFINE m == 2
<1>4. m = 2 /\ m \in Nat /\ t = [c \in 1 .. m |-> t[c]]
  BY <1>2
<1> HIDE DEF t, n, m
<1>5. s \o t = [c \in 1 .. n + m |-> IF c <= n THEN s[c] ELSE t[c - n]]
  BY <1>2, <1>4, Joined
<1>6. CompileRelu(delta) = s \o t
  BY DEF CompileRelu, s, t
<1> DEFINE f == [c \in 1 .. e + 3 |-> IF c <= e THEN B[c] ELSE IF c = e + 1 THEN last
                                      ELSE IF c = e + 2 THEN MulIn(RWire, e + 1)
                                      ELSE Lin(0, << <<1, e + 2>>, <<delta, e + 1>> >>)]
           h == [c \in 1 .. n + m |-> IF c <= n THEN s[c] ELSE t[c - n]]
<1>7. n + m = e + 3
  BY <1>1, <1>4 DEF n
<1>8. \A c \in 1 .. e + 3 : f[c] = h[c]
  <2>1. TAKE c \in 1 .. e + 3
  <2>2. CASE c <= e
    BY <1>1, <1>7, <2>2 DEF n
  <2>3. CASE c = e + 1
    BY <1>1, <1>7, <2>3 DEF n
  <2>4. CASE c = e + 2
    <3>1. c - n = 1 /\ ~(c <= n) /\ ~(c <= e) /\ c # e + 1
      BY <1>1, <2>4 DEF n
    <3>. QED  BY <1>3, <1>7, <2>4, <3>1
  <2>5. CASE c = e + 3
    <3>1. c - n = 2 /\ ~(c <= n) /\ ~(c <= e) /\ c # e + 1 /\ c # e + 2
      BY <1>1, <2>5 DEF n
    <3>. QED  BY <1>3, <1>7, <2>5, <3>1
  <2>6. c <= e \/ c = e + 1 \/ c = e + 2 \/ c = e + 3
    BY <1>1
  <2> HIDE DEF f, h
  <2>. QED  BY <2>2, <2>3, <2>4, <2>5, <2>6
<1>9. f = h
  BY <1>7, <1>8
<1>. QED  BY <1>5, <1>6, <1>9 DEF e, B, last

LEMMA ReluRuns ==
  ASSUME HatCall, op.name \in {"relu", "maxpool"}, NEW r \in 0 .. modulus - 1, NEW delta \in Int
  PROVE  LET beta == 1 - BitOf(r + Mod(delta - 0), op.bitwidth - 1)
         IN  Run(CompileRelu(delta), Inputs(r)) = IF beta = 1 THEN (r + delta) % modulus ELSE 0
<1> DEFINE b == op.bitwidth
           e == 4 * b + 1
           g == Mod(delta - 0)
           code == CompileRelu(delta)
           x == BitOf(r + g, b - 1)
           beta == 1 - x
           pair == << <<1, e + 2>>, <<delta, e + 1>> >>
           last == Lin(1, << <<-1, SumCell(b - 1)>> >>)
           res == IF beta = 1 THEN (r + delta) % modulus ELSE 0
           tail == [c \in 4 * b + 2 .. e + 3 |-> IF c = e + 1 THEN beta ELSE IF c = e + 2 THEN r * beta ELSE res]
           inputs == Inputs(r)
<1>1. b \in Nat /\ b - 1 \in Nat /\ modulus \in Nat /\ modulus >= 2 /\ e \in Nat /\ e + 1 = 4 * b + 2
  <2>1. b \in Nat /\ b - 1 \in Nat /\ modulus \in Nat /\ modulus >= 2
    BY HatFormat
  <2> HIDE DEF b
  <2>. QED  BY <2>1
<1>2. r \in Nat /\ g \in Nat
  <2>1. 0 \in Int
    OBVIOUS
  <2>2. g \in Nat
    BY <2>1, CmpCode, Zenon
  <2>. QED  BY <1>1, <2>2
<1>3. code = [c \in 1 .. e + 3 |-> IF c <= e THEN BitAdd(b, g, "bit")[c] ELSE IF c = e + 1 THEN last
                                   ELSE IF c = e + 2 THEN MulIn(RWire, e + 1) ELSE Lin(0, pair)]
  BY ReluCode
<1>4. HoldsBits(inputs, "bit", b, r) /\ inputs[RWire] = r
  BY PartsHeld
<1>5. AddedCell(r, g, SumCell(b - 1)) = x /\ SumCell(b - 1) = e /\ SumCell(b - 1) \in 1 .. e
  <2> HIDE DEF b, g
  <2>1. AddedCell(r, g, SumCell(b - 1)) = BitOf(r + g, b - 1)
    <3>1. PICK i \in Nat : i = b - 1
      BY <1>1
    <3>2. AddedCell(r, g, SumCell(i)) = BitOf(r + g, i)
      BY <1>2, CellsAre
    <3>. QED  BY <3>1, <3>2
  <2>2. SumCell(b - 1) = e /\ SumCell(b - 1) \in 1 .. e
    BY <1>1 DEF SumCell
  <2>. QED  BY <2>1, <2>2
<1>6. x \in {0, 1}
  BY <1>1, <1>2, <1>5, AddedCellType
<1> HIDE DEF b, g, code, x, inputs
<1>7. /\ Len(code) = e + 3 /\ BeginsAdding(code, b, g, "bit")
      /\ code[e + 1] = last /\ code[e + 2] = MulIn(RWire, e + 1) /\ code[e + 3] = Lin(0, pair)
  <2> HIDE DEF last, pair
  <2>1. \A c \in 1 .. e : c \in 1 .. e + 3 /\ c <= e
    BY <1>1
  <2>2. /\ e + 1 \in 1 .. e + 3 /\ ~(e + 1 <= e)
        /\ e + 2 \in 1 .. e + 3 /\ ~(e + 2 <= e) /\ e + 2 # e + 1
        /\ e + 3 \in 1 .. e + 3 /\ ~(e + 3 <= e) /\ e + 3 # e + 1 /\ e + 3 # e + 2
    BY <1>1
  <2>3. Len(code) = e + 3
    BY <1>1, <1>3
  <2>. QED  BY <1>3, <2>1, <2>2, <2>3 DEF BeginsAdding
<1>8. beta = 0 \/ beta = 1
  BY <1>6
<1> HIDE DEF beta
<1>9. res \in Int /\ r * beta \in Int /\ beta \in Int
  <2>1. (r + delta) % modulus \in Int
    <3>1. r + delta \in Int /\ modulus > 0
      BY <1>1, <1>2
    <3>. QED  BY <1>1, <3>1, Division
  <2>. QED  BY <1>2, <1>8, <2>1
<1> HIDE DEF res
<1>10. /\ tail \in [4 * b + 2 .. e + 3 -> Int] /\ e + 3 \in 4 * b + 2 .. e + 3
       /\ tail[e + 1] = beta /\ tail[e + 2] = r * beta /\ tail[e + 3] = res
  <2>1. e + 3 \in 4 * b + 2 .. e + 3 /\ e + 1 \in 4 * b + 2 .. e + 3 /\ e + 2 \in 4 * b + 2 .. e + 3
    BY <1>1
  <2>2. e + 3 # e + 1 /\ e + 3 # e + 2 /\ e + 2 # e + 1
    BY <1>1
  <2>. QED  BY <1>9, <2>1, <2>2
<1>11. Leaves(tail, e + 3, code, inputs, b, r, g)
  <2>1. SUFFICES ASSUME NEW c \in 4 * b + 2 .. e + 3, NEW memory, AddedUpTo(4 * b + 1, memory, r, g),
                        \A k \in 4 * b + 2 .. c - 1 : memory[k] = tail[k]
                 PROVE  Executed(code[c], memory, inputs) = tail[c]
    BY DEF Leaves
  <2>2. memory[SumCell(b - 1)] = x
    BY <1>5, <2>1 DEF AddedUpTo
  <2>3. (c > e + 1 => memory[e + 1] = beta) /\ (c > e + 2 => memory[e + 2] = r * beta)
    <3>1. c > e + 1 => e + 1 \in 4 * b + 2 .. c - 1
      BY <1>1
    <3>2. c > e + 2 => e + 2 \in 4 * b + 2 .. c - 1
      BY <1>1
    <3>. QED  BY <1>10, <2>1, <3>1, <3>2
  <2>4. CASE c = e + 1
    <3>1. Executed(last, memory, inputs) = 1 - memory[SumCell(b - 1)]
      BY <1>6, <2>2, NotSumBit
    <3>. QED  BY <1>7, <1>10, <2>2, <2>4, <3>1 DEF beta
  <2>5. CASE c = e + 2
    <3>1. Executed(MulIn(RWire, e + 1), memory, inputs) = Mod(Mod(r) * beta)
      <4>1. memory[e + 1] = beta
        BY <1>1, <2>3, <2>5
      <4>. QED  BY <1>4, <4>1 DEF Executed, MulIn
    <3>2. Mod(Mod(r) * beta) = r * beta
      <4>1. r % modulus = r /\ 0 % modulus = 0 /\ r * 0 = 0 /\ r * 1 = r
        BY <1>1, <1>2
      <4>. QED  BY <1>8, <4>1 DEF Mod
    <3>. QED  BY <1>7, <1>10, <2>5, <3>1, <3>2
  <2>6. CASE c = e + 3
    <3>1. memory[e + 1] = beta /\ memory[e + 2] = r * beta
      BY <1>1, <2>3, <2>6
    <3>2. pair[1][1] = 1 /\ pair[1][2] = e + 2 /\ pair[2][1] = delta /\ pair[2][2] = e + 1 /\ Len(pair) = 2
      OBVIOUS
    <3> DEFINE y == r * beta
    <3> HIDE DEF pair, y
    <3>3. CombinesPair(pair, memory, 1, y, delta, beta) /\ 1 \in Int /\ 0 \in Int /\ y \in Int
      BY <1>9, <3>1, <3>2 DEF CombinesPair, y
    <3>4. Executed(Lin(0, pair), memory, inputs) = (0 + (1 * y) + (delta * beta)) % modulus
      BY <1>9, <3>3, PairSums
    <3>5. (0 + (1 * y) + (delta * beta)) % modulus = res
      <4>1. CASE beta = 1
        <5>1. 0 + (1 * y) + (delta * beta) = r + delta
          BY <1>2, <4>1 DEF y
        <5>. QED  BY <4>1, <5>1 DEF res
      <4>2. CASE beta = 0
        <5>1. 0 + (1 * y) + (delta * beta) = 0 /\ 0 % modulus = 0
          BY <1>1, <1>2, <4>2 DEF y
        <5>. QED  BY <4>2, <5>1 DEF res
      <4>. QED  BY <1>8, <4>1, <4>2
    <3>. QED  BY <1>7, <1>10, <2>6, <3>4, <3>5
  <2>. QED  BY <1>1, <2>4, <2>5, <2>6
<1>12. e + 3 \in Nat /\ e + 3 > 4 * b + 1
  BY <1>1
<1> HIDE DEF e, tail, last, pair
<1>13. Run(code, inputs) = tail[e + 3]
  <2> DEFINE n == e + 3
  <2> HIDE DEF n
  <2>1. n \in Nat /\ n > 4 * b + 1 /\ Len(code) = n /\ tail \in [4 * b + 2 .. n -> Int] /\ Leaves(tail, n, code, inputs, b, r, g)
    BY <1>7, <1>10, <1>11, <1>12 DEF n
  <2>2. HoldsBits(inputs, "bit", b, r) /\ BeginsAdding(code, b, g, "bit")
    BY <1>4, <1>7
  <2>3. Run(code, inputs) = tail[n]
    BY <1>1, <1>2, <2>1, <2>2, RunAdds
  <2>. QED  BY <2>3 DEF n
<1>14. Run(code, inputs) = res
  BY <1>10, <1>13
<1>. QED  BY <1>14 DEF b, g, code, x, inputs, beta, res

\* A quotient of a sum: the quotients, and the carry out of the low parts.
LEMMA QuotientCarries ==
  ASSUME NEW D \in Nat, D > 0, NEW x \in Nat, NEW y \in Nat
  PROVE  (x + y) \div D = (x \div D) + (y \div D) + ((x % D) + (y % D)) \div D
<1> DEFINE xq == x \div D
           xr == x % D
           yq == y \div D
           yr == y % D
           c == (xr + yr) \div D
           cr == (xr + yr) % D
<1>1. xq \in Int /\ xr \in Int /\ 0 <= xr /\ xr < D /\ x = D * xq + xr
  BY Division
<1>2. yq \in Int /\ yr \in Int /\ 0 <= yr /\ yr < D /\ y = D * yq + yr
  BY Division
<1>3. c \in Int /\ cr \in 0 .. D - 1 /\ xr + yr = D * c + cr
  <2> HIDE DEF xr, yr
  <2> DEFINE s == xr + yr
  <2>1. s \in Int
    BY <1>1, <1>2
  <2> HIDE DEF s
  <2>2. s \div D \in Int /\ s % D \in Int /\ 0 <= s % D /\ s % D < D /\ s = D * (s \div D) + (s % D)
    BY <2>1, Division
  <2>3. s % D \in 0 .. D - 1
    BY <2>2
  <2>. QED  BY <2>2, <2>3 DEF s
<1> HIDE DEF xq, xr, yq, yr, c, cr
<1>4. x + y = D * (xq + yq + c) + cr /\ xq + yq + c \in Int /\ x + y \in Int
  BY <1>1, <1>2, <1>3
<1>5. (x + y) \div D = xq + yq + c
  <2> DEFINE s == x + y
             k == xq + yq + c
  <2> HIDE DEF s, k
  <2>1. s \in Int /\ k \in Int /\ s = D * k + cr
    BY <1>4 DEF s, k
  <2>2. s \div D = k
    BY <1>3, <2>1, QuotientIs
  <2>. QED  BY <2>2 DEF s, k
<1>. QED  BY <1>5 DEF xq, xr, yq, yr, c

TruncTail(delta) ==
  Lin(delta \div TwoTo[op.shift], IF op.signed THEN TruncTerms \o SignTerms ELSE TruncTerms)
TruncAddend(delta) == IF op.signed THEN delta ELSE delta % TwoTo[op.shift]
TruncName == IF op.signed THEN "bit" ELSE "low bit"

LEMMA TruncCode ==
  ASSUME HatCall, op.name = "trunc", NEW delta \in Int
  PROVE  LET e == 4 * QuotientBits + 1
         IN  CompileTrunc(delta)
               = [c \in 1 .. e + 2 |-> IF c <= e THEN BitAdd(QuotientBits, TruncAddend(delta), TruncName)[c]
                                       ELSE IF c = e + 1 THEN Load(HighLimb)
                                       ELSE TruncTail(delta)]
<1> DEFINE e == 4 * QuotientBits + 1
           s == BitAdd(QuotientBits, TruncAddend(delta), TruncName)
           t == <<Load(HighLimb), TruncTail(delta)>>
           m == 2
<1>1. QuotientBits \in Nat
  BY HatFormat DEF QuotientBits
<1>2. e \in Nat /\ s = [c \in 1 .. e |-> s[c]]
  <2>1. e \in Nat
    BY <1>1
  <2>2. s = [c \in 1 .. e |-> s[c]]
    BY <1>1 DEF BitAdd
  <2>. QED  BY <2>1, <2>2
<1>3. m = 2 /\ m \in Nat /\ t = [c \in 1 .. m |-> t[c]] /\ t[1] = Load(HighLimb) /\ t[2] = TruncTail(delta)
  OBVIOUS
<1>4. CompileTrunc(delta) = s \o t
  <2>1. s = TruncAdd(delta)
    BY DEF TruncAdd, TruncAddend, TruncName, QuotientBits
  <2> HIDE DEF s
  <2>. QED  BY <2>1 DEF CompileTrunc, CompileTruncWith, TruncTail
<1> HIDE DEF e, s, t, m
<1>5. s \o t = [c \in 1 .. e + m |-> IF c <= e THEN s[c] ELSE t[c - e]]
  BY <1>2, <1>3, Joined
<1> DEFINE f == [c \in 1 .. e + 2 |-> IF c <= e THEN s[c] ELSE IF c = e + 1 THEN Load(HighLimb) ELSE TruncTail(delta)]
           h == [c \in 1 .. e + m |-> IF c <= e THEN s[c] ELSE t[c - e]]
<1>6. \A c \in 1 .. e + 2 : f[c] = h[c]
  <2>1. TAKE c \in 1 .. e + 2
  <2>2. CASE c <= e
    BY <1>2, <1>3, <2>2
  <2>3. CASE c = e + 1
    <3>1. c - e = 1 /\ ~(c <= e)
      BY <1>2, <2>3
    <3>. QED  BY <1>3, <2>3, <3>1
  <2>4. CASE c = e + 2
    <3>1. c - e = 2 /\ ~(c <= e) /\ c # e + 1
      BY <1>2, <2>4
    <3>. QED  BY <1>3, <2>4, <3>1
  <2>5. c <= e \/ c = e + 1 \/ c = e + 2
    BY <1>2
  <2> HIDE DEF f, h
  <2>. QED  BY <2>2, <2>3, <2>4, <2>5
<1>7. f = h
  BY <1>3, <1>6
<1>. QED  BY <1>4, <1>5, <1>7 DEF e, s

\* What the program of a truncation leaves.
TruncLeft(r, delta) ==
  ((r + delta) \div TwoTo[op.shift])
    + (IF op.signed THEN Extension * (BitOf(r + delta, op.bitwidth - 1) + ((r + delta) \div modulus)) ELSE 0)

LEMMA TruncSizes ==
  ASSUME HatCall, op.name = "trunc", NEW r \in 0 .. modulus - 1, NEW delta \in 0 .. modulus - 1
  PROVE  LET D == TwoTo[op.shift]
             g == TruncAddend(delta)
         IN  /\ QuotientBits \in Nat /\ op.shift \in Nat /\ op.shift > 0 /\ op.shift <= QuotientBits
             /\ op.signed => QuotientBits = op.bitwidth /\ g = delta
             /\ r \in Nat /\ delta \in Nat /\ g \in Nat
             /\ D \in Nat /\ D > 0
             /\ r \div D \in 0 .. modulus - 1 /\ delta \div D \in Nat
             /\ (r + delta) \div D = (r \div D) + (delta \div D) + CarryToBit(r, g, op.shift)
             /\ Extension \in Int
             /\ (r + delta) \div modulus = CarryToBit(r, delta, op.bitwidth)
<1> DEFINE D == TwoTo[op.shift]
           M == modulus
           g == TruncAddend(delta)
<1>1. M \in Nat /\ M >= 2 /\ M > 0
  BY HatFormat
<1>2. D \in Nat /\ D > 0
  BY HatFormat, TwoToType
<1>3. Extension \in Int
  <2>1. op.bitwidth - op.shift \in Nat
    BY HatFormat
  <2>2. TwoTo[op.bitwidth - op.shift] \in Nat
    BY <2>1, TwoToType
  <2>. QED  BY <1>1, <2>2 DEF Extension
<1>4. QuotientBits \in Nat /\ op.shift \in Nat /\ op.shift > 0 /\ op.shift <= QuotientBits
  BY HatFormat DEF QuotientBits
<1>5. op.signed => QuotientBits = op.bitwidth /\ g = delta
  BY DEF QuotientBits, TruncAddend
<1>6. ~op.signed => g = delta % D
  BY DEF TruncAddend
<1>7. CarryToBit(r, g, op.shift) = ((r % D) + (g % D)) \div D
  BY DEF CarryToBit
<1>8. CarryToBit(r, delta, op.bitwidth) = ((r % M) + (delta % M)) \div M
  BY DEF CarryToBit, modulus
<1> HIDE DEF D, M, g
<1>9. r \in 0 .. M - 1 /\ delta \in 0 .. M - 1 /\ r \in Nat /\ delta \in Nat
  <2>1. r \in 0 .. M - 1 /\ delta \in 0 .. M - 1
    BY DEF M
  <2>. QED  BY <1>1, <2>1
<1>10. r % M = r /\ delta % M = delta
  BY <1>1, <1>9
<1>11. /\ r \div D \in Nat /\ delta \div D \in Nat /\ delta % D \in Nat
       /\ r \div D <= r /\ (delta % D) % D = delta % D
  <2>1. r \div D \in Nat /\ delta \div D \in Nat /\ delta % D \in Nat /\ r % D \in Nat
    BY <1>2, <1>9, QuotientOfNat
  <2>2. r = D * (r \div D) + (r % D) /\ delta % D < D
    BY <1>2, <1>9, Division
  <2> DEFINE k == r \div D
             l == r % D
             d == delta % D
  <2> HIDE DEF k, l, d
  <2>3. k \in Nat /\ l \in Nat /\ r = D * k + l /\ d \in Nat /\ d < D
    BY <2>1, <2>2 DEF k, l, d
  <2>4. D * k >= k
    <3>1. k = 0 \/ k > 0
      BY <2>3
    <3>2. D * 0 = 0
      BY <1>2
    <3>. QED  BY <1>2, <2>3, <3>1, <3>2, TimesPositive
  <2>5. D * k \in Nat
    BY <1>2, <2>3
  <2>6. k <= r
    BY <2>3, <2>4, <2>5
  <2>7. d % D = d
    BY <1>2, <2>3
  <2>. QED  BY <2>1, <2>6, <2>7 DEF k, l, d
<1>12. g \in Nat /\ g % D = delta % D
  <2>1. CASE op.signed
    BY <1>5, <1>9, <2>1
  <2>2. CASE ~op.signed
    BY <1>6, <1>11, <2>2
  <2>. QED  BY <2>1, <2>2
<1>13. (r + delta) \div D = (r \div D) + (delta \div D) + (((r % D) + (delta % D)) \div D)
  BY <1>2, <1>9, QuotientCarries
<1>14. r \div D \in 0 .. M - 1
  <2> DEFINE k == r \div D
  <2> HIDE DEF k
  <2>1. k \in Nat /\ k <= r
    BY <1>11 DEF k
  <2>2. k \in 0 .. M - 1
    BY <1>1, <1>9, <2>1
  <2>. QED  BY <2>2 DEF k
<1>. QED  BY <1>2, <1>3, <1>4, <1>5, <1>7, <1>8, <1>9, <1>10, <1>11, <1>12, <1>13, <1>14 DEF D, M, g

\* The last cell of a truncation, of a memory that holds the parts.
LEMMA TruncTailIs ==
  ASSUME HatCall, op.name = "trunc", NEW r \in 0 .. modulus - 1, NEW delta \in 0 .. modulus - 1, NEW memory, NEW inputs,
         memory[4 * QuotientBits + 2] = r \div TwoTo[op.shift],
         memory[CarryCell(op.shift)] = CarryToBit(r, TruncAddend(delta), op.shift),
         op.signed => /\ memory[SumCell(op.bitwidth - 1)] = BitOf(r + delta, op.bitwidth - 1)
                      /\ memory[CarryCell(op.bitwidth)] = CarryToBit(r, delta, op.bitwidth)
  PROVE  Executed(TruncTail(delta), memory, inputs) = TruncLeft(r, delta) % modulus
<1> DEFINE D == TwoTo[op.shift]
           g == TruncAddend(delta)
           quot == delta \div D
           hi == r \div D
           cs == CarryToBit(r, g, op.shift)
           sum == BitOf(r + delta, op.bitwidth - 1)
           out == CarryToBit(r, delta, op.bitwidth)
           E == Extension
<1>1. /\ quot \in Nat /\ hi \in Nat /\ E \in Int /\ r \in Nat /\ delta \in Nat /\ g \in Nat
      /\ (r + delta) \div D = hi + quot + cs /\ (r + delta) \div modulus = out
  <2>1. modulus \in Nat
    BY HatFormat
  <2>2. hi \in 0 .. modulus - 1
    BY TruncSizes
  <2>3. hi \in Nat
    <3> HIDE DEF hi
    <3>. QED  BY <2>1, <2>2
  <2>. QED  BY <2>3, TruncSizes
<1>2. cs \in {0, 1} /\ sum \in {0, 1} /\ out \in {0, 1}
  <2>1. op.shift \in Nat /\ op.bitwidth \in Nat /\ op.bitwidth - 1 \in Nat
    BY HatFormat
  <2>2. cs \in {0, 1} /\ out \in {0, 1}
    BY <1>1, <2>1, BitAdded
  <2>3. sum \in {0, 1}
    <3> DEFINE x == r + delta
    <3>1. x \in Nat
      BY <1>1
    <3> HIDE DEF x
    <3>2. BitOf(x, op.bitwidth - 1) \in {0, 1}
      BY <3>1, HighBit
    <3>. QED  BY <3>2 DEF x
  <2>. QED  BY <2>2, <2>3
<1>3. memory[4 * QuotientBits + 2] = hi /\ memory[CarryCell(op.shift)] = cs
  OBVIOUS
<1>4. op.signed => memory[SumCell(op.bitwidth - 1)] = sum /\ memory[CarryCell(op.bitwidth)] = out
  OBVIOUS
<1>5. TruncLeft(r, delta) = hi + quot + cs + (IF op.signed THEN E * (sum + out) ELSE 0)
  BY <1>1 DEF TruncLeft
<1>6. TruncTail(delta) = Lin(quot, IF op.signed THEN TruncTerms \o SignTerms ELSE TruncTerms)
  BY DEF TruncTail
<1>7. TruncTerms = << <<1, 4 * QuotientBits + 2>>, <<1, CarryCell(op.shift)>> >>
  BY DEF TruncTerms
<1>8. SignTerms = << <<E, SumCell(op.bitwidth - 1)>>, <<E, CarryCell(op.bitwidth)>> >>
  BY DEF SignTerms
<1> HIDE DEF D, g, quot, hi, cs, sum, out, E
<1>9. CASE ~op.signed
  <2> DEFINE t == TruncTerms
  <2>1. CombinesPair(t, memory, 1, hi, 1, cs)
    BY <1>3, <1>7 DEF CombinesPair
  <2>2. 1 \in Int /\ hi \in Int /\ cs \in Int /\ quot \in Int
    BY <1>1, <1>2
  <2> HIDE DEF t
  <2>3. Executed(Lin(quot, t), memory, inputs) = (quot + (1 * hi) + (1 * cs)) % modulus
    BY <2>1, <2>2, PairSums
  <2>4. quot + (1 * hi) + (1 * cs) = hi + quot + cs + 0
    BY <2>2
  <2>. QED  BY <1>5, <1>6, <1>9, <2>3, <2>4 DEF t
<1>10. CASE op.signed
  <2> DEFINE t == TruncTerms \o SignTerms
             c1 == 4 * QuotientBits + 2
             c2 == CarryCell(op.shift)
             c3 == SumCell(op.bitwidth - 1)
             c4 == CarryCell(op.bitwidth)
  <2>1. memory[c1] = hi /\ memory[c2] = cs /\ memory[c3] = sum /\ memory[c4] = out
    BY <1>3, <1>4, <1>10
  <2>2. t = << <<1, c1>>, <<1, c2>> >> \o << <<E, c3>>, <<E, c4>> >>
    BY <1>7, <1>8
  <2> HIDE DEF c1, c2, c3, c4, t
  <2>3. /\ Len(t) = 4 /\ t[1] = <<1, c1>> /\ t[2] = <<1, c2>> /\ t[3] = <<E, c3>> /\ t[4] = <<E, c4>>
    <3> DEFINE a == << <<1, c1>>, <<1, c2>> >>
               b == << <<E, c3>>, <<E, c4>> >>
               n == 2
               m == 2
    <3>1. n \in Nat /\ m \in Nat /\ n = 2 /\ m = 2 /\ a = [c \in 1 .. n |-> a[c]] /\ b = [c \in 1 .. m |-> b[c]]
      OBVIOUS
    <3>2. a[1] = <<1, c1>> /\ a[2] = <<1, c2>> /\ b[1] = <<E, c3>> /\ b[2] = <<E, c4>>
      OBVIOUS
    <3>3. t = a \o b
      BY <2>2
    <3> HIDE DEF a, b, n, m
    <3>4. Len(t) = n + m /\ t = [c \in 1 .. n + m |-> IF c <= n THEN a[c] ELSE b[c - n]]
      BY <3>1, <3>3, Joined
    <3>5. t = [c \in 1 .. 4 |-> IF c <= 2 THEN a[c] ELSE b[c - 2]] /\ Len(t) = 4
      BY <3>1, <3>4
    <3>6. t[1] = a[1] /\ t[2] = a[2] /\ t[3] = b[1] /\ t[4] = b[2]
      BY <3>5
    <3>. QED  BY <3>2, <3>5, <3>6
  <2>4. Len(t) \in 1 .. 4 /\ \A n \in 1 .. Len(t) : t[n][1] \in Int /\ memory[t[n][2]] \in Int
    <3>1. \A n \in 1 .. 4 : n = 1 \/ n = 2 \/ n = 3 \/ n = 4
      OBVIOUS
    <3>2. hi \in Int /\ cs \in Int /\ sum \in Int /\ out \in Int /\ E \in Int
      BY <1>1, <1>2
    <3>. QED  BY <2>1, <2>3, <3>1, <3>2
  <2>5. /\ Term(t, 1, memory) = 1 * hi /\ Term(t, 2, memory) = 1 * cs
        /\ Term(t, 3, memory) = E * sum /\ Term(t, 4, memory) = E * out
    BY <2>1, <2>3 DEF Term
  <2>6. Executed(Lin(quot, t), memory, inputs)
          = (quot + Term(t, 1, memory) + Term(t, 2, memory) + Term(t, 3, memory) + Term(t, 4, memory)) % modulus
    <3>1. modulus \in Nat /\ modulus > 0 /\ quot \in Int
      BY <1>1, HatFormat
    <3>. QED  BY <2>4, <3>1, SumsTerms
  <2>7. quot + (1 * hi) + (1 * cs) + (E * sum) + (E * out) = hi + quot + cs + (E * (sum + out))
    <3>1. (sum = 0 \/ sum = 1) /\ (out = 0 \/ out = 1) /\ E \in Int /\ quot \in Int /\ hi \in Int /\ cs \in Int
      BY <1>1, <1>2
    <3>. QED  BY <3>1
  <2>8. TruncLeft(r, delta) = hi + quot + cs + (E * (sum + out))
    BY <1>5, <1>10
  <2>. QED  BY <1>6, <1>10, <2>5, <2>6, <2>7, <2>8 DEF t
<1>. QED  BY <1>9, <1>10

LEMMA TruncRuns ==
  ASSUME HatCall, op.name = "trunc", NEW r \in 0 .. modulus - 1, NEW delta \in 0 .. modulus - 1
  PROVE  Run(CompileTrunc(delta), Inputs(r)) = TruncLeft(r, delta) % modulus
<1> DEFINE b == QuotientBits
           e == 4 * b + 1
           g == TruncAddend(delta)
           code == CompileTrunc(delta)
           hi == r \div TwoTo[op.shift]
           res == TruncLeft(r, delta) % modulus
           tail == [c \in 4 * b + 2 .. e + 2 |-> IF c = e + 1 THEN hi ELSE res]
           inputs == Inputs(r)
           name == TruncName
<1>1. /\ modulus \in Nat /\ modulus >= 2 /\ b \in Nat /\ op.shift \in Nat /\ op.shift > 0 /\ op.shift <= b
      /\ r \in Nat /\ delta \in Nat /\ g \in Nat /\ op.bitwidth \in Nat /\ op.bitwidth > 0 /\ hi \in 0 .. modulus - 1
  BY HatFormat, TruncSizes
<1>2. op.signed => b = op.bitwidth /\ g = delta
  BY TruncSizes
<1>3. HoldsBits(inputs, name, b, r) /\ inputs[HighLimb] = hi
  BY PartsHeld DEF TruncName, QuotientBits
<1>4. code = [c \in 1 .. e + 2 |-> IF c <= e THEN BitAdd(b, g, name)[c]
                                   ELSE IF c = e + 1 THEN Load(HighLimb) ELSE TruncTail(delta)]
  <2>1. delta \in Int
    BY <1>1
  <2>. QED  BY <2>1, TruncCode
<1>5. \A i \in Nat : /\ AddedCell(r, g, SumCell(i)) = BitOf(r + g, i)
                     /\ AddedCell(r, g, CarryCell(i)) = CarryToBit(r, g, i)
  <2> HIDE DEF g
  <2>1. TAKE i \in Nat
  <2>2. r \in Nat /\ g \in Nat
    BY <1>1
  <2>. QED  BY <2>2, CellsAre
<1> HIDE DEF b, g, code, hi, inputs, name
<1>6. e \in Nat /\ e + 1 = 4 * b + 2
  BY <1>1
<1>7. /\ Len(code) = e + 2 /\ BeginsAdding(code, b, g, name)
      /\ code[e + 1] = Load(HighLimb) /\ code[e + 2] = TruncTail(delta)
  <2>1. \A c \in 1 .. e : c \in 1 .. e + 2 /\ c <= e
    BY <1>6
  <2>2. /\ e + 1 \in 1 .. e + 2 /\ ~(e + 1 <= e)
        /\ e + 2 \in 1 .. e + 2 /\ ~(e + 2 <= e) /\ e + 2 # e + 1
    BY <1>6
  <2>3. Len(code) = e + 2
    BY <1>4, <1>6
  <2>. QED  BY <1>4, <2>1, <2>2, <2>3 DEF BeginsAdding
<1>8. CarryCell(op.shift) \in 1 .. e /\ (op.signed => SumCell(op.bitwidth - 1) \in 1 .. e /\ CarryCell(op.bitwidth) \in 1 .. e)
  BY <1>1, <1>2 DEF CarryCell, SumCell
<1>9. res \in Int /\ hi \in Int
  <2>1. TruncLeft(r, delta) \in Int
    <3> DEFINE x == r + delta
    <3>1. x \in Nat /\ x \in Int /\ TwoTo[op.shift] \in Nat /\ TwoTo[op.shift] > 0 /\ modulus > 0
      BY <1>1, TwoToType
    <3> HIDE DEF x
    <3>2. x \div TwoTo[op.shift] \in Int /\ x \div modulus \in Int
      BY <1>1, <3>1, Division
    <3>3. BitOf(x, op.bitwidth - 1) \in Int
      BY <3>1, HighBit
    <3>4. Extension \in Int
      BY TruncSizes
    <3>5. \A u \in Int, v \in Int, w \in Int, y \in Int : u + (w * (v + y)) \in Int /\ u + 0 \in Int
      OBVIOUS
    <3>6. TruncLeft(r, delta) = (x \div TwoTo[op.shift]) + (IF op.signed THEN Extension * (BitOf(x, op.bitwidth - 1) + (x \div modulus)) ELSE 0)
      BY DEF TruncLeft, x
    <3>. QED  BY <3>2, <3>3, <3>4, <3>5, <3>6
  <2>2. modulus > 0 /\ modulus \in Nat
    BY <1>1
  <2>3. res \in Int
    BY <2>1, <2>2, Division
  <2>4. hi \in Int
    BY <1>1
  <2>. QED  BY <2>3, <2>4
<1> HIDE DEF res
<1>10. /\ tail \in [4 * b + 2 .. e + 2 -> Int] /\ e + 2 \in 4 * b + 2 .. e + 2
       /\ tail[e + 1] = hi /\ tail[e + 2] = res
  <2>1. e + 2 \in 4 * b + 2 .. e + 2 /\ e + 1 \in 4 * b + 2 .. e + 2 /\ e + 2 # e + 1
    BY <1>6
  <2>. QED  BY <1>9, <2>1
<1>11. Leaves(tail, e + 2, code, inputs, b, r, g)
  <2>1. SUFFICES ASSUME NEW c \in 4 * b + 2 .. e + 2, NEW memory, AddedUpTo(4 * b + 1, memory, r, g),
                        \A k \in 4 * b + 2 .. c - 1 : memory[k] = tail[k]
                 PROVE  Executed(code[c], memory, inputs) = tail[c]
    BY DEF Leaves
  <2>2. CASE c = e + 1
    <3>1. Executed(Load(HighLimb), memory, inputs) = Mod(hi)
      BY <1>3 DEF Executed, Load
    <3>2. Mod(hi) = hi
      <4>1. hi % modulus = hi
        BY <1>1
      <4>. QED  BY <4>1 DEF Mod
    <3>. QED  BY <1>7, <1>10, <2>2, <3>1, <3>2
  <2>3. CASE c = e + 2
    <3>1. memory[4 * b + 2] = hi
      <4>1. 4 * b + 2 \in 4 * b + 2 .. c - 1 /\ tail[4 * b + 2] = hi
        BY <1>6, <1>10, <2>3
      <4>. QED  BY <2>1, <4>1
    <3>2. memory[CarryCell(op.shift)] = CarryToBit(r, g, op.shift)
      BY <1>1, <1>5, <1>8, <2>1 DEF AddedUpTo
    <3>3. op.signed => /\ memory[SumCell(op.bitwidth - 1)] = BitOf(r + delta, op.bitwidth - 1)
                       /\ memory[CarryCell(op.bitwidth)] = CarryToBit(r, delta, op.bitwidth)
      <4>1. HAVE op.signed
      <4>2. op.bitwidth - 1 \in Nat
        BY <1>1
      <4>. QED  BY <1>1, <1>2, <1>5, <1>8, <2>1, <4>1, <4>2 DEF AddedUpTo
    <3>4. Executed(TruncTail(delta), memory, inputs) = res
      BY <3>1, <3>2, <3>3, TruncTailIs DEF b, hi, g, res
    <3>. QED  BY <1>7, <1>10, <2>3, <3>4
  <2>. QED  BY <1>6, <2>2, <2>3
<1>12. e + 2 \in Nat /\ e + 2 > 4 * b + 1
  BY <1>6
<1> HIDE DEF e, tail
<1>13. Run(code, inputs) = tail[e + 2]
  <2> DEFINE n == e + 2
  <2> HIDE DEF n
  <2>1. n \in Nat /\ n > 4 * b + 1 /\ Len(code) = n /\ tail \in [4 * b + 2 .. n -> Int] /\ Leaves(tail, n, code, inputs, b, r, g)
    BY <1>7, <1>10, <1>11, <1>12 DEF n
  <2>2. HoldsBits(inputs, name, b, r) /\ BeginsAdding(code, b, g, name)
    BY <1>3, <1>7
  <2>3. Run(code, inputs) = tail[n]
    BY <1>1, <2>1, <2>2, RunAdds
  <2>. QED  BY <2>3 DEF n
<1>14. Run(code, inputs) = res
  BY <1>10, <1>13
<1>. QED  BY <1>14 DEF code, inputs, res

-----------------------------------------------------------------------------
(* What a call returns.                                                    *)

LEMMA ModIs ==
  ASSUME HatCall, NEW x \in Int
  PROVE  /\ Mod(x) \in 0 .. modulus - 1 /\ Mod(x) \in Nat /\ Mod(Mod(x)) = Mod(x)
         /\ Congruent(Mod(x), x, modulus)
         /\ \A y \in Int : Congruent(x, y, modulus) => Mod(x) = Mod(y)
<1>1. modulus \in Nat /\ modulus > 0
  BY HatFormat
<1>2. x % modulus \in Int /\ 0 <= x % modulus /\ x % modulus < modulus
  BY <1>1, Division
<1>3. Congruent(x % modulus, x, modulus)
  BY <1>1, RemainderCongruent
<1>4. \A y \in Int : Congruent(x, y, modulus) => x % modulus = y % modulus
  BY <1>1, CongruentSame
<1> DEFINE r == x % modulus
<1> HIDE DEF r
<1>5. r \in 0 .. modulus - 1 /\ r \in Nat /\ r % modulus = r
  <2>1. r \in Int /\ 0 <= r /\ r < modulus
    BY <1>2 DEF r
  <2>. QED  BY <1>1, <2>1
<1>. QED  BY <1>3, <1>4, <1>5 DEF Mod, r

\* Signed words.
LEMMA Decodes ==
  ASSUME HatCall, NEW w \in 0 .. modulus - 1
  PROVE  /\ DecodeSigned(w) = IF w < modulus \div 2 THEN w ELSE w - modulus
         /\ DecodeSigned(w) \in Int /\ Mod(DecodeSigned(w)) = w
         /\ DecodeSigned(w) >= 0 <=> w < modulus \div 2
         /\ 0 - (modulus \div 2) <= DecodeSigned(w) /\ DecodeSigned(w) < modulus \div 2
         /\ SignedWord(w) = DecodeSigned(w)
<1> DEFINE h == modulus \div 2
           d == DecodeSigned(w)
<1>1. h \in Nat /\ h > 0 /\ modulus = 2 * h /\ modulus \in Nat /\ modulus > 0
  BY HatFormat
<1>2. d = IF w >= h THEN w - modulus ELSE w
  BY DEF DecodeSigned
<1> HIDE DEF h, d
<1>3. w \in Nat /\ w < modulus /\ w % modulus = w
  BY <1>1
<1>4. /\ d = IF w < h THEN w ELSE w - modulus
      /\ d \in Int /\ (d >= 0 <=> w < h) /\ 0 - h <= d /\ d < h
  BY <1>1, <1>2, <1>3
<1>5. d % modulus = w
  <2>1. CASE w < h
    BY <1>3, <1>4, <2>1
  <2>2. CASE ~(w < h)
    <3>1. d = modulus * (0 - 1) + w /\ 0 - 1 \in Int
      BY <1>1, <1>3, <1>4, <2>2
    <3>. QED  BY <1>1, <1>4, <3>1, QuotientIs
  <2>. QED  BY <2>1, <2>2
<1>6. SignedWord(w) = d
  BY <1>3 DEF SignedWord, Mod, d
<1>7. Mod(d) = w
  BY <1>5 DEF Mod
<1>. QED  BY <1>4, <1>6, <1>7 DEF h, d

LEMMA Extremes ==
  ASSUME NEW x \in Int, NEW y \in Int
  PROVE  /\ Max({x, y}) = IF x >= y THEN x ELSE y
         /\ Min({x, y}) = IF x >= y THEN y ELSE x
<1>1. CASE x >= y
  <2>1. \A z \in {x, y} : (\A u \in {x, y} : z >= u) <=> z = x
    BY <1>1
  <2>2. \A z \in {x, y} : (\A u \in {x, y} : z =< u) <=> z = y
    BY <1>1
  <2>. QED  BY <1>1, <2>1, <2>2 DEF Max, Min
<1>2. CASE ~(x >= y)
  <2>1. \A z \in {x, y} : (\A u \in {x, y} : z >= u) <=> z = y
    BY <1>2
  <2>2. \A z \in {x, y} : (\A u \in {x, y} : z =< u) <=> z = x
    BY <1>2
  <2>. QED  BY <1>2, <2>1, <2>2 DEF Max, Min
<1>. QED  BY <1>1, <1>2

\* The difference that is opened, and its sum with the mask.
Opens(a, c, r, delta) == delta = Mod(a - c - r)
Unmasked(a, c, r, delta, t) ==
  /\ delta \in 0 .. modulus - 1 /\ delta \in Nat /\ r \in Nat
  /\ r + Mod(delta - t) \in Nat
  /\ (r + Mod(delta - t)) % modulus = Mod(a - c - t)
  /\ (r + delta) % modulus = Mod(a - c)
  /\ Mod(delta - 0) = delta
LEMMA OpenedIs ==
  ASSUME HatCall, NEW a \in Int, NEW c \in Int, NEW r \in 0 .. modulus - 1, NEW delta, Opens(a, c, r, delta), NEW t \in Int
  PROVE  Unmasked(a, c, r, delta, t)
<1>1. modulus \in Nat /\ modulus > 0
  BY HatFormat
<1>2. r \in Nat /\ r \in Int
  BY <1>1
<1> DEFINE x == a - c - r
<1>3. x \in Int
  BY <1>2
<1> HIDE DEF x
<1>4. delta \in 0 .. modulus - 1 /\ delta \in Nat /\ Congruent(delta, x, modulus) /\ Mod(delta) = delta
  <2>1. delta = Mod(x)
    BY DEF Opens, x
  <2>. QED  BY <1>3, <2>1, ModIs
<1> DEFINE y == delta - t
           g == Mod(y)
<1>5. y \in Int /\ delta - 0 = delta
  BY <1>4
<1>6. g \in Nat /\ Congruent(g, y, modulus)
  <2> HIDE DEF y
  <2>. QED  BY <1>5, ModIs
<1>7. Congruent(t, t, modulus) /\ Congruent(r, r, modulus)
  BY <1>1, <1>2, CongruentItself
<1>8. delta \in Int /\ x - t \in Int
  BY <1>3, <1>4
<1>9. Congruent(y, x - t, modulus)
  BY <1>1, <1>3, <1>4, <1>7, <1>8, CongruentSum
<1> HIDE DEF y, g
<1>10. Congruent(g, x - t, modulus)
  <2> DEFINE z == x - t
  <2>1. z \in Int /\ Congruent(y, z, modulus) /\ g \in Int
    BY <1>6, <1>8, <1>9
  <2> HIDE DEF z
  <2>2. Congruent(g, z, modulus)
    BY <1>1, <1>5, <1>6, <2>1, CongruentChain
  <2>. QED  BY <2>2 DEF z
<1>11. Congruent(r + g, r + (x - t), modulus) /\ Congruent(r + delta, r + x, modulus)
  <2> DEFINE z == x - t
  <2>1. z \in Int /\ Congruent(g, z, modulus) /\ g \in Int
    BY <1>6, <1>8, <1>10
  <2> HIDE DEF z
  <2>2. Congruent(r + g, r + z, modulus)
    BY <1>1, <1>2, <1>7, <2>1, CongruentSum
  <2>3. Congruent(r + delta, r + x, modulus)
    BY <1>1, <1>2, <1>3, <1>4, <1>7, <1>8, CongruentSum
  <2>. QED  BY <2>2, <2>3 DEF z
<1>12. r + (x - t) = a - c - t /\ r + x = a - c
  BY <1>2 DEF x
<1>13. r + g \in Nat /\ r + delta \in Nat /\ a - c - t \in Int /\ a - c \in Int
  BY <1>2, <1>4, <1>6
<1> DEFINE u == r + g
           v == r + delta
           prod == a - c - t
           quot == a - c
<1>14. u \in Int /\ v \in Int /\ prod \in Int /\ quot \in Int /\ Congruent(u, prod, modulus) /\ Congruent(v, quot, modulus)
  BY <1>11, <1>12, <1>13
<1> HIDE DEF u, v, prod, quot
<1>15. u % modulus = prod % modulus /\ v % modulus = quot % modulus
  BY <1>1, <1>14, CongruentSame
<1>16. u % modulus = Mod(prod) /\ v % modulus = Mod(quot)
  BY <1>15 DEF Mod
<1>17. Mod(delta - 0) = delta
  BY <1>4, <1>5
<1>. QED  BY <1>2, <1>4, <1>13, <1>16, <1>17 DEF u, v, prod, quot, g, y, Unmasked

\* A call on one number: its mask and the machine's inputs are those of a token.
SlotCall(i, lhs, rhs) ==
  /\ HatCall /\ token.masks[i] \in 0 .. modulus - 1 /\ token.inputs[i] = Inputs(token.masks[i])
  /\ lhs[i] \in Int /\ rhs[i] \in Int /\ (op.name # "maxpool" => rhs[i] = 0)

\* The numbers modulo 2^bitwidth, and a difference of such.
LEMMA DifferenceIs ==
  ASSUME HatCall, NEW a \in Int, NEW c \in Int
  PROVE  Mod(Mod(a) - c) = Mod(a - c) /\ Mod(Mod(a) - Mod(c)) = Mod(a - c)
<1>1. modulus \in Nat /\ modulus > 0
  BY HatFormat
<1>2. Mod(a) \in Int /\ Congruent(Mod(a), a, modulus) /\ Mod(c) \in Int /\ Congruent(Mod(c), c, modulus)
  BY ModIs
<1>3. Congruent(c, c, modulus)
  BY <1>1, CongruentItself
<1> DEFINE x == Mod(a) - c
           y == Mod(a) - Mod(c)
           z == a - c
<1>4. Congruent(x, z, modulus) /\ Congruent(y, z, modulus)
  BY <1>1, <1>2, <1>3, CongruentSum
<1>5. x \in Int /\ y \in Int /\ z \in Int
  BY <1>2
<1> HIDE DEF x, y, z
<1>6. Mod(x) = Mod(z) /\ Mod(y) = Mod(z)
  BY <1>4, <1>5, ModIs
<1>. QED  BY <1>6 DEF x, y, z

\* Every operator computes its function in the clear.
LEMMA CmpResult ==
  ASSUME NEW i, NEW lhs, NEW rhs, SlotCall(i, lhs, rhs), op.name = "cmp"
  PROVE  Result(i, lhs, rhs) = InClear(i, lhs, rhs)
<1> DEFINE a == lhs[i]
           c == rhs[i]
           r == token.masks[i]
           t == op.threshold
           delta == Mod(a - c - r)
           y == r + Mod(delta - t)
           w == Mod(a - t)
<1>1. HatCall /\ a \in Int /\ c = 0 /\ r \in 0 .. modulus - 1 /\ token.inputs[i] = Inputs(r)
  BY DEF SlotCall
<1>2. t \in Int /\ modulus \in Nat /\ modulus >= 2 /\ c \in Int
  BY <1>1, HatFormat
<1>3. Result(i, lhs, rhs) = Mod(c + Run(CompileCmp(delta, t), Inputs(r)))
  BY <1>1 DEF Result, Delta, Compile
<1>4. InClear(i, lhs, rhs) = IF DecodeSigned(Mod(Mod(Mod(a) - t))) >= 0 THEN 1 ELSE 0
  BY DEF InClear, Difference, SignedWord
<1> HIDE DEF a, r, t, c
<1>5. /\ delta \in 0 .. modulus - 1 /\ delta \in Int /\ y \in Nat /\ y % modulus = Mod(a - c - t)
  <2> DEFINE d == delta
  <2>1. Opens(a, c, r, d)
    BY DEF Opens
  <2> HIDE DEF d
  <2>2. Unmasked(a, c, r, d, t)
    BY <1>1, <1>2, <2>1, OpenedIs
  <2>. QED  BY <2>2 DEF d, Unmasked
<1>6. a - c - t = a - t
  BY <1>1, <1>2
<1>7. w \in 0 .. modulus - 1 /\ Mod(Mod(Mod(a) - t)) = w
  <2>1. Mod(Mod(a) - t) = w
    BY <1>1, <1>2, DifferenceIs
  <2> DEFINE z == a - t
  <2>2. z \in Int
    BY <1>1, <1>2
  <2> HIDE DEF z
  <2>3. Mod(z) \in 0 .. modulus - 1 /\ Mod(Mod(z)) = Mod(z)
    BY <1>1, <2>2, ModIs
  <2>. QED  BY <2>1, <2>3 DEF z
<1>8. Run(CompileCmp(delta, t), Inputs(r)) = 1 - BitOf(y, op.bitwidth - 1)
  <2> HIDE DEF delta
  <2>. QED  BY <1>1, <1>2, <1>5, CmpRuns
<1>9. y % modulus = w
  BY <1>5, <1>6
<1> HIDE DEF delta, y, w
<1>10. BitOf(y, op.bitwidth - 1) = IF w < modulus \div 2 THEN 0 ELSE 1
  BY <1>1, <1>5, <1>9, HighBit
<1>11. DecodeSigned(w) >= 0 <=> w < modulus \div 2
  BY <1>1, <1>7, Decodes
<1>12. Mod(0) = 0 /\ Mod(1) = 1
  BY <1>2 DEF Mod
<1>13. CASE w < modulus \div 2
  <2>1. Result(i, lhs, rhs) = Mod(0 + (1 - 0))
    BY <1>1, <1>3, <1>8, <1>10, <1>13
  <2>. QED  BY <1>4, <1>7, <1>11, <1>12, <1>13, <2>1
<1>14. CASE ~(w < modulus \div 2)
  <2>1. Result(i, lhs, rhs) = Mod(0 + (1 - 1))
    BY <1>1, <1>3, <1>8, <1>10, <1>14
  <2>. QED  BY <1>4, <1>7, <1>11, <1>12, <1>14, <2>1
<1>. QED  BY <1>13, <1>14

\* The larger of the two numbers, by the sign of their difference.
LEMMA ReluReturns ==
  ASSUME NEW i, NEW lhs, NEW rhs, SlotCall(i, lhs, rhs), op.name \in {"relu", "maxpool"}
  PROVE  Result(i, lhs, rhs) = IF Mod(lhs[i] - rhs[i]) < modulus \div 2 THEN Mod(lhs[i]) ELSE Mod(rhs[i])
<1> DEFINE a == lhs[i]
           c == rhs[i]
           r == token.masks[i]
           delta == Mod(a - c - r)
           y == r + Mod(delta - 0)
           w == Mod(a - c)
<1>1. HatCall /\ a \in Int /\ c \in Int /\ r \in 0 .. modulus - 1 /\ token.inputs[i] = Inputs(r)
  BY DEF SlotCall
<1>2. modulus \in Nat /\ modulus >= 2 /\ modulus > 0
  BY <1>1, HatFormat
<1>3. Result(i, lhs, rhs) = Mod(c + Run(CompileRelu(delta), Inputs(r)))
  BY <1>1 DEF Result, Delta, Compile
<1> HIDE DEF a, r, c
<1>4. /\ delta \in 0 .. modulus - 1 /\ delta \in Int /\ y \in Nat /\ y % modulus = w /\ (r + delta) % modulus = w
  <2> DEFINE d == delta
  <2>1. Opens(a, c, r, d) /\ 0 \in Int
    BY DEF Opens
  <2> HIDE DEF d
  <2>2. Unmasked(a, c, r, d, 0)
    BY <1>1, <1>2, <2>1, OpenedIs
  <2>3. (r + Mod(d - 0)) % modulus = w
    BY <2>2 DEF Unmasked
  <2>. QED  BY <2>2, <2>3 DEF d, Unmasked
<1>5. Run(CompileRelu(delta), Inputs(r)) = IF 1 - BitOf(y, op.bitwidth - 1) = 1 THEN (r + delta) % modulus ELSE 0
  <2> HIDE DEF delta
  <2>. QED  BY <1>1, <1>4, ReluRuns
<1>6. Congruent(w, a - c, modulus) /\ w \in Int /\ a - c \in Int
  <2> DEFINE z == a - c
  <2>1. z \in Int
    BY <1>1
  <2> HIDE DEF z
  <2>2. Congruent(Mod(z), z, modulus) /\ Mod(z) \in Nat
    BY <1>1, <2>1, ModIs
  <2>. QED  BY <2>1, <2>2 DEF z
<1> HIDE DEF delta, y, w
<1>7. BitOf(y, op.bitwidth - 1) = IF w < modulus \div 2 THEN 0 ELSE 1
  BY <1>1, <1>4, HighBit
<1>8. Mod(c + w) = Mod(a)
  <2>1. Congruent(c, c, modulus)
    BY <1>1, <1>2, CongruentItself
  <2> DEFINE z == a - c
  <2>2. z \in Int /\ Congruent(w, z, modulus)
    BY <1>1, <1>6
  <2> HIDE DEF z
  <2>3. Congruent(c + w, c + z, modulus)
    BY <1>1, <1>2, <1>6, <2>1, <2>2, CongruentSum
  <2>4. c + z = a
    BY <1>1 DEF z
  <2> DEFINE u == c + w
  <2>5. u \in Int /\ Congruent(u, a, modulus)
    BY <1>1, <1>6, <2>3, <2>4
  <2> HIDE DEF u
  <2>6. Mod(u) = Mod(a)
    BY <1>1, <2>5, ModIs
  <2>. QED  BY <2>6 DEF u
<1>9. CASE w < modulus \div 2
  BY <1>3, <1>4, <1>5, <1>7, <1>8, <1>9 DEF w, a, c
<1>10. CASE ~(w < modulus \div 2)
  <2>1. Result(i, lhs, rhs) = Mod(c + 0) /\ c + 0 = c
    BY <1>1, <1>3, <1>5, <1>7, <1>10
  <2>. QED  BY <1>10, <2>1 DEF w, a, c
<1>. QED  BY <1>9, <1>10

\* A difference that leaves the signed range is taken for one of the other sign.
LEMMA DifferenceSign ==
  ASSUME NEW h \in Nat, h > 0, NEW m \in Nat, m = 2 * h, NEW x \in Int, NEW y \in Int, NEW d \in Int, Congruent(d, x - y, m),
         0 - h <= x, x < h, 0 - h <= y, y < h, 0 - h <= d, d < h
  PROVE  d = x - y \/ (x >= y /\ d < 0) \/ (~(x >= y) /\ d >= 0)
<1>1. PICK k \in Int : d = x - y + m * k
  BY DEF Congruent
<1> DEFINE prod == m * k
<1>2. prod \in Int /\ d = x - y + prod
  BY <1>1
<1>3. k >= 1 => prod >= m
  OBVIOUS
<1>4. k <= 0 - 1 => prod <= 0 - m
  OBVIOUS
<1>5. k = 0 => prod = 0
  OBVIOUS
<1> HIDE DEF prod
<1>6. k >= 1 \/ k <= 0 - 1 \/ k = 0
  OBVIOUS
<1>7. CASE k = 0
  <2>1. d = x - y
    BY <1>2, <1>5, <1>7
  <2>. QED  BY <2>1
<1>8. CASE k >= 1
  <2>1. ~(x >= y) /\ d >= 0
    BY <1>2, <1>3, <1>8
  <2>. QED  BY <2>1
<1>9. CASE k <= 0 - 1
  <2>1. x >= y /\ d < 0
    BY <1>2, <1>4, <1>9
  <2>. QED  BY <2>1
<1>. QED  BY <1>6, <1>7, <1>8, <1>9

LEMMA ReluResult ==
  ASSUME NEW i, NEW lhs, NEW rhs, SlotCall(i, lhs, rhs), op.name = "relu"
  PROVE  Result(i, lhs, rhs) = InClear(i, lhs, rhs)
<1> DEFINE a == lhs[i]
           v == Mod(a)
           s == SignedWord(v)
           h == modulus \div 2
<1>1. HatCall /\ a \in Int /\ rhs[i] = 0
  BY DEF SlotCall
<1>2. InClear(i, lhs, rhs) = Mod(Max({s, 0}))
  BY DEF InClear
<1>3. Result(i, lhs, rhs) = IF Mod(a - 0) < h THEN v ELSE Mod(0)
  BY <1>1, ReluReturns
<1> HIDE DEF a
<1>4. v \in 0 .. modulus - 1 /\ a - 0 = a
  BY <1>1, ModIs
<1> HIDE DEF v
<1>5. s \in Int /\ Mod(s) = v /\ (s >= 0 <=> v < h)
  BY <1>1, <1>4, Decodes
<1> HIDE DEF s, h
<1>6. Max({s, 0}) = IF s >= 0 THEN s ELSE 0
  BY <1>5, Extremes
<1>7. Result(i, lhs, rhs) = IF v < h THEN v ELSE Mod(0)
  BY <1>3, <1>4 DEF v
<1>. QED  BY <1>2, <1>5, <1>6, <1>7

LEMMA MaxpoolResult ==
  ASSUME NEW i, NEW lhs, NEW rhs, SlotCall(i, lhs, rhs), op.name = "maxpool"
  PROVE  Result(i, lhs, rhs) = InClear(i, lhs, rhs)
<1> DEFINE a == lhs[i]
           c == rhs[i]
           v == Mod(a)
           u == Mod(c)
           w == Mod(a - c)
           x == SignedWord(v)
           y == SignedWord(u)
           d == DecodeSigned(w)
           h == modulus \div 2
<1>1. HatCall /\ a \in Int /\ c \in Int
  BY DEF SlotCall
<1>2. InClear(i, lhs, rhs) = IF Difference(v, u) = x - y THEN Mod(Max({x, y})) ELSE Mod(Min({x, y}))
  BY DEF InClear
<1>3. Result(i, lhs, rhs) = IF w < h THEN v ELSE u
  BY ReluReturns
<1> HIDE DEF a, c
<1>4. v \in 0 .. modulus - 1 /\ u \in 0 .. modulus - 1 /\ Congruent(v, a, modulus) /\ Congruent(u, c, modulus)
  BY <1>1, ModIs
<1>5. w \in 0 .. modulus - 1 /\ Congruent(w, a - c, modulus) /\ Mod(w) = w /\ a - c \in Int
  <2> DEFINE z == a - c
  <2>1. z \in Int
    BY <1>1
  <2> HIDE DEF z
  <2>2. Mod(z) \in 0 .. modulus - 1 /\ Congruent(Mod(z), z, modulus) /\ Mod(Mod(z)) = Mod(z)
    BY <1>1, <2>1, ModIs
  <2>. QED  BY <2>1, <2>2 DEF z
<1>6. Difference(v, u) = d
  <2>1. Mod(v - u) = w
    BY <1>1, DifferenceIs
  <2>. QED  BY <1>5, <2>1 DEF Difference, SignedWord
<1> HIDE DEF v, u, w
<1>7. /\ x \in Int /\ Mod(x) = v /\ 0 - h <= x /\ x < h
      /\ y \in Int /\ Mod(y) = u /\ 0 - h <= y /\ y < h
      /\ d \in Int /\ Mod(d) = w /\ 0 - h <= d /\ d < h /\ (d >= 0 <=> w < h)
  BY <1>1, <1>4, <1>5, Decodes
<1> HIDE DEF x, y, d
<1>8. modulus \in Nat /\ modulus > 0 /\ h \in Nat /\ h > 0 /\ modulus = 2 * h
  BY <1>1, HatFormat
<1> HIDE DEF h
<1>9. Congruent(d, x - y, modulus)
  <2>1. Congruent(v, x, modulus) /\ Congruent(u, y, modulus) /\ Congruent(w, d, modulus)
    BY <1>1, <1>7, ModIs
  <2>2. Congruent(x, v, modulus) /\ Congruent(y, u, modulus) /\ Congruent(d, w, modulus)
    <3>1. v \in Int /\ u \in Int /\ w \in Int
      BY <1>4, <1>5, <1>8
    <3>. QED  BY <1>7, <1>8, <2>1, <3>1, CongruentBack
  <2>3. Congruent(x, a, modulus) /\ Congruent(y, c, modulus)
    <3>1. v \in Int /\ u \in Int
      BY <1>4, <1>8
    <3>. QED  BY <1>1, <1>4, <1>7, <1>8, <2>2, <3>1, CongruentChain
  <2> DEFINE z == a - c
             quot == x - y
  <2>4. Congruent(quot, z, modulus) /\ z \in Int /\ quot \in Int
    BY <1>1, <1>7, <1>8, <2>3, CongruentSum
  <2>5. Congruent(w, z, modulus) /\ w \in Int
    BY <1>5, <1>8
  <2> HIDE DEF z, quot
  <2>6. Congruent(z, quot, modulus)
    BY <1>8, <2>4, CongruentBack
  <2>7. Congruent(d, z, modulus)
    BY <1>7, <1>8, <2>2, <2>4, <2>5, CongruentChain
  <2>8. Congruent(d, quot, modulus)
    BY <1>7, <1>8, <2>4, <2>6, <2>7, CongruentChain
  <2>. QED  BY <2>8 DEF quot
<1>10. d = x - y \/ (x >= y /\ d < 0) \/ (~(x >= y) /\ d >= 0)
  BY <1>7, <1>8, <1>9, DifferenceSign
<1>11. Max({x, y}) = (IF x >= y THEN x ELSE y) /\ Min({x, y}) = IF x >= y THEN y ELSE x
  BY <1>7, Extremes
<1>12. CASE d = x - y
  <2>1. x >= y <=> d >= 0
    BY <1>7, <1>12
  <2>2. InClear(i, lhs, rhs) = Mod(Max({x, y}))
    BY <1>2, <1>6, <1>12
  <2>. QED  BY <1>3, <1>7, <1>11, <2>1, <2>2
<1>13. CASE ~(d = x - y) /\ x >= y
  <2>1. InClear(i, lhs, rhs) = Mod(y) /\ ~(d >= 0)
    BY <1>2, <1>6, <1>7, <1>10, <1>11, <1>13
  <2>. QED  BY <1>3, <1>7, <2>1
<1>14. CASE ~(d = x - y) /\ ~(x >= y)
  <2>1. InClear(i, lhs, rhs) = Mod(x) /\ d >= 0
    BY <1>2, <1>6, <1>7, <1>10, <1>11, <1>14
  <2>. QED  BY <1>3, <1>7, <2>1
<1>. QED  BY <1>12, <1>13, <1>14

\* The number and its mask: their difference wraps when the number is the less.
LEMMA WrapIs ==
  ASSUME NEW m \in Nat, m > 0, NEW r \in 0 .. m - 1, NEW delta \in 0 .. m - 1, NEW v \in 0 .. m - 1,
         (r + delta) % m = v
  PROVE  LET o == IF v < r THEN 1 ELSE 0
         IN  r + delta = v + m * o /\ (r + delta) \div m = o
<1> DEFINE y == r + delta
<1>1. y \in Nat /\ y < 2 * m /\ y >= r /\ y < r + m /\ v \in Nat /\ v < m /\ r < m
  OBVIOUS
<1> HIDE DEF y
<1>2. CASE y < m
  <2>1. y = m * 0 + y /\ y \in 0 .. m - 1 /\ 0 \in Int /\ y \in Int
    BY <1>1, <1>2
  <2>2. y \div m = 0 /\ y % m = y
    BY <2>1, QuotientIs
  <2>3. y = v /\ ~(v < r)
    BY <1>1, <2>2 DEF y
  <2>. QED  BY <1>1, <2>2, <2>3 DEF y
<1>3. CASE y >= m
  <2> DEFINE z == y - m
  <2>1. y = m * 1 + z /\ z \in 0 .. m - 1 /\ 1 \in Int /\ y \in Int
    BY <1>1, <1>3
  <2> HIDE DEF z
  <2>2. y \div m = 1 /\ y % m = z
    BY <2>1, QuotientIs
  <2>3. y = v + m /\ v < r
    BY <1>1, <2>1, <2>2 DEF y
  <2>. QED  BY <1>1, <2>2, <2>3 DEF y
<1>. QED  BY <1>1, <1>2, <1>3

\* The quotient by D of a number that wraps S * D, and of one that is negative.
LEMMA QuotientWraps ==
  ASSUME NEW D \in Nat, D > 0, NEW S \in Nat, NEW v \in Nat, NEW o \in Nat
  PROVE  (v + (D * S) * o) \div D = v \div D + S * o
<1> DEFINE quot == v \div D
           t == v % D
<1>1. quot \in Nat /\ t \in 0 .. D - 1 /\ v = D * quot + t
  BY Division, QuotientOfNat
<1> HIDE DEF quot, t
<1> DEFINE x == v + (D * S) * o
           k == quot + S * o
<1>2. k \in Int /\ x \in Int /\ x = D * k + t
  BY <1>1
<1> HIDE DEF x, k
<1>3. x \div D = k
  BY <1>1, <1>2, QuotientIs
<1>. QED  BY <1>3 DEF x, k, quot

LEMMA FloorOfNegative ==
  ASSUME NEW D \in Nat, D > 0, NEW S \in Nat, NEW v \in Nat, v < D * S
  PROVE  FloorDiv(v - D * S, D) = v \div D - S
<1> DEFINE quot == v \div D
           t == v % D
<1>1. quot \in Nat /\ t \in 0 .. D - 1 /\ v = D * quot + t
  BY Division, QuotientOfNat
<1> HIDE DEF quot, t
<1> DEFINE x == v - D * S
           y == 0 - x + D - 1
           k == S - quot
           u == D - 1 - t
<1>2. x \in Int /\ x < 0 /\ y \in Int /\ k \in Int /\ u \in 0 .. D - 1
  BY <1>1
<1>3. y = D * k + u
  BY <1>1
<1>4. FloorDiv(x, D) = -(y \div D)
  <2>1. ~(x >= 0) /\ -x = 0 - x
    BY <1>2
  <2>. QED  BY <2>1 DEF FloorDiv
<1> HIDE DEF y, k, u, x
<1>5. y \div D = k
  BY <1>2, <1>3, QuotientIs
<1>6. -k = quot - S
  BY <1>1 DEF k
<1>. QED  BY <1>4, <1>5, <1>6 DEF x, quot

LEMMA TruncResult ==
  ASSUME NEW i, NEW lhs, NEW rhs, SlotCall(i, lhs, rhs), op.name = "trunc"
  PROVE  Result(i, lhs, rhs) = InClear(i, lhs, rhs)
<1> DEFINE a == lhs[i]
           r == token.masks[i]
           delta == Mod(a - 0 - r)
           v == Mod(a)
           D == TwoTo[op.shift]
           S == TwoTo[op.bitwidth - op.shift]
           o == IF v < r THEN 1 ELSE 0
           e == IF v < modulus \div 2 THEN 0 ELSE 1
           left == TruncLeft(r, delta)
<1>1. HatCall /\ a \in Int /\ rhs[i] = 0 /\ r \in 0 .. modulus - 1 /\ token.inputs[i] = Inputs(r)
  BY DEF SlotCall
<1>2. /\ modulus \in Nat /\ modulus > 0 /\ op.shift \in Nat /\ op.bitwidth - op.shift \in Nat /\ op.bitwidth \in Nat
      /\ op.signed \in BOOLEAN
  BY <1>1, HatFormat
<1>3. D \in Nat /\ D > 0 /\ S \in Nat /\ modulus = D * S
  <2> DEFINE n == op.bitwidth - op.shift
  <2>1. n \in Nat /\ op.shift + n = op.bitwidth
    BY <1>2
  <2> HIDE DEF n
  <2>2. TwoTo[op.shift + n] = TwoTo[op.shift] * TwoTo[n] /\ TwoTo[n] \in Nat /\ TwoTo[op.shift] \in Nat /\ TwoTo[op.shift] > 0
    BY <1>2, <2>1, TwoToSum, TwoToType
  <2>. QED  BY <2>1, <2>2 DEF n, modulus
<1>4. Result(i, lhs, rhs) = Mod(0 + Run(CompileTrunc(delta), Inputs(r)))
  BY <1>1 DEF Result, Delta, Compile
<1>5. InClear(i, lhs, rhs) = IF op.signed THEN Mod(FloorDiv(SignedWord(v), D)) ELSE Mod(v \div D + (IF v < r THEN S ELSE 0))
  <2>1. CASE op.signed
    BY <2>1 DEF InClear
  <2>2. CASE ~op.signed
    BY <2>2 DEF InClear
  <2>. QED  BY <2>1, <2>2
<1> HIDE DEF a, r
<1>6. delta \in 0 .. modulus - 1 /\ (r + delta) % modulus = Mod(a - 0)
  <2> DEFINE d == delta
  <2>1. Opens(a, 0, r, d) /\ 0 \in Int
    BY DEF Opens
  <2> HIDE DEF d
  <2>2. Unmasked(a, 0, r, d, 0)
    BY <1>1, <2>1, OpenedIs
  <2>. QED  BY <2>2 DEF d, Unmasked
<1>7. v \in 0 .. modulus - 1 /\ Mod(a - 0) = v
  <2>1. a - 0 = a
    BY <1>1
  <2>. QED  BY <1>1, <2>1, ModIs
<1> HIDE DEF delta, v
<1>8. Run(CompileTrunc(delta), Inputs(r)) = Mod(left)
  BY <1>1, <1>6, TruncRuns DEF Mod
<1>9. r + delta = v + modulus * o /\ (r + delta) \div modulus = o
  BY <1>1, <1>2, <1>6, <1>7, WrapIs
<1>10. o \in Nat /\ e \in Nat /\ v \in Nat /\ r \in Nat /\ delta \in Nat /\ v < modulus
  BY <1>1, <1>2, <1>6, <1>7
<1>11. BitOf(r + delta, op.bitwidth - 1) = e
  <2> DEFINE y == r + delta
  <2>1. y \in Nat /\ y % modulus = v
    BY <1>6, <1>7, <1>10
  <2> HIDE DEF y
  <2>2. BitOf(y, op.bitwidth - 1) = IF y % modulus < modulus \div 2 THEN 0 ELSE 1
    BY <1>1, <2>1, HighBit
  <2>. QED  BY <2>1, <2>2 DEF y
<1> DEFINE quot == v \div D
<1>12. (r + delta) \div D = quot + S * o
  <2> HIDE DEF o, D, S
  <2>1. (v + (D * S) * o) \div D = v \div D + S * o
    BY <1>3, <1>10, QuotientWraps
  <2>. QED  BY <1>3, <1>9, <2>1
<1>13. quot \in Nat
  BY <1>3, <1>10, QuotientOfNat
<1> DEFINE ext == Extension * (e + o)
<1>14. left = quot + S * o + IF op.signed THEN ext ELSE 0
  BY <1>9, <1>11, <1>12 DEF TruncLeft
<1>15. Extension = modulus - S
  BY DEF Extension
<1> HIDE DEF left
<1>16. CASE ~op.signed
  <2> DEFINE z == quot + S * o
  <2>1. z \in Int /\ left = z
    <3> HIDE DEF o, S, quot
    <3>1. S * o \in Nat
      BY <1>3, <1>10
    <3> DEFINE prod == S * o
    <3>2. prod \in Nat /\ left = quot + prod + 0
      BY <1>14, <1>16, <3>1
    <3> HIDE DEF prod
    <3>3. quot + prod + 0 = quot + prod /\ quot + prod \in Int
      BY <1>13, <3>2
    <3>. QED  BY <3>2, <3>3 DEF prod
  <2>2. S * o = IF v < r THEN S ELSE 0
    <3>1. S * 1 = S /\ S * 0 = 0
      BY <1>3
    <3>. QED  BY <3>1
  <2>3. InClear(i, lhs, rhs) = Mod(z)
    BY <1>5, <1>16, <2>2
  <2> HIDE DEF z
  <2>4. Mod(Mod(z)) = Mod(z) /\ Mod(z) \in Nat
    BY <1>1, <2>1, ModIs
  <2>5. 0 + Mod(z) = Mod(z)
    BY <2>4
  <2>. QED  BY <1>4, <1>8, <2>1, <2>3, <2>4, <2>5
<1>17. CASE op.signed
  <2> DEFINE z == quot - S * e
             k == e + o
  <2>1. /\ z \in Int /\ k \in Int /\ left \in Int /\ left = z + modulus * k
    <3>1. left = quot + S * o + (modulus - S) * (e + o)
      BY <1>14, <1>15, <1>17
    <3> HIDE DEF o, S, quot, e
    <3>2. quot + S * o + (modulus - S) * (e + o) = (quot - S * e) + modulus * (e + o)
      BY <1>2, <1>3, <1>10, <1>13
    <3>3. quot - S * e \in Int /\ e + o \in Int /\ modulus * (e + o) \in Int
      BY <1>2, <1>3, <1>10, <1>13
    <3>. QED  BY <3>1, <3>2, <3>3
  <2>2. FloorDiv(SignedWord(v), D) = z
    <3>1. DecodeSigned(v) = (IF v < modulus \div 2 THEN v ELSE v - modulus) /\ SignedWord(v) = DecodeSigned(v)
      BY <1>1, <1>7, Decodes
    <3>2. CASE v < modulus \div 2
      <4>1. SignedWord(v) = v /\ v >= 0
        BY <1>10, <3>1, <3>2
      <4>2. S * e = 0 /\ quot - 0 = quot
        BY <1>3, <1>13, <3>2
      <4>. QED  BY <4>1, <4>2 DEF FloorDiv
    <3>3. CASE ~(v < modulus \div 2)
      <4>1. SignedWord(v) = v - D * S
        BY <1>3, <3>1, <3>3
      <4>2. S * e = S
        BY <1>3, <3>3
      <4>3. FloorDiv(v - D * S, D) = v \div D - S
        <5> HIDE DEF D, S
        <5>1. v < D * S
          BY <1>3, <1>10
        <5>. QED  BY <1>3, <1>10, <5>1, FloorOfNegative
      <4>. QED  BY <4>1, <4>2, <4>3
    <3>. QED  BY <3>2, <3>3
  <2>3. InClear(i, lhs, rhs) = Mod(z)
    BY <1>5, <1>17, <2>2
  <2> HIDE DEF z, k
  <2>4. Congruent(left, z, modulus)
    BY <2>1 DEF Congruent
  <2>5. Mod(left) = Mod(z) /\ Mod(Mod(z)) = Mod(z) /\ Mod(z) \in Nat
    BY <1>1, <2>1, <2>4, ModIs
  <2>6. 0 + Mod(z) = Mod(z)
    BY <2>5
  <2>. QED  BY <1>4, <1>8, <2>3, <2>5, <2>6
<1>. QED  BY <1>2, <1>16, <1>17

\* Each result is the function of the number, whatever the mask.
LEMMA ResultsAre ==
  ASSUME NEW i, NEW lhs, NEW rhs, SlotCall(i, lhs, rhs), op.name # "poly"
  PROVE  Result(i, lhs, rhs) = InClear(i, lhs, rhs)
<1>1. op.name \in {"cmp", "relu", "maxpool", "trunc"}
  BY HatFormat DEF SlotCall
<1>. QED  BY <1>1, CmpResult, ReluResult, MaxpoolResult, TruncResult

-----------------------------------------------------------------------------
(* The shape of a program depends on the operator, not on the difference.  *)

AddKind(c) ==
  IF c = 1 THEN "const" ELSE IF (c - 2) % 4 = 0 THEN "load" ELSE IF (c - 2) % 4 = 1 THEN "mulin" ELSE "lin"
ProgramBits(o) == IF o.name = "trunc" /\ ~o.signed THEN o.shift ELSE o.bitwidth
ProgramSize(o) ==
  IF o.name = "poly" THEN 2 * (Len(o.coeffs) - 1) + 1
  ELSE 4 * ProgramBits(o) + 1 + (IF o.name = "cmp" THEN 1 ELSE IF o.name = "trunc" THEN 2 ELSE 3)
ProgramKind(o, c) ==
  IF o.name = "poly" THEN (IF c = 1 THEN "const" ELSE IF c % 2 = 0 THEN "mulin" ELSE "lin")
  ELSE IF c <= 4 * ProgramBits(o) + 1 THEN AddKind(c)
  ELSE IF o.name = "trunc" /\ c = 4 * ProgramBits(o) + 2 THEN "load"
  ELSE IF o.name \in {"relu", "maxpool"} /\ c = 4 * ProgramBits(o) + 3 THEN "mulin"
  ELSE "lin"
Reads(instruction, wires) == instruction.kind \in {"load", "mulin"} => instruction.wire \in wires
Shaped(code, o, wires) ==
  /\ code = [c \in 1 .. ProgramSize(o) |-> code[c]]
  /\ \A c \in 1 .. ProgramSize(o) : code[c].kind = ProgramKind(o, c) /\ Reads(code[c], wires)

AddWires(name, bits) == {<<name, i>> : i \in 0 .. bits - 1}
LEMMA AddKinds ==
  ASSUME NEW bits \in Nat, NEW g, NEW name, NEW c \in 1 .. 4 * bits + 1
  PROVE  /\ BitAdd(bits, g, name)[c].kind = AddKind(c)
         /\ Reads(BitAdd(bits, g, name)[c], AddWires(name, bits))
<1> DEFINE x == BitAdd(bits, g, name)[c]
           i == (c - 2) \div 4
           j == (c - 2) % 4
<1>1. CASE c = 1
  <2>1. x = Const(0)
    BY <1>1 DEF BitAdd
  <2>. QED  BY <1>1, <2>1 DEF Const, AddKind, Reads
<1>2. CASE c # 1
  <2>1. x = AddBit(i, g, name)[j + 1]
    BY <1>2 DEF BitAdd
  <2>2. i \in 0 .. bits - 1 /\ (j = 0 \/ j = 1 \/ j = 2 \/ j = 3)
    BY <1>2
  <2>3. AddKind(c) = IF j = 0 THEN "load" ELSE IF j = 1 THEN "mulin" ELSE "lin"
    BY <1>2 DEF AddKind
  <2> HIDE DEF x, i, j
  <2>4. CASE j = 0
    <3>1. x = Load(<<name, i>>)
      BY <2>1, <2>4 DEF AddBit
    <3>2. <<name, i>> \in AddWires(name, bits)
      BY <2>2 DEF AddWires
    <3>3. x.kind = "load" /\ x.wire = <<name, i>>
      BY <3>1 DEF Load
    <3>. QED  BY <2>3, <2>4, <3>2, <3>3 DEF Reads, x
  <2>5. CASE j = 1
    <3>1. x = MulIn(<<name, i>>, CarryCell(i))
      BY <2>1, <2>5 DEF AddBit
    <3>2. <<name, i>> \in AddWires(name, bits)
      BY <2>2 DEF AddWires
    <3>3. x.kind = "mulin" /\ x.wire = <<name, i>>
      BY <3>1 DEF MulIn
    <3>. QED  BY <2>3, <2>5, <3>2, <3>3 DEF Reads, x
  <2>6. CASE j = 2
    <3>1. \E terms : x = Lin(0, terms)
      BY <2>1, <2>6 DEF AddBit
    <3>. QED  BY <2>3, <2>6, <3>1 DEF Lin, Reads, x
  <2>7. CASE j = 3
    <3>1. \E res, terms : x = Lin(res, terms)
      BY <2>1, <2>7 DEF AddBit
    <3>. QED  BY <2>3, <2>7, <3>1 DEF Lin, Reads, x
  <2>. QED  BY <2>2, <2>4, <2>5, <2>6, <2>7
<1>. QED  BY <1>1, <1>2

LEMMA SizeIs ==
  ASSUME HatCall
  PROVE  /\ ProgramBits(op) \in Nat /\ ProgramSize(op) \in Nat
         /\ op.name # "poly" =>
              ProgramSize(op)
                = 4 * ProgramBits(op) + 1 + (IF op.name = "cmp" THEN 1 ELSE IF op.name = "trunc" THEN 2 ELSE 3)
<1> DEFINE b == ProgramBits(op)
           tail == IF op.name = "cmp" THEN 1 ELSE IF op.name = "trunc" THEN 2 ELSE 3
<1>1. b \in Nat
  BY HatFormat DEF ProgramBits
<1>2. tail \in Nat
  OBVIOUS
<1> HIDE DEF b, tail
<1>3. CASE op.name = "poly"
  <2> DEFINE l == Len(op.coeffs)
  <2>1. l \in Nat /\ l > 0
    BY <1>3, HatFormat
  <2>2. ProgramSize(op) = 2 * (l - 1) + 1
    BY <1>3 DEF ProgramSize
  <2> HIDE DEF l
  <2>3. 2 * (l - 1) + 1 \in Nat
    BY <2>1
  <2>. QED  BY <1>1, <1>3, <2>2, <2>3 DEF b
<1>4. CASE op.name # "poly"
  <2>1. ProgramSize(op) = 4 * b + 1 + tail
    BY <1>4 DEF ProgramSize, b, tail
  <2>2. 4 * b + 1 + tail \in Nat
    BY <1>1, <1>2
  <2>. QED  BY <1>1, <2>1, <2>2 DEF b, tail
<1>. QED  BY <1>3, <1>4

\* A program that begins with an addition.
Formed(code, n) == code = [c \in 1 .. n |-> code[c]]
EndsShaped(code, e, o, wires) ==
  \A c \in e + 1 .. ProgramSize(o) : code[c].kind = ProgramKind(o, c) /\ Reads(code[c], wires)

LEMMA AdderShaped ==
  ASSUME HatCall, op.name # "poly", NEW g, NEW code, NEW name, NEW b, b = ProgramBits(op), NEW e, e = 4 * b + 1,
         Formed(code, ProgramSize(op)), BeginsAdding(code, b, g, name),
         EndsShaped(code, e, op, RequiredInputWires), AddWires(name, b) \subseteq RequiredInputWires
  PROVE  Shaped(code, op, RequiredInputWires)
<1> DEFINE n == ProgramSize(op)
<1>1. b \in Nat /\ e \in Nat /\ n \in Nat
  <2>1. b \in Nat /\ n \in Nat
    BY SizeIs
  <2>. QED  BY <2>1
<1>2. ASSUME NEW c \in 1 .. n PROVE code[c].kind = ProgramKind(op, c) /\ Reads(code[c], RequiredInputWires)
  <2>1. CASE c <= e
    <3> DEFINE x == BitAdd(b, g, name)[c]
    <3>1. c \in 1 .. 4 * b + 1
      BY <1>1, <2>1
    <3>2. code[c] = x
      BY <3>1 DEF BeginsAdding
    <3>3. x.kind = AddKind(c) /\ Reads(x, AddWires(name, b))
      BY <1>1, <3>1, AddKinds
    <3> HIDE DEF x
    <3>4. ProgramKind(op, c) = AddKind(c)
      BY <2>1 DEF ProgramKind
    <3>5. Reads(x, RequiredInputWires)
      BY <3>3 DEF Reads
    <3>. QED  BY <3>2, <3>3, <3>4, <3>5
  <2>2. CASE ~(c <= e)
    <3>1. c \in e + 1 .. n
      BY <1>1, <2>2
    <3>. QED  BY <3>1 DEF EndsShaped
  <2>. QED  BY <2>1, <2>2
<1>. QED  BY <1>2 DEF Shaped, Formed

LEMMA WiresRequired ==
  ASSUME HatCall
  PROVE  /\ op.name \in {"cmp", "relu", "maxpool"} \/ (op.name = "trunc" /\ op.signed)
              => AddWires("bit", op.bitwidth) \subseteq RequiredInputWires
         /\ op.name = "trunc" /\ ~op.signed => AddWires("low bit", op.shift) \subseteq RequiredInputWires
         /\ op.name \in {"relu", "maxpool", "poly"} => RWire \in RequiredInputWires
         /\ op.name = "trunc" => HighLimb \in RequiredInputWires
<1>1. BitWires = AddWires("bit", op.bitwidth)
  BY DEF BitWires, AddWires
<1>2. op.signed \in BOOLEAN
  BY HatFormat
<1>. QED  BY <1>1, <1>2 DEF RequiredInputWires, AddWires

LEMMA CmpShaped ==
  ASSUME HatCall, op.name = "cmp", NEW delta \in Int
  PROVE  Shaped(Compile(delta), op, RequiredInputWires)
<1> DEFINE b == op.bitwidth
           e == 4 * b + 1
           g == Mod(delta - op.threshold)
           last == Lin(1, << <<-1, SumCell(op.bitwidth - 1)>> >>)
           code == CompileCmp(delta, op.threshold)
<1>1. b \in Nat /\ b > 0 /\ op.threshold \in Int
  BY HatFormat
<1>2. code = [c \in 1 .. e + 1 |-> IF c <= e THEN BitAdd(b, g, "bit")[c] ELSE last]
  BY <1>1, CmpCode
<1>3. ProgramBits(op) = b /\ ProgramSize(op) = e + 1 /\ e \in Nat
  BY <1>1 DEF ProgramBits, ProgramSize
<1>4. last.kind = "lin"
  BY DEF Lin
<1> HIDE DEF code, last, g
<1>5. Formed(code, ProgramSize(op)) /\ BeginsAdding(code, b, g, "bit")
  BY <1>2, <1>3 DEF Formed, BeginsAdding
<1>6. EndsShaped(code, e, op, RequiredInputWires)
  <2> SUFFICES ASSUME NEW c \in e + 1 .. e + 1 PROVE code[c].kind = ProgramKind(op, c) /\ Reads(code[c], RequiredInputWires)
    BY <1>3 DEF EndsShaped
  <2>2. c = e + 1 /\ ~(c <= e) /\ c \in 1 .. e + 1
    BY <1>3
  <2>3. code[c] = last
    BY <1>2, <2>2
  <2>4. ProgramKind(op, c) = "lin"
    BY <1>3, <2>2 DEF ProgramKind
  <2>. QED  BY <1>4, <2>3, <2>4 DEF Reads
<1>7. op.name # "poly" /\ e = 4 * b + 1 /\ b = ProgramBits(op)
  BY <1>3
<1>8. AddWires("bit", b) \subseteq RequiredInputWires
  BY WiresRequired
<1> HIDE DEF e, b
<1>9. Shaped(code, op, RequiredInputWires)
  BY <1>3, <1>5, <1>6, <1>7, <1>8, AdderShaped
<1>. QED  BY <1>9 DEF Compile, code

LEMMA ReluShaped ==
  ASSUME HatCall, op.name \in {"relu", "maxpool"}, NEW delta \in Int
  PROVE  Shaped(Compile(delta), op, RequiredInputWires)
<1> DEFINE b == op.bitwidth
           e == 4 * b + 1
           g == Mod(delta - 0)
           last == Lin(1, << <<-1, SumCell(op.bitwidth - 1)>> >>)
           mul == MulIn(RWire, e + 1)
           sum == Lin(0, << <<1, e + 2>>, <<delta, e + 1>> >>)
           code == CompileRelu(delta)
<1>1. b \in Nat /\ b > 0
  BY HatFormat
<1>2. code = [c \in 1 .. e + 3 |-> IF c <= e THEN BitAdd(b, g, "bit")[c] ELSE IF c = e + 1 THEN last
                                   ELSE IF c = e + 2 THEN mul ELSE sum]
  BY <1>1, ReluCode
<1>3. ProgramBits(op) = b /\ ProgramSize(op) = e + 3 /\ e \in Nat
  BY <1>1 DEF ProgramBits, ProgramSize
<1>4. last.kind = "lin" /\ sum.kind = "lin" /\ mul.kind = "mulin" /\ mul.wire = RWire
  BY DEF Lin, MulIn
<1> HIDE DEF code, last, mul, sum, g, b
<1>5. Formed(code, ProgramSize(op)) /\ BeginsAdding(code, b, g, "bit")
  BY <1>2, <1>3 DEF Formed, BeginsAdding
<1>6. EndsShaped(code, e, op, RequiredInputWires)
  <2> SUFFICES ASSUME NEW c \in e + 1 .. e + 3 PROVE code[c].kind = ProgramKind(op, c) /\ Reads(code[c], RequiredInputWires)
    BY <1>3 DEF EndsShaped
  <2>2. c = e + 1 \/ c = e + 2 \/ c = e + 3
    BY <1>3
  <2>3. CASE c = e + 2
    <3>1. code[c] = mul
      BY <1>2, <1>3, <2>3
    <3>2. ProgramKind(op, c) = "mulin"
      BY <1>1, <1>3, <2>3 DEF ProgramKind
    <3>. QED  BY <1>4, <3>1, <3>2, WiresRequired DEF Reads
  <2>4. CASE c = e + 1 \/ c = e + 3
    <3>1. code[c] = last \/ code[c] = sum
      BY <1>2, <1>3, <2>4
    <3>2. ProgramKind(op, c) = "lin"
      BY <1>1, <1>3, <2>4 DEF ProgramKind
    <3>. QED  BY <1>4, <3>1, <3>2 DEF Reads
  <2>. QED  BY <2>2, <2>3, <2>4
<1>7. op.name # "poly" /\ e = 4 * b + 1 /\ b = ProgramBits(op)
  BY <1>3
<1>8. AddWires("bit", b) \subseteq RequiredInputWires
  BY WiresRequired DEF b
<1> HIDE DEF e, b
<1>9. Shaped(code, op, RequiredInputWires)
  BY <1>3, <1>5, <1>6, <1>7, <1>8, AdderShaped
<1>. QED  BY <1>9 DEF Compile, code

LEMMA TruncShaped ==
  ASSUME HatCall, op.name = "trunc", NEW delta \in Int
  PROVE  Shaped(Compile(delta), op, RequiredInputWires)
<1> DEFINE b == QuotientBits
           e == 4 * b + 1
           g == TruncAddend(delta)
           load == Load(HighLimb)
           tail == TruncTail(delta)
           code == CompileTrunc(delta)
<1>1. b \in Nat
  BY HatFormat DEF QuotientBits
<1>2. code = [c \in 1 .. e + 2 |-> IF c <= e THEN BitAdd(b, g, TruncName)[c] ELSE IF c = e + 1 THEN load ELSE tail]
  BY <1>1, TruncCode
<1>3. ProgramBits(op) = b /\ ProgramSize(op) = e + 2 /\ e \in Nat
  <2>1. ProgramBits(op) = b
    BY HatFormat DEF ProgramBits, QuotientBits
  <2>. QED  BY <1>1, <2>1 DEF ProgramSize
<1>4. tail.kind = "lin" /\ load.kind = "load" /\ load.wire = HighLimb
  BY DEF Lin, Load, TruncTail
<1>5. AddWires(TruncName, b) \subseteq RequiredInputWires
  BY WiresRequired, HatFormat DEF QuotientBits, TruncName
<1> HIDE DEF code, tail, load, g, b
<1>6. Formed(code, ProgramSize(op)) /\ BeginsAdding(code, b, g, TruncName)
  BY <1>2, <1>3 DEF Formed, BeginsAdding
<1>7. EndsShaped(code, e, op, RequiredInputWires)
  <2> SUFFICES ASSUME NEW c \in e + 1 .. e + 2 PROVE code[c].kind = ProgramKind(op, c) /\ Reads(code[c], RequiredInputWires)
    BY <1>3 DEF EndsShaped
  <2>2. c = e + 1 \/ c = e + 2
    BY <1>3
  <2>3. CASE c = e + 1
    <3>1. code[c] = load
      BY <1>2, <1>3, <2>3
    <3>2. ProgramKind(op, c) = "load"
      BY <1>1, <1>3, <2>3 DEF ProgramKind
    <3>. QED  BY <1>4, <3>1, <3>2, WiresRequired DEF Reads
  <2>4. CASE c = e + 2
    <3>1. code[c] = tail
      BY <1>2, <1>3, <2>4
    <3>2. ProgramKind(op, c) = "lin"
      BY <1>1, <1>3, <2>4 DEF ProgramKind
    <3>. QED  BY <1>4, <3>1, <3>2 DEF Reads
  <2>. QED  BY <2>2, <2>3, <2>4
<1>8. op.name # "poly" /\ e = 4 * b + 1 /\ b = ProgramBits(op)
  BY <1>3
<1> HIDE DEF e, b
<1>9. Shaped(code, op, RequiredInputWires)
  BY <1>3, <1>5, <1>6, <1>7, <1>8, AdderShaped
<1>. QED  BY <1>9 DEF Compile, code

LEMMA PolyShaped ==
  ASSUME HatCall, op.name = "poly", NEW delta \in Int
  PROVE  Shaped(Compile(delta), op, RequiredInputWires)
<1> DEFINE code == CompilePoly(delta)
           n == 2 * (Len(op.coeffs) - 1) + 1
<1>1. ProgramSize(op) = n
  BY DEF ProgramSize
<1>2. code = [c \in 1 .. n |-> code[c]]
  BY DEF CompilePoly
<1>3. ASSUME NEW c \in 1 .. n
      PROVE  code[c].kind = ProgramKind(op, c) /\ Reads(code[c], RequiredInputWires)
  <2>1. \/ c = 1 /\ \E res : code[c] = Const(res)
        \/ c # 1 /\ c % 2 = 0 /\ \E cell : code[c] = MulIn(RWire, cell)
        \/ c # 1 /\ c % 2 # 0 /\ \E res, terms : code[c] = Lin(res, terms)
    <3>1. CASE c = 1
      BY <3>1 DEF CompilePoly
    <3>2. CASE c # 1 /\ c % 2 = 0
      BY <3>2 DEF CompilePoly
    <3>3. CASE c # 1 /\ c % 2 # 0
      BY <3>3 DEF CompilePoly
    <3>. QED  BY <3>1, <3>2, <3>3
  <2> HIDE DEF code, n
  <2>2. ProgramKind(op, c) = IF c = 1 THEN "const" ELSE IF c % 2 = 0 THEN "mulin" ELSE "lin"
    BY DEF ProgramKind
  <2>3. RWire \in RequiredInputWires
    BY WiresRequired
  <2>4. PICK y : y = code[c]
    OBVIOUS
  <2>5. /\ c = 1 => \E res : y = Const(res)
        /\ c # 1 /\ c % 2 = 0 => \E cell : y = MulIn(RWire, cell)
        /\ c # 1 /\ c % 2 # 0 => \E res, terms : y = Lin(res, terms)
    BY <2>1, <2>4
  <2>6. CASE c = 1
    <3>1. y.kind = "const"
      BY <2>5, <2>6 DEF Const
    <3>. QED  BY <2>2, <2>4, <2>6, <3>1 DEF Reads
  <2>7. CASE c # 1 /\ c % 2 = 0
    <3>1. y.kind = "mulin" /\ y.wire = RWire
      BY <2>5, <2>7 DEF MulIn
    <3>. QED  BY <2>2, <2>3, <2>4, <2>7, <3>1 DEF Reads
  <2>8. CASE c # 1 /\ c % 2 # 0
    <3>1. y.kind = "lin"
      BY <2>5, <2>8 DEF Lin
    <3>. QED  BY <2>2, <2>4, <2>8, <3>1 DEF Reads
  <2>. QED  BY <2>6, <2>7, <2>8
<1> HIDE DEF code, n
<1>4. Shaped(code, op, RequiredInputWires)
  BY <1>1, <1>2, <1>3 DEF Shaped
<1>. QED  BY <1>4 DEF Compile, code

LEMMA ProgramShaped ==
  ASSUME HatCall, NEW delta \in Int
  PROVE  Shaped(Compile(delta), op, RequiredInputWires)
<1>. QED  BY HatFormat, CmpShaped, ReluShaped, TruncShaped, PolyShaped

\* A machine that holds the inputs of a token runs every program of its operator.
LEMMA WiresHeld ==
  ASSUME HatCall, NEW delta \in Int, NEW r \in 0 .. modulus - 1
  PROVE  HasWires(Compile(delta), Inputs(r))
<1> DEFINE code == Compile(delta)
<1>1. code = [c \in 1 .. ProgramSize(op) |-> code[c]] /\ \A c \in 1 .. ProgramSize(op) : Reads(code[c], RequiredInputWires)
  BY ProgramShaped DEF Shaped
<1>2. \A w \in RequiredInputWires : w \in DOMAIN Inputs(r)
  BY InputsHeld
<1> HIDE DEF code
<1>3. HasWires(code, Inputs(r))
  BY <1>1, <1>2 DEF HasWires, Reads
<1>. QED  BY <1>3 DEF code

\* What is reported of a program, by its operator.
Counted(o, kind) == Cardinality({c \in 1 .. ProgramSize(o) : ProgramKind(o, c) = kind})
ReportOf(o) ==
  [program |-> ProgramSize(o), loads |-> Counted(o, "load"), mulins |-> Counted(o, "mulin"),
   linears |-> Counted(o, "lin"), consts |-> Counted(o, "const")]

LEMMA ProgramAudited ==
  ASSUME HatCall, NEW delta \in Int
  PROVE  Audit(Compile(delta)) = ReportOf(op) /\ \A kind : Count(Compile(delta), kind) = Counted(op, kind)
<1> DEFINE code == Compile(delta)
           n == ProgramSize(op)
<1>1. code = [c \in 1 .. n |-> code[c]] /\ \A c \in 1 .. n : code[c].kind = ProgramKind(op, c)
  BY ProgramShaped DEF Shaped
<1>2. n \in Nat
  BY SizeIs
<1> HIDE DEF code, n
<1>3. Len(code) = n /\ DOMAIN code = 1 .. n
  BY <1>1, <1>2
<1>4. ASSUME NEW kind PROVE Count(code, kind) = Counted(op, kind)
  <2>1. {i \in DOMAIN code : code[i].kind = kind} = {c \in 1 .. n : ProgramKind(op, c) = kind}
    BY <1>1, <1>3
  <2>. QED  BY <2>1 DEF Count, Counted, n
<1>. QED  BY <1>3, <1>4 DEF Audit, ReportOf, code, n

LEMMA LoadsCounted ==
  ASSUME NEW m \in Nat
  PROVE  Cardinality({c \in Nat : \E i \in 1 .. m : c = 4 * i - 2}) = m
<1> DEFINE T == {c \in Nat : \E i \in 1 .. m : c = 4 * i - 2}
           f == [i \in 1 .. m |-> 4 * i - 2]
<1>1. f \in [1 .. m -> T]
  OBVIOUS
<1>2. \A i, j \in 1 .. m : f[i] = f[j] => i = j
  OBVIOUS
<1>3. \A c \in T : \E i \in 1 .. m : f[i] = c
  OBVIOUS
<1> HIDE DEF f, T
<1>4. f \in Bijection(1 .. m, T)
  BY <1>1, <1>2, <1>3 DEF Bijection, Injection, Surjection, IsInjective
<1>5. ExistsBijection(1 .. m, T)
  BY <1>4 DEF ExistsBijection
<1>6. Cardinality(T) = m
  BY <1>5, FS_CountingElements
<1>. QED  BY <1>6 DEF T

LEMMA AddLoads ==
  ASSUME NEW b \in Nat, NEW c \in 1 .. 4 * b + 1
  PROVE  AddKind(c) = "load" <=> \E i \in 1 .. b : c = 4 * i - 2
<1>1. CASE c = 1
  <2>1. ~ \E i \in 1 .. b : c = 4 * i - 2
    BY <1>1
  <2>. QED  BY <1>1, <2>1 DEF AddKind
<1>2. CASE c # 1
  <2>1. (c - 2) % 4 = 0 <=> \E i \in 1 .. b : c = 4 * i - 2
    <3>1. ASSUME (c - 2) % 4 = 0 PROVE \E i \in 1 .. b : c = 4 * i - 2
      <4> DEFINE i == (c - 2) \div 4 + 1
      <4>1. i \in 1 .. b /\ c = 4 * i - 2
        BY <1>2, <3>1
      <4>. QED  BY <4>1
    <3>2. ASSUME NEW i \in 1 .. b, c = 4 * i - 2 PROVE (c - 2) % 4 = 0
      BY <3>2
    <3>. QED  BY <3>1, <3>2
  <2> DEFINE j == (c - 2) % 4
  <2> HIDE DEF j
  <2>2. AddKind(c) = IF j = 0 THEN "load" ELSE IF j = 1 THEN "mulin" ELSE "lin"
    BY <1>2 DEF AddKind, j
  <2>3. AddKind(c) = "load" <=> j = 0
    BY <2>2
  <2>. QED  BY <2>1, <2>3 DEF j
<1>. QED  BY <1>1, <1>2

\* The bits that are loaded, at every fourth instruction of the addition, are those
\* that the token accounts for; a quotient loads the high limb too.
LEMMA BitsLoaded ==
  ASSUME HatCall, NEW delta \in Int
  PROVE  AccountedBits = Count(Compile(delta), "load") - (IF op.name = "trunc" THEN 1 ELSE 0)
<1> DEFINE b == ProgramBits(op)
           n == ProgramSize(op)
           m == IF op.name = "poly" THEN 0 ELSE IF op.name = "trunc" THEN b + 1 ELSE b
           T == {c \in Nat : \E i \in 1 .. m : c = 4 * i - 2}
           L == {c \in 1 .. n : ProgramKind(op, c) = "load"}
<1>1. b \in Nat
  BY SizeIs
<1>2. AccountedBits = IF op.name = "poly" THEN 0 ELSE b
  <2>1. op.name \in {"cmp", "relu", "maxpool", "trunc", "poly"} /\ op.signed \in BOOLEAN /\ op.shift \in Nat /\ op.bitwidth \in Nat
    BY HatFormat
  <2>2. op.name = "trunc" /\ op.signed => (op.bitwidth - op.shift) + op.shift = op.bitwidth
    BY <2>1
  <2>. QED  BY <2>1, <2>2 DEF AccountedBits, ProgramBits
<1>3. n \in Nat /\ (op.name # "poly" => n = 4 * b + 1 + (IF op.name = "cmp" THEN 1 ELSE IF op.name = "trunc" THEN 2 ELSE 3))
  BY SizeIs
<1>4. m \in Nat /\ AccountedBits = m - (IF op.name = "trunc" THEN 1 ELSE 0)
  <2> HIDE DEF b
  <2>1. op.name # "poly" \/ op.name # "trunc"
    OBVIOUS
  <2>. QED  BY <1>1, <1>2, <2>1
<1> HIDE DEF n, b
<1>5. L = T
  <2>1. CASE op.name = "poly"
    <3>1. \A c \in 1 .. n : ProgramKind(op, c) # "load"
      BY <2>1 DEF ProgramKind
    <3>2. T = {}
      BY <2>1
    <3>. QED  BY <3>1, <3>2
  <2>2. CASE op.name # "poly" /\ op.name # "trunc"
    <3>1. \A c \in 1 .. n : ProgramKind(op, c) = "load" <=> c <= 4 * b + 1 /\ AddKind(c) = "load"
      BY <2>2 DEF ProgramKind, b
    <3>2. m = b
      BY <2>2
    <3>3. \A c \in Nat : (\E i \in 1 .. b : c = 4 * i - 2) => c \in 1 .. 4 * b + 1
      BY <1>1
    <3>4. \A c \in 1 .. 4 * b + 1 : AddKind(c) = "load" <=> \E i \in 1 .. b : c = 4 * i - 2
      BY <1>1, AddLoads
    <3>5. \A c \in Nat : c \in 1 .. n /\ c <= 4 * b + 1 <=> c \in 1 .. 4 * b + 1
      BY <1>1, <1>3, <2>2
    <3> HIDE DEF m
    <3>. QED  BY <3>1, <3>2, <3>3, <3>4, <3>5
  <2>3. CASE op.name = "trunc"
    <3>1. \A c \in 1 .. n : ProgramKind(op, c) = "load" <=> (c <= 4 * b + 1 /\ AddKind(c) = "load") \/ (~(c <= 4 * b + 1) /\ c = 4 * b + 2)
      BY <2>3 DEF ProgramKind, b
    <3>2. m = b + 1
      BY <2>3
    <3>3. \A c \in Nat : (\E i \in 1 .. b + 1 : c = 4 * i - 2) <=> (\E i \in 1 .. b : c = 4 * i - 2) \/ c = 4 * b + 2
      BY <1>1
    <3>4. \A c \in 1 .. 4 * b + 1 : AddKind(c) = "load" <=> \E i \in 1 .. b : c = 4 * i - 2
      BY <1>1, AddLoads
    <3>5. \A c \in Nat : (\E i \in 1 .. b : c = 4 * i - 2) => c \in 1 .. 4 * b + 1
      BY <1>1
    <3>6. \A c \in Nat : (c \in 1 .. n /\ c <= 4 * b + 1 <=> c \in 1 .. 4 * b + 1) /\ (c = 4 * b + 2 => c \in 1 .. n /\ ~(c <= 4 * b + 1))
      BY <1>1, <1>3, <2>3
    <3> HIDE DEF m
    <3>. QED  BY <3>1, <3>2, <3>3, <3>4, <3>5, <3>6
  <2>. QED  BY <2>1, <2>2, <2>3
<1>6. Cardinality(T) = m
  <2> HIDE DEF m
  <2>. QED  BY <1>4, LoadsCounted
<1>7. Count(Compile(delta), "load") = Cardinality(L)
  BY ProgramAudited DEF Counted, n
<1> HIDE DEF m, L, T
<1>. QED  BY <1>4, <1>5, <1>6, <1>7

-----------------------------------------------------------------------------
(* A token computes its function once.                                     *)

\* The token holds the parts of masks that are numbers of the machine.
TokenInv ==
  /\ op \in Tokens /\ token.status \in {"none", "refused", "ready"}
  /\ token.status = "none" => token = NoToken
  /\ token.status = "ready" =>
       /\ Acceptable /\ token.consumed \in BOOLEAN
       /\ token = [status |-> "ready", consumed |-> token.consumed, masks |-> token.masks, inputs |-> token.inputs]
       /\ \A i \in 1 .. op.batch : token.masks[i] \in 0 .. modulus - 1 /\ token.inputs[i] = Inputs(token.masks[i])

\* A difference was opened for each failure, and one for the call that consumed the token.
OpenedInv ==
  /\ opened \in Nat /\ failed \in Nat
  /\ token.status # "ready" => opened = 0 /\ failed = 0
  /\ token.status = "ready" => opened = failed + (IF token.consumed THEN 1 ELSE 0)

\* No call lacks an input, and one that was answered got the function of its arguments.
ReturnedInv ==
  /\ outcome.status \in {"none", "refused", "failed", "done"}
  /\ outcome.status = "done" =>
       /\ token.status = "ready"
       /\ outcome.lhs \in [1 .. op.batch -> Int] /\ outcome.rhs \in [1 .. op.batch -> Int]
       /\ DOMAIN outcome.values = 1 .. op.batch
       /\ outcome.report = ReportOf(op)
       /\ op.name # "poly" =>
            \A i \in 1 .. op.batch : outcome.values[i] = InClear(i, outcome.lhs, outcome.rhs)

HatInv == TokenInv /\ OpenedInv /\ ReturnedInv

\* The function in the clear, and the parts of a mask, are those of the operator,
\* which no step changes.
LEMMA ClearStays ==
  ASSUME NEW i, NEW lhs, NEW rhs, op' = op, token'.masks = token.masks, op.name # "poly"
  PROVE  InClear(i, lhs, rhs)' = InClear(i, lhs, rhs)
<1>. QED  BY DEF InClear, Difference, SignedWord, DecodeSigned, Mod, modulus

LEMMA InputsStay ==
  ASSUME NEW r, op' = op
  PROVE  Inputs(r)' = Inputs(r) /\ modulus' = modulus /\ Acceptable' = Acceptable
<1>1. Inputs(r)' = Inputs(r)
  BY DEF Inputs, RequiredInputWires, LocalWires, BitWires, WireValue, LimbShift, Mod, modulus, RWire, HighLimb, BitOf
<1>2. modulus' = modulus
  BY DEF modulus
<1>3. Acceptable' = Acceptable
  BY DEF Acceptable
<1>. QED  BY <1>1, <1>2, <1>3

LEMMA HatBegins ==
  ASSUME HatInit
  PROVE  HatInv
<1>1. token.status = "none" /\ outcome.status = "none"
  BY DEF HatInit, NoToken
<1>. QED  BY <1>1 DEF HatInit, HatInv, TokenInv, OpenedInv, ReturnedInv

\* A token that stays as it was, or is only consumed.
LEMMA TokenKept ==
  ASSUME TokenInv, op' = op, token' = token \/ (token.status = "ready" /\ \E c \in BOOLEAN : token' = [token EXCEPT !.consumed = c])
  PROVE  TokenInv' /\ token'.status = token.status /\ (token.status = "ready" => token'.masks = token.masks)
<1>1. CASE token' = token
  BY <1>1, InputsStay DEF TokenInv
<1>2. CASE token.status = "ready" /\ \E c \in BOOLEAN : token' = [token EXCEPT !.consumed = c]
  <2>1. PICK c \in BOOLEAN : token' = [token EXCEPT !.consumed = c]
    BY <1>2
  <2>2. token = [status |-> "ready", consumed |-> token.consumed, masks |-> token.masks, inputs |-> token.inputs]
    BY <1>2 DEF TokenInv
  <2>3. /\ token'.status = "ready" /\ token'.consumed = c /\ token'.masks = token.masks /\ token'.inputs = token.inputs
        /\ token' = [status |-> "ready", consumed |-> c, masks |-> token.masks, inputs |-> token.inputs]
    BY <2>1, <2>2
  <2>4. Acceptable' /\ modulus' = modulus
    BY <1>2, InputsStay DEF TokenInv
  <2>5. \A i \in 1 .. op.batch : token.inputs[i] = Inputs(token.masks[i])'
    BY <1>2, <2>3, InputsStay DEF TokenInv
  <2>. QED  BY <1>2, <2>3, <2>4, <2>5 DEF TokenInv
<1>. QED  BY <1>1, <1>2

LEMMA PrepKeeps ==
  ASSUME HatInv, PrepToken
  PROVE  HatInv'
<1>1. op' = op /\ opened' = opened /\ failed' = failed /\ outcome' = outcome /\ token = NoToken
  BY DEF PrepToken
<1>2. PICK masks \in [1 .. op.batch -> op.masks] :
        token' = IF Acceptable
                 THEN [status |-> "ready", consumed |-> FALSE, masks |-> [i \in DOMAIN masks |-> Mod(masks[i])],
                       inputs |-> [i \in DOMAIN masks |-> Inputs(Mod(masks[i]))]]
                 ELSE [status |-> "refused"]
  BY DEF PrepToken
<1>3. opened = 0 /\ failed = 0 /\ op \in Tokens /\ token.status = "none"
  BY <1>1 DEF HatInv, OpenedInv, TokenInv, NoToken
<1>4. ReturnedInv'
  BY <1>1, <1>3 DEF HatInv, ReturnedInv
<1>5. CASE Acceptable
  <2> DEFINE words == [i \in DOMAIN masks |-> Mod(masks[i])]
             parts == [i \in DOMAIN masks |-> Inputs(Mod(masks[i]))]
  <2>1. token' = [status |-> "ready", consumed |-> FALSE, masks |-> words, inputs |-> parts]
    BY <1>2, <1>5
  <2>2. ASSUME NEW i \in 1 .. op.batch PROVE words[i] \in 0 .. modulus - 1 /\ parts[i] = Inputs(words[i])
    <3>1. masks[i] \in Int /\ HatCall
      BY <1>3, <1>5, TokensAssumption DEF HatCall
    <3>2. Mod(masks[i]) \in 0 .. modulus - 1
      BY <3>1, ModIs
    <3>. QED  BY <3>2
  <2> HIDE DEF words, parts
  <2>3. /\ token'.status = "ready" /\ token'.consumed = FALSE /\ token'.masks = words /\ token'.inputs = parts
        /\ Acceptable' /\ modulus' = modulus
    BY <1>1, <1>5, <2>1, InputsStay
  <2>4. \A i \in 1 .. op.batch : parts[i] = Inputs(token.masks[i])'
    BY <1>1, <2>2, <2>3, InputsStay
  <2>5. TokenInv'
    BY <1>1, <1>3, <2>1, <2>2, <2>3, <2>4 DEF TokenInv
  <2>6. OpenedInv'
    BY <1>1, <1>3, <2>3 DEF OpenedInv
  <2>. QED  BY <1>4, <2>5, <2>6 DEF HatInv
<1>6. CASE ~Acceptable
  <2>1. token'.status = "refused"
    BY <1>2, <1>6
  <2>. QED  BY <1>1, <1>3, <1>4, <2>1 DEF HatInv, TokenInv, OpenedInv
<1>. QED  BY <1>5, <1>6

LEMMA RefuseKeeps ==
  ASSUME HatInv, NEW name, NEW len, RefuseToken(name, len)
  PROVE  HatInv'
<1>1. op' = op /\ token' = token /\ opened' = opened /\ failed' = failed /\ outcome'.status = "refused"
  BY DEF RefuseToken, Present
<1>2. TokenInv'
  BY <1>1, TokenKept DEF HatInv
<1>. QED  BY <1>1, <1>2 DEF HatInv, OpenedInv, ReturnedInv

LEMMA FailKeeps ==
  ASSUME HatInv, NEW lhs, NEW rhs, EngineFails(lhs, rhs)
  PROVE  HatInv'
<1>1. /\ op' = op /\ token' = token /\ opened' = opened + 1 /\ failed' = failed + 1 /\ outcome'.status = "failed"
      /\ token.status = "ready" /\ ~token.consumed
  BY DEF EngineFails, Present
<1>2. TokenInv'
  BY <1>1, TokenKept DEF HatInv
<1>3. OpenedInv'
  BY <1>1 DEF HatInv, OpenedInv
<1>. QED  BY <1>1, <1>2, <1>3 DEF HatInv, ReturnedInv

LEMMA EvaluateKeeps ==
  ASSUME HatInv, NEW lhs \in [1 .. op.batch -> op.operands], NEW rhs \in [1 .. op.batch -> op.operands], Evaluate(lhs, rhs)
  PROVE  HatInv'
<1>1. /\ op' = op /\ opened' = opened + 1 /\ failed' = failed /\ token.status = "ready" /\ ~token.consumed
      /\ token' = [token EXCEPT !.consumed = (outcome'.status = "done")]
      /\ op.name # "maxpool" => \A i \in DOMAIN rhs : rhs[i] = 0
  BY DEF Evaluate, Present
<1>2. HatCall /\ lhs \in [1 .. op.batch -> Int] /\ rhs \in [1 .. op.batch -> Int]
  BY <1>1, TokensAssumption DEF HatInv, TokenInv, HatCall
<1>3. ASSUME NEW i \in 1 .. op.batch
      PROVE  SlotCall(i, lhs, rhs) /\ HasWires(Compile(Delta(i, lhs, rhs)), token.inputs[i])
  <2>1. SlotCall(i, lhs, rhs)
    BY <1>1, <1>2 DEF HatInv, TokenInv, SlotCall
  <2> DEFINE delta == Delta(i, lhs, rhs)
             x == lhs[i] - rhs[i] - token.masks[i]
  <2>2. x \in Int
    <3>1. modulus \in Nat
      BY <1>2, HatFormat
    <3>. QED  BY <1>2, <2>1, <3>1 DEF SlotCall
  <2> HIDE DEF x
  <2>3. Mod(x) \in Int
    BY <1>2, <2>2, ModIs
  <2>4. delta \in Int
    BY <2>3 DEF Delta, x
  <2> HIDE DEF delta
  <2>5. HasWires(Compile(delta), Inputs(token.masks[i]))
    BY <1>2, <2>1, <2>4, WiresHeld DEF SlotCall
  <2>. QED  BY <2>1, <2>5 DEF SlotCall, delta
<1>4. outcome' = [status |-> "done", lhs |-> lhs, rhs |-> rhs,
                  values |-> [i \in DOMAIN lhs |-> Result(i, lhs, rhs)], report |-> Audit(Compile(0))]
  <2>1. \A i \in DOMAIN lhs : HasWires(Compile(Delta(i, lhs, rhs)), token.inputs[i])
    BY <1>3
  <2>. QED  BY <2>1 DEF Evaluate
<1> DEFINE values == [i \in DOMAIN lhs |-> Result(i, lhs, rhs)]
<1>5. DOMAIN values = 1 .. op.batch /\ \A i \in 1 .. op.batch : values[i] = Result(i, lhs, rhs)
  OBVIOUS
<1>6. Audit(Compile(0)) = ReportOf(op)
  <2>1. 0 \in Int
    OBVIOUS
  <2>. QED  BY <1>2, <2>1, ProgramAudited
<1>7. op.name # "poly" => \A i \in 1 .. op.batch : values[i] = InClear(i, lhs, rhs)
  BY <1>3, <1>5, ResultsAre
<1> HIDE DEF values
<1>8. /\ outcome'.status = "done" /\ outcome'.lhs = lhs /\ outcome'.rhs = rhs /\ outcome'.values = values
      /\ outcome'.report = ReportOf(op)
  BY <1>4, <1>6 DEF values
<1>9. TokenInv' /\ token'.status = "ready" /\ token'.masks = token.masks
  <2>1. token' = [token EXCEPT !.consumed = TRUE] /\ TRUE \in BOOLEAN
    BY <1>1, <1>8
  <2>. QED  BY <1>1, <2>1, TokenKept DEF HatInv
<1>10. OpenedInv'
  <2>1. token'.consumed
    BY <1>1, <1>8 DEF HatInv, TokenInv
  <2>. QED  BY <1>1, <1>9, <2>1 DEF HatInv, OpenedInv
<1>11. op.name # "poly" => \A i \in 1 .. op.batch : values[i] = InClear(i, outcome.lhs, outcome.rhs)'
  BY <1>1, <1>7, <1>8, <1>9, ClearStays
<1>12. ReturnedInv'
  BY <1>1, <1>2, <1>5, <1>8, <1>9, <1>11 DEF ReturnedInv
<1>. QED  BY <1>9, <1>10, <1>12 DEF HatInv

LEMMA HatStutters ==
  ASSUME HatInv, UNCHANGED hatVars
  PROVE  HatInv'
<1>1. op' = op /\ token' = token /\ opened' = opened /\ failed' = failed /\ outcome' = outcome
  BY DEF hatVars
<1>2. TokenInv' /\ OpenedInv'
  BY <1>1, TokenKept DEF HatInv, OpenedInv
<1>3. outcome.status = "done" /\ op.name # "poly" =>
        \A i \in 1 .. op.batch : outcome.values[i] = InClear(i, outcome.lhs, outcome.rhs)'
  BY <1>1, ClearStays DEF HatInv, ReturnedInv
<1>4. ReturnedInv'
  BY <1>1, <1>3 DEF HatInv, ReturnedInv
<1>. QED  BY <1>2, <1>4 DEF HatInv

LEMMA HatPromises ==
  ASSUME HatInv
  PROVE  TokenComputesOnce
<1>1. MaskOpensOnce
  <2>1. opened \in Nat /\ failed \in Nat /\ (token.status = "ready" \/ opened = 0)
    BY DEF HatInv, OpenedInv
  <2>2. token.status = "ready" => opened = failed + (IF token.consumed THEN 1 ELSE 0)
    BY DEF HatInv, OpenedInv
  <2>. QED  BY <2>1, <2>2 DEF MaskOpensOnce
<1>2. ComputesFunction
  BY DEF HatInv, ReturnedInv, ComputesFunction
<1>3. ReadsWhatIsHeld
  <2>1. outcome.status # "missing wire"
    BY DEF HatInv, ReturnedInv
  <2>2. ASSUME outcome.status = "done", NEW i \in DOMAIN outcome.values
        PROVE  LET code == Compile(Delta(i, outcome.lhs, outcome.rhs))
               IN  /\ Audit(code) = outcome.report
                   /\ AccountedBits = Count(code, "load") - (IF op.name = "trunc" THEN 1 ELSE 0)
    <3> DEFINE x == outcome.lhs[i] - outcome.rhs[i] - token.masks[i]
               delta == Delta(i, outcome.lhs, outcome.rhs)
    <3>1. /\ HatCall /\ i \in 1 .. op.batch /\ outcome.report = ReportOf(op)
          /\ outcome.lhs[i] \in Int /\ outcome.rhs[i] \in Int /\ token.masks[i] \in 0 .. modulus - 1
      BY <2>2 DEF HatInv, ReturnedInv, TokenInv, HatCall
    <3>2. x \in Int
      <4>1. modulus \in Nat
        BY <3>1, HatFormat
      <4>. QED  BY <3>1, <4>1
    <3> HIDE DEF x
    <3>3. Mod(x) \in Int
      BY <3>1, <3>2, ModIs
    <3>4. delta \in Int
      BY <3>3 DEF Delta, x
    <3> HIDE DEF delta
    <3>5. Audit(Compile(delta)) = ReportOf(op)
      BY <3>1, <3>4, ProgramAudited
    <3>6. AccountedBits = Count(Compile(delta), "load") - (IF op.name = "trunc" THEN 1 ELSE 0)
      BY <3>1, <3>4, BitsLoaded
    <3>. QED  BY <3>1, <3>5, <3>6 DEF delta
  <2>. QED  BY <2>1, <2>2 DEF ReadsWhatIsHeld
<1>. QED  BY <1>1, <1>2, <1>3 DEF TokenComputesOnce

\* For every operator, width, shift, threshold and mask, and any sequence of calls,
\* refusals and failures of the engine: a token opens one difference more than the
\* engine failed at most, every program finds the inputs it reads and is of the
\* size that is reported, and comparison, maximum and quotient are those of the
\* number in the clear.
THEOREM TokensComputeOnce == HatSpec => []TokenComputesOnce
<1>1. HatInit => HatInv
  BY HatBegins
<1>2. HatInv /\ [HatNext]_hatVars => HatInv'
  <2> SUFFICES ASSUME HatInv, [HatNext]_hatVars PROVE HatInv'
    OBVIOUS
  <2>1. CASE PrepToken
    BY <2>1, PrepKeeps
  <2>2. ASSUME NEW name \in Names, NEW len \in {1, 2}, RefuseToken(name, len) PROVE HatInv'
    BY <2>2, RefuseKeeps
  <2>3. ASSUME NEW lhs \in [1 .. op.batch -> op.operands], NEW rhs \in [1 .. op.batch -> op.operands],
               Evaluate(lhs, rhs)
        PROVE  HatInv'
    BY <2>3, EvaluateKeeps
  <2>4. ASSUME NEW lhs \in [1 .. op.batch -> op.operands], NEW rhs \in [1 .. op.batch -> op.operands],
               EngineFails(lhs, rhs)
        PROVE  HatInv'
    BY <2>4, FailKeeps
  <2>5. CASE UNCHANGED hatVars
    BY <2>5, HatStutters
  <2>. QED  BY <2>1, <2>2, <2>3, <2>4, <2>5 DEF HatNext
<1>3. HatInv => TokenComputesOnce
  BY HatPromises
<1>. QED  BY <1>1, <1>2, <1>3, PTL DEF HatSpec
=============================================================================
