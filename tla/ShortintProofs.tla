--------------------------- MODULE ShortintProofs ---------------------------
(***************************************************************************)
(* Short integers: for every parameter set, any number of ciphertexts and  *)
(* of calls, every clear factor and each table, a ciphertext decrypts to   *)
(* what the calls make of the messages.                                    *)
(*                                                                         *)
(* The invariant is about one ciphertext at a time: its plaintext is       *)
(* within its degree, which is below the padding bit, and congruent to its *)
(* meaning modulo the message modulus.  Each operator of the model keeps   *)
(* it, the operators of a call are composed of these, and what a call      *)
(* records of its operands is what the invariant needs of them.            *)
(***************************************************************************)
EXTENDS Shortint, TLAPS

LEMMA Division ==
  ASSUME NEW a \in Int, NEW m \in Nat, m > 0
  PROVE  a \div m \in Int /\ a % m \in 0 .. m - 1 /\ a = m * (a \div m) + (a % m)
<1> DEFINE k == a \div m
           r == a % m
<1>1. k \in Int /\ r \in 0 .. m - 1
  OBVIOUS
<1>2. a - m * k = r
  BY SMT
<1> HIDE DEF k, r
<1>3. a = m * k + r
  BY <1>1, <1>2
<1>. QED  BY <1>1, <1>3 DEF k, r

LEMMA QuotientIs ==
  ASSUME NEW a \in Int, NEW m \in Nat, m > 0, NEW k \in Int, NEW r \in 0 .. m - 1, a = m * k + r
  PROVE  a \div m = k /\ a % m = r
<1>. QED  BY SMT

Congruent(a, b, m) == \E k \in Int : a = b + m * k

\* Multiples of the modulus do not change a remainder.
LEMMA CongruentSame ==
  ASSUME NEW a \in Int, NEW b \in Int, NEW m \in Nat, m > 0, Congruent(a, b, m)
  PROVE  a % m = b % m
<1>1. PICK k \in Int : a = b + m * k
  BY DEF Congruent
<1> DEFINE l == b \div m
           r == b % m
<1>2. l \in Int /\ r \in 0 .. m - 1 /\ b = m * l + r
  BY Division
<1> HIDE DEF l, r
<1>3. l + k \in Int /\ m * (l + k) = m * l + m * k
  BY <1>2
<1>4. a = m * (l + k) + r
  BY <1>1, <1>2, <1>3
<1>5. a % m = r
  BY <1>2, <1>3, <1>4, QuotientIs
<1>. QED  BY <1>5 DEF r

LEMMA Remainders ==
  ASSUME NEW x \in Int, NEW y \in Int, NEW m \in Nat, m > 0
  PROVE  /\ (x + y) % m = ((x % m) + (y % m)) % m
         /\ (x - y) % m = ((x % m) - (y % m)) % m
         /\ (x * y) % m = ((x % m) * y) % m
<1> DEFINE i == x \div m
           r == x % m
           j == y \div m
           s == y % m
<1>1. i \in Int /\ r \in 0 .. m - 1 /\ x = m * i + r /\ j \in Int /\ s \in 0 .. m - 1 /\ y = m * j + s
  BY Division
<1> HIDE DEF i, r, j, s
<1>2. /\ i + j \in Int /\ i - j \in Int /\ i * y \in Int
      /\ m * (i + j) = m * i + m * j /\ m * (i - j) = m * i - m * j
      /\ (m * i + r) * y = m * (i * y) + r * y
  BY <1>1
<1>3. /\ x + y = (r + s) + m * (i + j) /\ x + y \in Int /\ r + s \in Int
      /\ x - y = (r - s) + m * (i - j) /\ x - y \in Int /\ r - s \in Int
  BY <1>1, <1>2
<1>4. x * y = r * y + m * (i * y) /\ x * y \in Int /\ r * y \in Int
  BY <1>1, <1>2
<1>5. Congruent(x + y, r + s, m) /\ Congruent(x - y, r - s, m) /\ Congruent(x * y, r * y, m)
  BY <1>2, <1>3, <1>4 DEF Congruent
<1>6. (x + y) % m = (r + s) % m /\ (x - y) % m = (r - s) % m
  BY <1>3, <1>5, CongruentSame
<1>7. (x * y) % m = (r * y) % m
  <2> DEFINE a == x * y
             b == r * y
  <2>1. a \in Int /\ b \in Int /\ Congruent(a, b, m)
    BY <1>4, <1>5
  <2> HIDE DEF a, b
  <2>2. a % m = b % m
    BY <2>1, CongruentSame
  <2>. QED  BY <2>2 DEF a, b
<1>. QED  BY <1>6, <1>7 DEF r, s
-----------------------------------------------------------------------------
(* Ciphertexts.                                                            *)

Ciphertexts == [plain : 0 .. Padded - 1, degree : 0 .. MaxDegree, noise : 1 .. MaxNoise]

\* ct stands for the message m.
Stands(ct, m) == ct.plain <= ct.degree /\ ct.plain % mm = m

Chosen == params \in ParameterSets

LEMMA Sizes ==
  ASSUME Chosen
  PROVE  /\ mm \in Nat /\ mm >= 2 /\ cm \in Nat /\ cm >= 1
         /\ TotalModulus \in Nat /\ TotalModulus >= mm /\ TotalModulus = mm * cm
         /\ Padded \in Nat /\ Padded = TotalModulus + TotalModulus
         /\ MaxDegree \in Nat /\ MaxDegree = TotalModulus - 1
         /\ MaxNoise \in Nat /\ MaxNoise >= 1
<1>1. mm \in Nat /\ mm >= 2 /\ cm \in Nat /\ cm >= 1
  BY ParametersAssumption DEF Chosen, mm, cm
<1>2. mm * cm \in Nat /\ mm * cm >= mm /\ cm * mm = mm * cm
  <2>1. PICK c \in Nat : cm = c + 1
    <3>1. cm - 1 \in Nat /\ cm = (cm - 1) + 1
      BY <1>1
    <3>. QED  BY <3>1
  <2>2. mm * cm = mm * c + mm /\ mm * c \in Nat /\ cm * mm = mm * cm
    BY <1>1, <2>1
  <2>. QED  BY <1>1, <2>2
<1>3. TotalModulus \in Nat /\ TotalModulus = mm * cm /\ TotalModulus >= mm
  BY <1>2 DEF TotalModulus
<1>4. Padded \in Nat /\ Padded = TotalModulus + TotalModulus
  BY <1>3 DEF Padded
<1>5. MaxDegree = TotalModulus - 1 /\ MaxDegree \in Nat
  BY <1>1, <1>3 DEF MaxDegree
<1>6. MaxNoise \in Nat /\ MaxNoise >= 1
  <2> DEFINE a == cm * mm - 1
             n == mm - 1
             q == a \div n
             r == a % n
  <2>1. a \in Int /\ n \in Nat /\ n > 0 /\ a >= n
    BY <1>1, <1>2
  <2>2. MaxNoise = q
    BY DEF MaxNoise
  <2> HIDE DEF a, n
  <2>3. q \in Int /\ r \in 0 .. n - 1 /\ a = n * q + r
    BY <2>1, Division
  <2> HIDE DEF q, r
  <2>4. ASSUME q <= 0 PROVE FALSE
    <3>1. PICK k \in Nat : q = 0 - k
      <4>1. 0 - q \in Nat /\ q = 0 - (0 - q)
        BY <2>3, <2>4
      <4>. QED  BY <4>1
    <3>2. n * q = 0 - n * k /\ n * k \in Nat
      BY <2>1, <3>1
    <3>. QED  BY <2>1, <2>3, <3>2
  <2>. QED  BY <2>2, <2>3, <2>4
<1>. QED  BY <1>1, <1>3, <1>4, <1>5, <1>6

\* Below the padding bit, a plaintext is what it decrypts to.
LEMMA Decrypts ==
  ASSUME Chosen, NEW ct \in Ciphertexts, NEW m, Stands(ct, m)
  PROVE  /\ ct.plain \in Nat /\ ct.plain < TotalModulus /\ DecryptFull(ct) = ct.plain
         /\ Decrypt(ct) = m
         /\ m \in 0 .. mm - 1
<1>1. ct.plain \in Nat /\ ct.degree \in 0 .. MaxDegree /\ ct.plain <= ct.degree /\ ct.plain % mm = m
  BY Sizes DEF Ciphertexts, Stands
<1>2. ct.plain < TotalModulus /\ TotalModulus \in Nat
  BY <1>1, Sizes
<1> DEFINE v == ct.plain
<1>3. v \in Nat /\ v < TotalModulus
  BY <1>1, <1>2
<1> HIDE DEF v
<1>4. v % TotalModulus = v
  BY <1>2, <1>3
<1>5. v % mm \in 0 .. mm - 1
  BY <1>3, Sizes
<1>. QED  BY <1>1, <1>3, <1>4, <1>5 DEF DecryptFull, Decrypt, v

\* Decryption reads modulo the message modulus, padded or not.
LEMMA DecryptsPlain ==
  ASSUME Chosen, NEW ct, ct.plain \in Nat
  PROVE  Decrypt(ct) = ct.plain % mm
<1>1. PICK v \in Nat : v = ct.plain
  OBVIOUS
<1>2. mm \in Nat /\ mm > 0 /\ cm \in Nat /\ TotalModulus \in Nat /\ TotalModulus > 0 /\ TotalModulus = mm * cm
  BY Sizes
<1>3. PICK k \in Int, w \in Nat : v = TotalModulus * k + w /\ w = v % TotalModulus
  <2>1. v \div TotalModulus \in Int /\ v % TotalModulus \in 0 .. TotalModulus - 1
        /\ v = TotalModulus * (v \div TotalModulus) + (v % TotalModulus)
    BY <1>2, Division
  <2>2. v % TotalModulus \in Nat
    BY <1>2, <2>1
  <2>. QED  BY <2>1, <2>2
<1>4. cm * k \in Int /\ v = w + mm * (cm * k)
  <2>1. cm * k \in Int /\ (mm * cm) * k = mm * (cm * k)
    BY <1>2
  <2>2. v = (mm * cm) * k + w
    BY <1>2, <1>3
  <2>3. PICK n \in Int : n = (mm * cm) * k /\ n = mm * (cm * k)
    <3>1. (mm * cm) * k \in Int
      BY <1>2
    <3>. QED  BY <2>1, <3>1
  <2>4. v = n + w
    BY <2>2, <2>3
  <2>5. v = w + n
    BY <1>3, <2>3, <2>4
  <2>. QED  BY <2>1, <2>3, <2>5
<1>5. Congruent(v, w, mm)
  BY <1>4 DEF Congruent
<1>6. v % mm = w % mm
  BY <1>2, <1>3, <1>5, CongruentSame
<1>. QED  BY <1>1, <1>3, <1>6 DEF Decrypt, DecryptFull

LEMMA Freshly ==
  ASSUME Chosen, NEW v \in 0 .. Padded - 1
  PROVE  /\ Fresh(v) \in Ciphertexts
         /\ v < mm => Stands(Fresh(v), v)
<1>1. Fresh(v) = [plain |-> v, degree |-> mm - 1, noise |-> 1]
  BY DEF Fresh, Nominal
<1>2. mm - 1 \in 0 .. MaxDegree /\ 1 \in 1 .. MaxNoise /\ mm \in Nat /\ Padded \in Nat
  BY Sizes
<1>3. v < mm => v <= mm - 1 /\ v % mm = v
  BY <1>2
<1>. QED  BY <1>1, <1>2, <1>3 DEF Ciphertexts, Stands

LEMMA Bootstraps ==
  ASSUME Chosen, NEW ct \in Ciphertexts, NEW table \in [0 .. TotalModulus - 1 -> 0 .. TotalModulus - 1]
  PROVE  /\ Bootstrapped(ct, table) \in Ciphertexts
         /\ ct.plain < TotalModulus /\ table[ct.plain] < mm => Stands(Bootstrapped(ct, table), table[ct.plain])
<1> DEFINE v == ct.plain
           w == LookedUp(v, table)
<1>1. v \in 0 .. Padded - 1
  BY DEF Ciphertexts
<1>2. Bootstrapped(ct, table) = Fresh(w)
  BY DEF Bootstrapped
<1> HIDE DEF v
<1>3. w \in 0 .. Padded - 1 /\ (v < TotalModulus => w = table[v] /\ table[v] \in Nat)
  <2>1. CASE v < TotalModulus
    <3>1. v \in 0 .. TotalModulus - 1
      BY <1>1, <2>1, Sizes
    <3>2. table[v] \in 0 .. TotalModulus - 1 /\ w = table[v]
      BY <2>1, <3>1 DEF LookedUp
    <3> DEFINE u == table[v]
    <3> HIDE DEF u, w
    <3>3. u \in 0 .. TotalModulus - 1 /\ w = u
      BY <3>2 DEF u
    <3>4. w \in 0 .. Padded - 1 /\ u \in Nat
      BY <3>3, Sizes
    <3>. QED  BY <3>2, <3>4 DEF u
  <2>2. CASE ~(v < TotalModulus)
    <3>1. v - TotalModulus \in 0 .. TotalModulus - 1
      <4>1. PICK t \in Nat : t = TotalModulus /\ Padded = t + t
        BY Sizes
      <4>2. v \in 0 .. t + t - 1 /\ ~(v < t)
        BY <1>1, <2>2, <4>1
      <4>3. v - t \in 0 .. t - 1
        BY <4>2
      <4>. QED  BY <4>1, <4>3
    <3> DEFINE u == table[v - TotalModulus]
    <3>2. u \in 0 .. TotalModulus - 1
      BY <3>1
    <3>3. w = (Padded - u) % Padded
      BY <2>2 DEF LookedUp
    <3> HIDE DEF u, w
    <3>4. Padded - u \in Int /\ Padded \in Nat /\ Padded > 0
      BY <3>2, Sizes
    <3>. QED  BY <2>2, <3>3, <3>4
  <2>. QED  BY <2>1, <2>2
<1> HIDE DEF w
<1>4. Fresh(w) \in Ciphertexts /\ (w < mm => Stands(Fresh(w), w))
  BY <1>3, Freshly
<1>. QED  BY <1>2, <1>3, <1>4 DEF v

LEMMA Extracts ==
  ASSUME Chosen, NEW ct \in Ciphertexts
  PROVE  /\ MessageExtract(ct) \in Ciphertexts
         /\ MessageExtract(ct).degree < mm
         /\ \A m : Stands(ct, m) => Stands(MessageExtract(ct), m)
<1>1. CASE CarryIsEmpty(ct)
  BY <1>1 DEF MessageExtract, CarryIsEmpty
<1>2. CASE ~CarryIsEmpty(ct)
  <2>1. MessageExtract(ct) = Bootstrapped(ct, MessageTable)
    BY <1>2 DEF MessageExtract
  <2>2. MessageTable \in [0 .. TotalModulus - 1 -> 0 .. TotalModulus - 1]
    <3>1. ASSUME NEW v \in 0 .. TotalModulus - 1 PROVE v % mm \in 0 .. TotalModulus - 1
      BY Sizes
    <3>. QED  BY <3>1 DEF MessageTable
  <2>3. Bootstrapped(ct, MessageTable).degree < mm
    BY Sizes DEF Bootstrapped, Fresh
  <2>4. ASSUME NEW m, Stands(ct, m) PROVE Stands(Bootstrapped(ct, MessageTable), m)
    <3>1. ct.plain \in 0 .. TotalModulus - 1 /\ ct.plain < TotalModulus /\ ct.plain % mm = m /\ m < mm
      BY <2>4, Decrypts, Sizes DEF Stands
    <3>2. MessageTable[ct.plain] = m
      BY <3>1 DEF MessageTable
    <3>. QED  BY <2>2, <3>1, <3>2, Bootstraps
  <2>. QED  BY <2>1, <2>2, <2>3, <2>4, Bootstraps
<1>. QED  BY <1>1, <1>2
-----------------------------------------------------------------------------
(* Calls without their cleaning bootstraps.                                *)

LEMMA Adds ==
  ASSUME Chosen, NEW left \in Ciphertexts, NEW right \in Ciphertexts
  PROVE  LET result == UncheckedAddOf(left, right)
         IN  /\ result.ok \in BOOLEAN /\ result.ct \in Ciphertexts
             /\ result.ok =>
                  /\ result.ct = [plain |-> (left.plain + right.plain) % Padded,
                                  degree |-> left.degree + right.degree, noise |-> left.noise + right.noise]
                  /\ \A i, j : Stands(left, i) /\ Stands(right, j) => Stands(result.ct, (i + j) % mm)
             /\ ~result.ok =>
                  /\ result.ct = [left EXCEPT !.plain = (left.plain + right.plain) % Padded]
                  /\ \A i, j : Stands(left, i) /\ Stands(right, j) => Decrypt(result.ct) = (i + j) % mm
<1> DEFINE result == UncheckedAddOf(left, right)
           x == left.plain
           y == right.plain
           degree == left.degree + right.degree
           noise == left.noise + right.noise
           plain == (x + y) % Padded
           sum == [left EXCEPT !.plain = plain]
<1>1. /\ x \in 0 .. Padded - 1 /\ y \in 0 .. Padded - 1
      /\ left.degree \in 0 .. MaxDegree /\ right.degree \in 0 .. MaxDegree
      /\ left.noise \in 1 .. MaxNoise /\ right.noise \in 1 .. MaxNoise
      /\ left = [plain |-> x, degree |-> left.degree, noise |-> left.noise]
  BY DEF Ciphertexts
<1>2. plain \in 0 .. Padded - 1
  <2> HIDE DEF x, y
  <2>1. x + y \in Nat /\ Padded \in Nat /\ Padded > 0
    BY <1>1, Sizes
  <2>. QED  BY <2>1
<1>3. sum = [plain |-> plain, degree |-> left.degree, noise |-> left.noise] /\ sum \in Ciphertexts
  BY <1>1, <1>2 DEF Ciphertexts
<1>4. CASE ~Valid(degree, noise)
  <2>1. result = [ok |-> FALSE, ct |-> sum]
    BY <1>4, Zenon DEF UncheckedAddOf, Err
  <2>2. ASSUME NEW i, NEW j, Stands(left, i), Stands(right, j)
        PROVE  Decrypt(sum) = (i + j) % mm
    <3>1. x \in Nat /\ y \in Nat /\ x < TotalModulus /\ y < TotalModulus /\ x % mm = i /\ y % mm = j
      BY <2>2, Decrypts DEF Stands
    <3>2. sum.plain = plain /\ plain \in Nat
      BY <1>2, <1>3, Sizes
    <3>3. plain = x + y /\ (x + y) % mm = (i + j) % mm
      <4> HIDE DEF x, y
      <4>1. x + y \in 0 .. Padded - 1 /\ Padded \in Nat /\ mm \in Nat /\ mm > 0
        BY <3>1, Sizes
      <4>2. (x + y) % mm = ((x % mm) + (y % mm)) % mm
        BY <3>1, <4>1, Remainders
      <4>. QED  BY <3>1, <4>1, <4>2
    <3> HIDE DEF plain, sum
    <3>4. Decrypt(sum) = plain % mm
      BY <3>2, DecryptsPlain
    <3>. QED  BY <3>3, <3>4
  <2> HIDE DEF plain
  <2>. QED  BY <1>3, <2>1, <2>2 DEF plain
<1>5. CASE Valid(degree, noise)
  <2> DEFINE ct == [plain |-> plain, degree |-> degree, noise |-> noise]
  <2>1. result = [ok |-> TRUE, ct |-> ct]
    BY <1>5, Zenon DEF UncheckedAddOf, Ok
  <2>3. degree \in 0 .. MaxDegree /\ noise \in 1 .. MaxNoise
    BY <1>1, <1>5, Sizes DEF Valid
  <2>4. ct \in Ciphertexts
    BY <1>2, <2>3 DEF Ciphertexts
  <2>5. ASSUME NEW i, NEW j, Stands(left, i), Stands(right, j)
        PROVE  Stands(ct, (i + j) % mm)
    <3>1. x \in Nat /\ y \in Nat /\ x <= left.degree /\ y <= right.degree /\ x % mm = i /\ y % mm = j
      BY <1>1, <2>5, Sizes DEF Stands
    <3>2. x + y <= degree /\ degree <= MaxDegree
      BY <1>1, <2>3, <3>1, Sizes
    <3>3. plain = x + y
      <4> HIDE DEF x, y, degree
      <4>1. x + y \in 0 .. Padded - 1 /\ Padded \in Nat
        BY <2>3, <3>1, <3>2, Sizes
      <4>. QED  BY <4>1
    <3>4. (x + y) % mm = (i + j) % mm
      <4> HIDE DEF x, y
      <4>1. x \in Int /\ y \in Int
        BY <3>1
      <4>2. (x + y) % mm = ((x % mm) + (y % mm)) % mm
        BY <4>1, Remainders, Sizes
      <4>. QED  BY <3>1, <4>2
    <3>5. ct.plain = x + y /\ ct.degree = degree
      BY <3>3
    <3>. QED  BY <3>2, <3>4, <3>5 DEF Stands
  <2>. QED  BY <2>1, <2>4, <2>5
<1>. QED  BY <1>4, <1>5

LEMMA Subtracts ==
  ASSUME Chosen, NEW left \in Ciphertexts, NEW right \in Ciphertexts
  PROVE  LET result == UncheckedSubOf(left, right)
         IN  /\ result.ok \in BOOLEAN /\ result.ct \in Ciphertexts
             /\ result.ok /\ ~Below(left, right) =>
                  \A i, j : Stands(left, i) /\ Stands(right, j) => Stands(result.ct, (i - j) % mm)
             /\ ~result.ok /\ ~Below(left, right) =>
                  \A i, j : Stands(left, i) /\ Stands(right, j) => Decrypt(result.ct) = (i - j) % mm
<1> DEFINE result == UncheckedSubOf(left, right)
           x == left.plain
           y == right.plain
           z == (Padded - y) % Padded
           opposite == Negated(right)
           degree == left.degree + right.degree
           plain == (x + z) % Padded
<1>1. /\ x \in 0 .. Padded - 1 /\ y \in 0 .. Padded - 1
      /\ left.degree \in 0 .. MaxDegree /\ right.degree \in 0 .. MaxDegree
      /\ left.noise \in 1 .. MaxNoise /\ right.noise \in 1 .. MaxNoise
  BY DEF Ciphertexts
<1>2. z \in 0 .. Padded - 1 /\ (y = 0 => z = 0) /\ (y > 0 => z = Padded - y)
  <2> HIDE DEF y
  <2>1. Padded - y \in Nat /\ Padded \in Nat /\ Padded > 0 /\ y \in Nat
    BY <1>1, Sizes
  <2>2. CASE y = 0
    <3>1. Padded % Padded = 0
      BY <2>1
    <3>. QED  BY <2>1, <2>2, <3>1
  <2>3. CASE y # 0
    <3>1. Padded - y \in 0 .. Padded - 1
      BY <2>1, <2>3
    <3>2. (Padded - y) % Padded = Padded - y
      BY <2>1, <3>1
    <3>. QED  BY <2>1, <2>3, <3>1, <3>2
  <2>. QED  BY <2>2, <2>3
<1>3. opposite \in Ciphertexts /\ opposite.plain = z /\ opposite.degree = right.degree /\ opposite.noise = right.noise
  BY <1>2 DEF Negated, Ciphertexts
<1>4. result = UncheckedAddOf(left, opposite)
  BY DEF UncheckedSubOf
<1>5. result.ok \in BOOLEAN /\ result.ct \in Ciphertexts
  <2> HIDE DEF opposite, result
  <2>. QED  BY <1>3, <1>4, Adds
<1>6. ASSUME ~Below(left, right), NEW i, NEW j, Stands(left, i), Stands(right, j)
      PROVE  IF result.ok THEN Stands(result.ct, (i - j) % mm) ELSE Decrypt(result.ct) = (i - j) % mm
  <2>1. /\ x \in Nat /\ y \in Nat /\ x <= left.degree /\ x % mm = i /\ y % mm = j
        /\ x < TotalModulus
    BY <1>1, <1>6, Sizes, Decrypts DEF Stands
  <2>2. ~(x < y)
    <3>1. DecryptFull(left) = x /\ DecryptFull(right) = y
      BY <1>6, Decrypts
    <3>. QED  BY <1>6, <3>1 DEF Below
  <2>3. plain = x - y
    <3> HIDE DEF x, y, z
    <3>1. CASE y = 0
      <4>1. x + z = x /\ x \in 0 .. Padded - 1 /\ Padded \in Nat
        BY <1>1, <1>2, <2>1, <3>1, Sizes
      <4>. QED  BY <2>1, <3>1, <4>1
    <3>2. CASE y # 0
      <4> DEFINE a == x + z
                 r == x - y
      <4>1. a = Padded * 1 + r /\ r \in 0 .. Padded - 1 /\ Padded \in Nat /\ Padded > 0 /\ a \in Int
        <5>1. z = Padded - y /\ y > 0 /\ Padded \in Nat /\ Padded > 0
          BY <1>2, <2>1, <3>2, Sizes
        <5>. QED  BY <1>1, <2>1, <2>2, <5>1
      <4> HIDE DEF a, r
      <4>2. a % Padded = r
        BY <4>1, QuotientIs
      <4>. QED  BY <4>2 DEF a, r
    <3>. QED  BY <3>1, <3>2
  <2>4. result.ct.plain = plain /\ (result.ok => result.ct.degree = degree)
    <3> HIDE DEF opposite, result
    <3>1. CASE result.ok
      <4>1. result.ct = [plain |-> (left.plain + opposite.plain) % Padded,
                         degree |-> left.degree + opposite.degree, noise |-> left.noise + opposite.noise]
        BY <1>3, <1>4, <3>1, Adds
      <4>. QED  BY <1>3, <4>1
    <3>2. CASE ~result.ok
      <4>1. result.ct = [left EXCEPT !.plain = (left.plain + opposite.plain) % Padded]
        BY <1>3, <1>4, <3>2, Adds
      <4>2. result.ct.plain = (left.plain + opposite.plain) % Padded
        BY <4>1 DEF Ciphertexts
      <4>. QED  BY <1>3, <3>2, <4>2
    <3>. QED  BY <3>1, <3>2
  <2>5. x - y <= degree
    BY <1>1, <2>1, Sizes
  <2>6. (x - y) % mm = (i - j) % mm
    <3> HIDE DEF x, y
    <3>1. x \in Int /\ y \in Int /\ mm \in Nat /\ mm > 0
      BY <2>1, Sizes
    <3>2. (x - y) % mm = ((x % mm) - (y % mm)) % mm
      BY <3>1, Remainders
    <3>. QED  BY <2>1, <3>2
  <2>7. CASE result.ok
    BY <2>3, <2>4, <2>5, <2>6, <2>7 DEF Stands
  <2>8. CASE ~result.ok
    <3>1. result.ct.plain = x - y /\ x - y \in Nat
      BY <2>1, <2>2, <2>3, <2>4
    <3> HIDE DEF result, x, y
    <3>2. result.ct.plain \in Nat
      BY <3>1
    <3>3. Decrypt(result.ct) = result.ct.plain % mm
      BY <3>2, DecryptsPlain
    <3>. QED  BY <2>6, <2>8, <3>1, <3>3
  <2>. QED  BY <2>7, <2>8
<1> HIDE DEF result
<1>. QED  BY <1>5, <1>6 DEF result

LEMMA Scales ==
  ASSUME Chosen, NEW ct \in Ciphertexts, NEW scalar \in Nat
  PROVE  LET result == UncheckedScalarMulOf(ct, scalar)
         IN  /\ result.ok \in BOOLEAN /\ result.ct \in Ciphertexts
             /\ ~result.ok => result.ct = ct
             /\ result.ok => \A i : Stands(ct, i) => Stands(result.ct, (i * scalar) % mm)
<1> DEFINE result == UncheckedScalarMulOf(ct, scalar)
           x == ct.plain
           dd == ct.degree
           degree == dd * scalar
           noise == ct.noise * scalar
           plain == (x * scalar) % Padded
           zero == [plain |-> 0, degree |-> 0, noise |-> 1]
           product == [plain |-> plain, degree |-> degree, noise |-> noise]
<1>1. x \in 0 .. Padded - 1 /\ dd \in 0 .. MaxDegree /\ ct.noise \in 1 .. MaxNoise
  BY DEF Ciphertexts
<1>2. CASE scalar = 0
  <2>1. result = [ok |-> TRUE, ct |-> zero]
    BY <1>2, Zenon DEF UncheckedScalarMulOf, Ok, Nominal
  <2>2. zero \in Ciphertexts
    BY Sizes DEF Ciphertexts
  <2>3. ASSUME NEW i, Stands(ct, i) PROVE Stands(zero, (i * scalar) % mm)
    <3>1. i \in 0 .. mm - 1
      BY <2>3, Decrypts
    <3>2. i * scalar = 0 /\ 0 % mm = 0
      BY <1>2, <3>1, Sizes
    <3>. QED  BY <3>2 DEF Stands
  <2>. QED  BY <2>1, <2>2, <2>3
<1>3. CASE scalar # 0 /\ Valid(degree, noise)
  <2>1. result = [ok |-> TRUE, ct |-> product]
    BY <1>3, Zenon DEF UncheckedScalarMulOf, Ok
  <2>2. noise \in Nat /\ noise >= 1 /\ degree \in Nat /\ x * scalar \in Nat
    <3> DEFINE e == ct.noise
    <3>1. e \in Nat /\ e >= 1 /\ x \in Nat /\ dd \in Nat
      BY <1>1, Sizes
    <3> HIDE DEF e, x, dd
    <3>2. PICK k \in Nat : scalar = k + 1
      <4>1. scalar - 1 \in Nat /\ scalar = (scalar - 1) + 1
        BY <1>3
      <4>. QED  BY <4>1
    <3>3. e * scalar = e * k + e /\ e * k \in Nat
      BY <3>1, <3>2
    <3>4. e * scalar \in Nat /\ e * scalar >= 1
      BY <3>1, <3>3
    <3>5. dd * scalar \in Nat /\ x * scalar \in Nat
      BY <3>1
    <3>. QED  BY <3>4, <3>5 DEF e
  <2>3. plain \in 0 .. Padded - 1
    <3> DEFINE y == x * scalar
    <3>1. y \in Nat /\ Padded \in Nat /\ Padded > 0
      BY <2>2, Sizes
    <3> HIDE DEF y
    <3>2. y % Padded \in 0 .. Padded - 1
      BY <3>1
    <3>. QED  BY <3>2 DEF y
  <2>4. degree <= MaxDegree /\ noise <= MaxNoise
    BY <1>3, Zenon DEF Valid
  <2>5. product \in Ciphertexts
    <3> HIDE DEF plain, degree, noise
    <3>. QED  BY <2>2, <2>3, <2>4, Sizes DEF Ciphertexts
  <2>6. ASSUME NEW i, Stands(ct, i) PROVE Stands(product, (i * scalar) % mm)
    <3>1. x <= dd /\ x % mm = i /\ x \in Nat /\ dd \in Nat
      BY <1>1, <2>6, Sizes DEF Stands
    <3>2. x * scalar <= degree
      <4> HIDE DEF x, dd
      <4>1. PICK k \in Nat : dd = x + k
        <5>1. dd - x \in Nat /\ dd = x + (dd - x)
          BY <3>1
        <5>. QED  BY <5>1
      <4>2. dd * scalar = x * scalar + k * scalar /\ k * scalar \in Nat /\ x * scalar \in Nat
        BY <3>1, <4>1
      <4>. QED  BY <4>2
    <3> DEFINE y == x * scalar
    <3>3. y \in Nat /\ y <= degree
      BY <2>2, <3>2
    <3>4. y % mm = (i * scalar) % mm
      <4> HIDE DEF x
      <4>1. x \in Int /\ scalar \in Int /\ mm \in Nat /\ mm > 0
        BY <3>1, Sizes
      <4>2. (x * scalar) % mm = ((x % mm) * scalar) % mm
        BY <4>1, Remainders
      <4>. QED  BY <3>1, <4>2
    <3> HIDE DEF y, degree
    <3>5. y % Padded = y
      BY <2>2, <2>4, <3>3, Sizes
    <3>6. plain = y
      BY <3>5 DEF y
    <3> HIDE DEF plain
    <3>. QED  BY <3>3, <3>4, <3>6 DEF Stands
  <2>. QED  BY <2>1, <2>5, <2>6
<1>4. CASE scalar # 0 /\ ~Valid(degree, noise)
  <2>1. result = [ok |-> FALSE, ct |-> ct]
    BY <1>4, Zenon DEF UncheckedScalarMulOf, Err
  <2>. QED  BY <2>1
<1>. QED  BY <1>2, <1>3, <1>4

LEMMA Finishes ==
  ASSUME Chosen, NEW result, result.ok \in BOOLEAN, result.ct \in Ciphertexts
  PROVE  /\ Finished(result).ok = result.ok /\ Finished(result).ct \in Ciphertexts
         /\ \A i : Stands(result.ct, i) => Stands(Finished(result).ct, i)
         /\ ~result.ok => Finished(result).ct = result.ct
<1>1. CASE result.ok
  <2>1. Finished(result) = [ok |-> TRUE, ct |-> MessageExtract(result.ct)]
    BY <1>1 DEF Finished, Ok
  <2>. QED  BY <1>1, <2>1, Extracts
<1>2. CASE ~result.ok
  BY <1>2 DEF Finished
<1>. QED  BY <1>1, <1>2
-----------------------------------------------------------------------------
(* Whole calls.                                                            *)

LEMMA AddsCleaned ==
  ASSUME Chosen, NEW left \in Ciphertexts, NEW right \in Ciphertexts
  PROVE  LET result == AddOf(left, right)
         IN  /\ result.ok \in BOOLEAN /\ result.ct \in Ciphertexts
             /\ \A i, j : Stands(left, i) /\ Stands(right, j) =>
                  IF result.ok THEN Stands(result.ct, (i + j) % mm) ELSE Decrypt(result.ct) = (i + j) % mm
<1> DEFINE x == MessageExtract(left)
           y == MessageExtract(right)
           result == UncheckedAddOf(x, y)
<1>1. /\ x \in Ciphertexts /\ y \in Ciphertexts
      /\ \A i : (Stands(left, i) => Stands(x, i)) /\ (Stands(right, i) => Stands(y, i))
  BY Extracts
<1>2. AddOf(left, right) = Finished(result)
  BY DEF AddOf
<1> HIDE DEF x, y
<1>3. /\ result.ok \in BOOLEAN /\ result.ct \in Ciphertexts
      /\ result.ok => \A i, j : Stands(x, i) /\ Stands(y, j) => Stands(result.ct, (i + j) % mm)
      /\ ~result.ok => \A i, j : Stands(x, i) /\ Stands(y, j) => Decrypt(result.ct) = (i + j) % mm
  BY <1>1, Adds
<1> HIDE DEF result
<1>4. /\ Finished(result).ok = result.ok /\ Finished(result).ct \in Ciphertexts
      /\ \A i : Stands(result.ct, i) => Stands(Finished(result).ct, i)
      /\ ~result.ok => Finished(result).ct = result.ct
  BY <1>3, Finishes
<1>. QED  BY <1>1, <1>2, <1>3, <1>4

LEMMA SubtractsCleaned ==
  ASSUME Chosen, NEW left \in Ciphertexts, NEW right \in Ciphertexts
  PROVE  LET result == SubOf(left, right)
         IN  /\ result.ok \in BOOLEAN /\ result.ct \in Ciphertexts
             /\ ~Below(MessageExtract(left), MessageExtract(right)) =>
                  \A i, j : Stands(left, i) /\ Stands(right, j) =>
                    IF result.ok THEN Stands(result.ct, (i - j) % mm) ELSE Decrypt(result.ct) = (i - j) % mm
<1> DEFINE x == MessageExtract(left)
           y == MessageExtract(right)
           result == UncheckedSubOf(x, y)
<1>1. /\ x \in Ciphertexts /\ y \in Ciphertexts
      /\ \A i : (Stands(left, i) => Stands(x, i)) /\ (Stands(right, i) => Stands(y, i))
  BY Extracts
<1>2. SubOf(left, right) = Finished(result)
  BY DEF SubOf
<1>5. Below(MessageExtract(left), MessageExtract(right)) <=> Below(x, y)
  OBVIOUS
<1> HIDE DEF x, y
<1>3. /\ result.ok \in BOOLEAN /\ result.ct \in Ciphertexts
      /\ result.ok /\ ~Below(x, y) => \A i, j : Stands(x, i) /\ Stands(y, j) => Stands(result.ct, (i - j) % mm)
      /\ ~result.ok /\ ~Below(x, y) => \A i, j : Stands(x, i) /\ Stands(y, j) => Decrypt(result.ct) = (i - j) % mm
  BY <1>1, Subtracts
<1> HIDE DEF result
<1>4. /\ Finished(result).ok = result.ok /\ Finished(result).ct \in Ciphertexts
      /\ \A i : Stands(result.ct, i) => Stands(Finished(result).ct, i)
      /\ ~result.ok => Finished(result).ct = result.ct
  BY <1>3, Finishes
<1>. QED  BY <1>1, <1>2, <1>3, <1>4, <1>5

LEMMA ScalesCleaned ==
  ASSUME Chosen, NEW ct \in Ciphertexts, NEW scalar \in Nat
  PROVE  LET result == ScalarMulOf(ct, scalar)
         IN  /\ result.ok \in BOOLEAN /\ result.ct \in Ciphertexts
             /\ \A i : Stands(ct, i) =>
                  IF result.ok THEN Stands(result.ct, (i * scalar) % mm) ELSE Stands(result.ct, i)
<1> DEFINE x == MessageExtract(ct)
           result == UncheckedScalarMulOf(x, scalar)
<1>1. x \in Ciphertexts /\ \A i : Stands(ct, i) => Stands(x, i)
  BY Extracts
<1>2. ScalarMulOf(ct, scalar) = Finished(result)
  BY DEF ScalarMulOf
<1> HIDE DEF x
<1>3. /\ result.ok \in BOOLEAN /\ result.ct \in Ciphertexts
      /\ ~result.ok => result.ct = x
      /\ result.ok => \A i : Stands(x, i) => Stands(result.ct, (i * scalar) % mm)
  BY <1>1, Scales
<1> HIDE DEF result
<1>4. /\ Finished(result).ok = result.ok /\ Finished(result).ct \in Ciphertexts
      /\ \A i : Stands(result.ct, i) => Stands(Finished(result).ct, i)
  BY <1>3, Finishes
<1>. QED  BY <1>1, <1>2, <1>3, <1>4

LEMMA LooksUp ==
  ASSUME Chosen, NEW ct \in Ciphertexts, NEW name \in {"bitnot", "next", "double"}
  PROVE  LET result == Bootstrapped(ct, UnivariateTable(name))
         IN  /\ result \in Ciphertexts
             /\ \A m : Stands(ct, m) =>
                  IF GivesMessages(name) THEN Stands(result, TableMeaning(name, m) % mm)
                  ELSE Decrypt(result) = TableMeaning(name, m) % mm
<1> DEFINE table == UnivariateTable(name)
<1>1. table \in [0 .. TotalModulus - 1 -> 0 .. TotalModulus - 1]
  <2>1. ASSUME NEW v \in 0 .. TotalModulus - 1 PROVE table[v] \in 0 .. TotalModulus - 1
    <3>1. v \in Nat /\ mm \in Nat /\ mm > 0 /\ TotalModulus \in Nat /\ TotalModulus >= mm
      BY Sizes
    <3>2. CASE name = "bitnot"
      <4>1. table[v] = (1 + mm - (v % mm)) % mm
        BY <3>2 DEF UnivariateTable
      <4>2. v % mm \in 0 .. mm - 1
        BY <3>1
      <4> DEFINE w == 1 + mm - (v % mm)
      <4>3. w \in Int
        BY <3>1, <4>2
      <4> HIDE DEF w
      <4>4. w % mm \in 0 .. TotalModulus - 1
        BY <3>1, <4>3
      <4>. QED  BY <4>1, <4>4 DEF w
    <3>3. CASE name = "next"
      <4>1. table[v] = (v + 1) % mm
        BY <3>3 DEF UnivariateTable
      <4> HIDE DEF table
      <4>. QED  BY <3>1, <4>1
    <3>4. CASE name = "double"
      <4>1. table[v] = (2 * v) % TotalModulus
        BY <3>4 DEF UnivariateTable
      <4> HIDE DEF table
      <4>. QED  BY <3>1, <4>1
    <3>. QED  BY <3>2, <3>3, <3>4
  <2>. QED  BY <2>1 DEF UnivariateTable
<1>2. ASSUME GivesMessages(name), NEW m, Stands(ct, m)
      PROVE  ct.plain < TotalModulus /\ table[ct.plain] = TableMeaning(name, m) % mm /\ table[ct.plain] < mm
  <2> DEFINE v == ct.plain
  <2>1. v \in Nat /\ v < TotalModulus /\ v % mm = m /\ m \in 0 .. mm - 1 /\ mm \in Nat /\ mm > 0 /\ TotalModulus \in Nat
    BY <1>2, Decrypts, Sizes DEF Stands
  <2> HIDE DEF v
  <2>2. CASE name = "bitnot"
    <3>1. table[v] = (1 + mm - m) % mm /\ TableMeaning(name, m) = (1 + mm - m) % mm
      BY <2>1, <2>2 DEF UnivariateTable, TableMeaning
    <3> DEFINE w == 1 + mm - m
    <3>2. w \in Int
      BY <2>1
    <3> HIDE DEF w
    <3>3. (w % mm) % mm = w % mm /\ w % mm < mm
      BY <2>1, <3>2
    <3>. QED  BY <2>1, <3>1, <3>3 DEF v, w
  <2>3. CASE name = "next"
    <3>1. table[v] = (v + 1) % mm /\ TableMeaning(name, m) = (m + 1) % mm
      BY <2>1, <2>3 DEF UnivariateTable, TableMeaning
    <3>2. (v + 1) % mm = ((v % mm) + (1 % mm)) % mm /\ 1 % mm = 1
      <4>1. 1 \in Int /\ v \in Int
        BY <2>1
      <4>2. (v + 1) % mm = ((v % mm) + (1 % mm)) % mm
        BY <2>1, <4>1, Remainders
      <4>3. mm >= 2
        BY Sizes
      <4>. QED  BY <2>1, <4>2, <4>3
    <3>3. (v + 1) % mm = (m + 1) % mm
      BY <2>1, <3>2
    <3> DEFINE w == m + 1
    <3>4. w \in Int
      BY <2>1
    <3> HIDE DEF w
    <3>5. (w % mm) % mm = w % mm /\ w % mm < mm
      BY <2>1, <3>4
    <3>. QED  BY <2>1, <3>1, <3>3, <3>5 DEF v, w
  <2>. QED  BY <1>2, <2>2, <2>3 DEF GivesMessages
<1> HIDE DEF table
<1>3. Bootstrapped(ct, table) \in Ciphertexts
  BY <1>1, Bootstraps
<1>4. ASSUME GivesMessages(name), NEW m, Stands(ct, m)
      PROVE  Stands(Bootstrapped(ct, table), TableMeaning(name, m) % mm)
  <2>1. Stands(Bootstrapped(ct, table), table[ct.plain])
    BY <1>1, <1>2, <1>4, Bootstraps
  <2>. QED  BY <1>2, <1>4, <2>1
<1>5. ASSUME ~GivesMessages(name), NEW m, Stands(ct, m)
      PROVE  Decrypt(Bootstrapped(ct, table)) = TableMeaning(name, m) % mm
  <2>1. name = "double"
    BY <1>5 DEF GivesMessages
  <2>2. PICK v \in Nat : v = ct.plain /\ v < TotalModulus /\ v % mm = m
    BY <1>5, Decrypts DEF Stands
  <2>3. TotalModulus \in Nat /\ v \in 0 .. TotalModulus - 1 /\ mm \in Nat /\ mm > 0
    BY <2>2, Sizes
  <2>4. table[v] = (2 * v) % TotalModulus
    BY <2>1, <2>3 DEF table, UnivariateTable
  <2>5. Bootstrapped(ct, table).plain = table[v]
    BY <2>2 DEF Bootstrapped, LookedUp, Fresh
  <2>6. PICK w : w = [plain |-> 2 * v]
    OBVIOUS
  <2>7. w.plain = 2 * v /\ w.plain \in Nat
    BY <2>6
  <2>8. Decrypt(w) = (2 * v) % mm
    BY <2>7, DecryptsPlain
  <2>9. Decrypt(w) = ((2 * v) % TotalModulus) % mm
    BY <2>7 DEF Decrypt, DecryptFull
  <2>10. table[v] \in Nat /\ table[v] < TotalModulus
    BY <1>1, <2>3
  <2>11. Bootstrapped(ct, table).plain \in Nat
    BY <2>5, <2>10
  <2>12. Decrypt(Bootstrapped(ct, table)) = Bootstrapped(ct, table).plain % mm
    BY <2>11, DecryptsPlain
  <2>13. Decrypt(Bootstrapped(ct, table)) = (2 * v) % mm
    BY <2>4, <2>5, <2>8, <2>9, <2>12
  <2>14. TableMeaning(name, m) = (2 * m) % mm
    BY <2>1 DEF TableMeaning
  <2>15. (2 * v) % mm = ((2 * m) % mm) % mm
    <3>1. v * 2 = 2 * v /\ m * 2 = 2 * m /\ m \in Nat /\ 2 \in Int /\ v \in Int
      BY <2>2, <2>3
    <3>2. (v * 2) % mm = ((v % mm) * 2) % mm
      BY <2>3, <3>1, Remainders
    <3>3. PICK n \in Nat : n = 2 * m
      BY <3>1
    <3>4. (n % mm) % mm = n % mm
      BY <2>3, <3>3
    <3>. QED  BY <2>2, <3>1, <3>2, <3>3, <3>4
  <2>. QED  BY <2>13, <2>14, <2>15
<1>. QED  BY <1>3, <1>4, <1>5 DEF table

LEMMA EvaluatesToMessage ==
  ASSUME Chosen, NEW method \in Methods, NEW x \in 0 .. mm - 1, NEW y \in 0 .. mm - 1
  PROVE  Evaluate(method, x, y) \in 0 .. mm - 1
<1>1. mm \in Nat /\ mm >= 2 /\ x \in Nat /\ y \in Nat
  BY Sizes
<1>2. x % 2 \in 0 .. 1 /\ y % 2 \in 0 .. 1 /\ (x + y) % 2 \in 0 .. 1
  BY <1>1
<1>3. x * y \in Nat /\ (x % 2) * (y % 2) \in Nat /\ (x % 2) + (y % 2) - (x % 2) * (y % 2) \in Int
  BY <1>1, <1>2
<1>4. \A w \in Int : w % mm \in 0 .. mm - 1
  BY <1>1
<1>6. CASE method \in {"gt", "eq", "lt", "ge", "le", "ne"}
  <2>1. CASE method = "gt"
    BY <1>1, <2>1 DEF Evaluate, Truth
  <2>2. CASE method = "eq"
    BY <1>1, <2>2 DEF Evaluate, Truth
  <2>3. CASE method = "lt"
    BY <1>1, <2>3 DEF Evaluate, Truth
  <2>4. CASE method = "ge"
    BY <1>1, <2>4 DEF Evaluate, Truth
  <2>5. CASE method = "le"
    BY <1>1, <2>5 DEF Evaluate, Truth
  <2>6. CASE method = "ne"
    BY <1>1, <2>6 DEF Evaluate, Truth
  <2>. QED  BY <1>6, <2>1, <2>2, <2>3, <2>4, <2>5, <2>6
<1>7. CASE method = "bitand"
  BY <1>3, <1>4, <1>7 DEF Evaluate
<1>8. CASE method = "bitor"
  BY <1>3, <1>4, <1>8 DEF Evaluate
<1>9. CASE method = "mul"
  BY <1>3, <1>4, <1>9 DEF Evaluate
<1>10. CASE method = "bitxor"
  <2>1. Evaluate(method, x, y) = (x + y) % 2
    BY <1>10 DEF Evaluate
  <2>. QED  BY <1>1, <1>2, <2>1
<1>11. CASE method \in {"max", "min"}
  BY <1>11 DEF Evaluate
<1>. QED  BY <1>6, <1>7, <1>8, <1>9, <1>10, <1>11 DEF Methods
\* Packed in one slot, both messages can be read off.
LEMMA UncheckedBivariate ==
  ASSUME Chosen, NEW left \in Ciphertexts, NEW right \in Ciphertexts, NEW method \in Methods
  PROVE  LET result == UncheckedBivariateOf(left, right, method)
         IN  /\ result.ok \in BOOLEAN /\ result.ct \in Ciphertexts
             /\ ~result.ok => result.ct = left
             /\ result.ok => \A i, j : Stands(left, i) /\ Stands(right, j) =>
                               Stands(result.ct, Evaluate(method, i, j) % mm)
<1> DEFINE result == UncheckedBivariateOf(left, right, method)
           scaled == UncheckedScalarMulOf(left, mm)
           packed == UncheckedAddOf(scaled.ct, right)
           table == BivariateTable(method)
<1>1. CASE ~IsBivariatePbsPossible(left, right)
  <2>1. result = [ok |-> FALSE, ct |-> left]
    BY <1>1 DEF UncheckedBivariateOf, Err
  <2>. QED  BY <2>1
<1>2. CASE IsBivariatePbsPossible(left, right)
  <2>1. result = [ok |-> TRUE, ct |-> Bootstrapped(packed.ct, table)]
    BY <1>2 DEF UncheckedBivariateOf, Ok
  <2>2. mm \in Nat /\ mm >= 2 /\ TotalModulus \in Nat /\ TotalModulus >= mm /\ Padded \in Nat
        /\ Padded = TotalModulus + TotalModulus /\ MaxDegree = TotalModulus - 1
    BY Sizes
  <2>3. scaled.ct \in Ciphertexts
    BY <2>2, Scales
  <2>4. packed.ct \in Ciphertexts
    <3> HIDE DEF scaled
    <3>. QED  BY <2>3, Adds
  <2>5. table \in [0 .. TotalModulus - 1 -> 0 .. TotalModulus - 1]
    <3>1. ASSUME NEW v \in 0 .. TotalModulus - 1
          PROVE  Evaluate(method, (v \div mm) % mm, (v % mm) % mm) % TotalModulus \in 0 .. TotalModulus - 1
      <4>1. (v \div mm) % mm \in 0 .. mm - 1 /\ (v % mm) % mm \in 0 .. mm - 1
        <5>1. v \in Int /\ v \div mm \in Int /\ v % mm \in Int
          BY <2>2, Division
        <5>. QED  BY <2>2, <5>1
      <4> DEFINE e == Evaluate(method, (v \div mm) % mm, (v % mm) % mm)
      <4>2. e \in 0 .. mm - 1
        BY <4>1, EvaluatesToMessage
      <4> HIDE DEF e
      <4>3. e % TotalModulus \in 0 .. TotalModulus - 1
        BY <2>2, <4>2
      <4>. QED  BY <4>3 DEF e
    <3>. QED  BY <3>1 DEF BivariateTable
  <2>6. Bootstrapped(packed.ct, table) \in Ciphertexts
    <3> HIDE DEF packed, table
    <3>. QED  BY <2>4, <2>5, Bootstraps
  <2>7. ASSUME NEW i, NEW j, Stands(left, i), Stands(right, j)
        PROVE  Stands(Bootstrapped(packed.ct, table), Evaluate(method, i, j) % mm)
    <3> DEFINE x == left.plain
               y == right.plain
               dx == left.degree
               dy == right.degree
               nx == left.noise
               ny == right.noise
               e == Evaluate(method, i, j)
    <3>1. /\ x \in Nat /\ y \in Nat /\ dx \in 0 .. MaxDegree /\ dy \in 0 .. MaxDegree /\ x <= dx /\ y <= dy
          /\ nx \in 1 .. MaxNoise /\ ny \in 1 .. MaxNoise
          /\ x % mm = i /\ y % mm = j /\ i \in 0 .. mm - 1 /\ j \in 0 .. mm - 1
      BY <2>2, <2>7, Decrypts DEF Ciphertexts, Stands
    <3>2. dy < mm /\ dx * mm + dy <= MaxDegree /\ nx * mm + ny <= MaxNoise
      BY <1>2 DEF IsBivariatePbsPossible, Valid
    <3>3. MaxNoise \in Nat
      BY Sizes
    <3> HIDE DEF x, y, dx, dy, nx, ny, e
    <3>4. dx * mm \in Nat /\ nx * mm \in Nat /\ x * mm \in Nat /\ x * mm <= dx * mm
      <4>1. PICK k \in Nat : dx = x + k
        <5>1. dx - x \in Nat /\ dx = x + (dx - x)
          BY <2>2, <3>1
        <5>. QED  BY <5>1
      <4>2. dx * mm = x * mm + k * mm /\ k * mm \in Nat /\ x * mm \in Nat
        BY <2>2, <3>1, <4>1
      <4>3. nx * mm \in Nat
        BY <2>2, <3>1, <3>3
      <4>. QED  BY <4>2, <4>3
    <3> DEFINE xm == x * mm
               dm == dx * mm
               nm == nx * mm
    <3>5. xm \in Nat /\ dm \in Nat /\ nm \in Nat /\ xm <= dm /\ dm + dy <= MaxDegree /\ nm + ny <= MaxNoise
      BY <3>2, <3>4
    <3>6. scaled.ct = [plain |-> xm % Padded, degree |-> dm, noise |-> nm]
      <4>1. Valid(left.degree * mm, left.noise * mm)
        <5> HIDE DEF xm, dm, nm
        <5>1. dm <= MaxDegree /\ nm <= MaxNoise
          BY <2>2, <3>1, <3>3, <3>5
        <5>. QED  BY <5>1, Zenon DEF Valid, dm, nm, dx, nx
      <4>2. mm # 0
        BY <2>2
      <4>3. scaled = [ok |-> TRUE, ct |-> [plain |-> (left.plain * mm) % Padded, degree |-> left.degree * mm,
                                           noise |-> left.noise * mm]]
        BY <4>1, <4>2, Zenon DEF UncheckedScalarMulOf, Ok
      <4>. QED  BY <4>3 DEF x, dx, nx
    <3> DEFINE v == xm + y
    <3>7. v \in 0 .. TotalModulus - 1 /\ v \div mm = x /\ v % mm = y
      <4>1. v = mm * x + y /\ y \in 0 .. mm - 1 /\ v \in Int
        BY <2>2, <3>1, <3>2, <3>5
      <4>2. v \div mm = x /\ v % mm = y
        <5> HIDE DEF v
        <5>. QED  BY <2>2, <3>1, <4>1, QuotientIs
      <4> HIDE DEF xm, dm
      <4>. QED  BY <2>2, <3>1, <3>2, <3>5, <4>2
    <3>8. packed.ct.plain = v
      <4> HIDE DEF xm, dm, nm
      <4>1. xm \in 0 .. Padded - 1
        BY <2>2, <3>1, <3>5
      <4>2. xm % Padded = xm
        BY <2>2, <4>1
      <4>3. scaled.ct = [plain |-> xm, degree |-> dm, noise |-> nm]
        BY <3>6, <4>2
      <4> DEFINE first == scaled.ct
      <4>4. first \in Ciphertexts /\ first = [plain |-> xm, degree |-> dm, noise |-> nm]
        BY <2>3, <4>3
      <4>5. Valid(dm + right.degree, nm + right.noise)
        BY <3>5 DEF Valid, dy, ny
      <4> HIDE DEF first, scaled
      <4>6. UncheckedAddOf(first, right)
              = [ok |-> TRUE, ct |-> [plain |-> (xm + right.plain) % Padded, degree |-> dm + right.degree,
                                      noise |-> nm + right.noise]]
        <5>1. first.plain = xm /\ first.degree = dm /\ first.noise = nm
          BY <4>4
        <5>2. Valid(first.degree + right.degree, first.noise + right.noise)
          BY <4>5, <5>1
        <5>. QED  BY <5>1, <5>2 DEF UncheckedAddOf, Ok
      <4>7. packed.ct.plain = (xm + y) % Padded
        BY <4>6 DEF first, y
      <4> HIDE DEF packed, v
      <4>8. v % Padded = v
        BY <2>2, <3>7
      <4>. QED  BY <4>7, <4>8 DEF v
    <3>9. table[v] = e /\ e \in 0 .. mm - 1
      <4> HIDE DEF v
      <4>1. table[v] = Evaluate(method, (v \div mm) % mm, (v % mm) % mm) % TotalModulus
        BY <3>7 DEF BivariateTable
      <4>2. (v % mm) % mm = j /\ (v \div mm) % mm = i
        BY <3>1, <3>7
      <4>3. e \in 0 .. mm - 1
        BY <3>1, EvaluatesToMessage DEF e
      <4>4. e % TotalModulus = e
        BY <2>2, <4>3
      <4> HIDE DEF table
      <4>5. table[v] = e % TotalModulus
        BY <4>1, <4>2, Zenon DEF e
      <4>. QED  BY <4>3, <4>4, <4>5
    <3> HIDE DEF v, packed, table
    <3>10. Stands(Bootstrapped(packed.ct, table), table[packed.ct.plain])
      <4>1. packed.ct.plain < TotalModulus /\ table[packed.ct.plain] < mm
        BY <2>2, <3>7, <3>8, <3>9
      <4>. QED  BY <2>4, <2>5, <4>1, Bootstraps
    <3>11. e % mm = e
      BY <2>2, <3>9
    <3>. QED  BY <3>8, <3>9, <3>10, <3>11 DEF e
  <2>. QED  BY <2>1, <2>6, <2>7
<1>. QED  BY <1>1, <1>2

LEMMA Bivariate ==
  ASSUME Chosen, NEW left \in Ciphertexts, NEW right \in Ciphertexts, NEW method \in Methods
  PROVE  LET result == BivariateOf(left, right, method)
         IN  /\ result.ok \in BOOLEAN /\ result.ct \in Ciphertexts
             /\ ~result.ok => \A i : Stands(left, i) => Stands(result.ct, i)
             /\ result.ok => \A i, j : Stands(left, i) /\ Stands(right, j) =>
                               Stands(result.ct, Evaluate(method, i, j) % mm)
<1>1. CASE IsBivariatePbsPossible(left, right)
  <2>1. BivariateOf(left, right, method) = UncheckedBivariateOf(left, right, method)
    BY <1>1 DEF BivariateOf
  <2>. QED  BY <2>1, UncheckedBivariate
<1>2. CASE ~IsBivariatePbsPossible(left, right)
  <2> DEFINE x == MessageExtract(left)
             y == MessageExtract(right)
             result == UncheckedBivariateOf(x, y, method)
  <2>1. BivariateOf(left, right, method) = result
    BY <1>2 DEF BivariateOf
  <2>2. /\ x \in Ciphertexts /\ y \in Ciphertexts
        /\ \A i : (Stands(left, i) => Stands(x, i)) /\ (Stands(right, i) => Stands(y, i))
    BY Extracts
  <2> HIDE DEF x, y
  <2>3. /\ result.ok \in BOOLEAN /\ result.ct \in Ciphertexts
        /\ ~result.ok => result.ct = x
        /\ result.ok => \A i, j : Stands(x, i) /\ Stands(y, j) =>
                          Stands(result.ct, Evaluate(method, i, j) % mm)
    BY <2>2, UncheckedBivariate
  <2> HIDE DEF result
  <2>. QED  BY <2>1, <2>2, <2>3
<1>. QED  BY <1>1, <1>2
-----------------------------------------------------------------------------
(* The inductive invariant.                                                *)

ShortintInv ==
  /\ Chosen
  /\ slots \in [CipherNames -> Ciphertexts]
  /\ meaning \in [CipherNames -> 0 .. mm - 1]
  /\ sound \in [CipherNames -> BOOLEAN]
  /\ overfull \in [CipherNames -> BOOLEAN]
  /\ crossed \in [CipherNames -> BOOLEAN]
  /\ \A s \in CipherNames : sound[s] /\ ~crossed[s] => Stands(slots[s], meaning[s])
  /\ \A s \in CipherNames : overfull[s] /\ ~crossed[s] => Decrypt(slots[s]) = meaning[s]

\* A ciphertext is written, and it stands for what is remembered of it if all
\* that it stems from does.
LEMMA Written ==
  ASSUME ShortintInv, UNCHANGED params, NEW d \in CipherNames, NEW ct \in Ciphertexts,
         slots' = [slots EXCEPT ![d] = ct],
         NEW ok \in BOOLEAN, NEW below \in BOOLEAN, NEW m, NEW from \in SUBSET CipherNames,
         Remember(d, ok, m, from, below),
         ok /\ ~below /\ (\A s \in from : sound[s] /\ ~crossed[s]) => Stands(ct, m % mm),
         ~ok /\ ~below /\ (\A s \in from : sound[s] /\ ~crossed[s]) => Decrypt(ct) = m % mm
  PROVE  ShortintInv'
<1>1. /\ Chosen /\ slots \in [CipherNames -> Ciphertexts] /\ meaning \in [CipherNames -> 0 .. mm - 1]
      /\ sound \in [CipherNames -> BOOLEAN] /\ crossed \in [CipherNames -> BOOLEAN]
      /\ overfull \in [CipherNames -> BOOLEAN]
      /\ \A s \in CipherNames : sound[s] /\ ~crossed[s] => Stands(slots[s], meaning[s])
      /\ \A s \in CipherNames : overfull[s] /\ ~crossed[s] => Decrypt(slots[s]) = meaning[s]
  BY DEF ShortintInv
<1>2. mm' = mm /\ cm' = cm
  BY DEF mm, cm
<1>3. TotalModulus' = TotalModulus /\ MaxDegree' = MaxDegree /\ MaxNoise' = MaxNoise
  BY <1>2 DEF TotalModulus, MaxDegree, MaxNoise
<1>4. Padded' = Padded /\ Chosen'
  BY <1>1, <1>3 DEF Padded, Chosen
<1>5. Ciphertexts' = Ciphertexts
  BY <1>3, <1>4 DEF Ciphertexts
<1> DEFINE good == ok /\ \A s \in from : sound[s]
           full == ~ok /\ \A s \in from : sound[s]
           low == below \/ \E s \in from : crossed[s]
           kept == IF (sound'[d] \/ overfull'[d]) /\ ~crossed'[d] THEN m % mm ELSE 0
<1>6. /\ sound' = [sound EXCEPT ![d] = good] /\ overfull' = [overfull EXCEPT ![d] = full]
      /\ crossed' = [crossed EXCEPT ![d] = low] /\ meaning' = [meaning EXCEPT ![d] = kept]
  BY Zenon DEF Remember
<1>7. /\ good \in BOOLEAN /\ full \in BOOLEAN /\ low \in BOOLEAN
      /\ good /\ ~low => Stands(ct, m % mm)
      /\ full /\ ~low => Decrypt(ct) = m % mm
  BY <1>1
<1> HIDE DEF good, full, low
<1>8. sound'[d] = good /\ overfull'[d] = full /\ crossed'[d] = low
  BY <1>1, <1>6
<1>9. /\ sound' \in [CipherNames -> BOOLEAN] /\ crossed' \in [CipherNames -> BOOLEAN]
      /\ overfull' \in [CipherNames -> BOOLEAN]
      /\ slots' \in [CipherNames -> Ciphertexts] /\ slots'[d] = ct
  BY <1>1, <1>6, <1>7
<1>10. kept \in 0 .. mm - 1 /\ ((good \/ full) /\ ~low => kept = m % mm)
  <2>1. CASE (good \/ full) /\ ~low
    <3>1. kept = m % mm
      BY <1>8, <2>1
    <3>2. CASE good
      <4>1. m % mm \in 0 .. mm - 1
        BY <1>1, <1>7, <2>1, <3>2, Decrypts
      <4>. QED  BY <3>1, <4>1
    <3>3. CASE full
      <4>1. Decrypt(ct) \in 0 .. mm - 1 /\ Decrypt(ct) = m % mm
        <5>1. ct.plain \in Nat /\ mm \in Nat /\ mm > 0
          BY <1>1, Sizes DEF Ciphertexts
        <5>2. Decrypt(ct) = ct.plain % mm
          BY <1>1, <5>1, DecryptsPlain
        <5>3. ct.plain % mm \in 0 .. mm - 1
          BY <5>1
        <5>. QED  BY <1>7, <2>1, <3>3, <5>2, <5>3
      <4>. QED  BY <3>1, <4>1
    <3>. QED  BY <2>1, <3>2, <3>3
  <2>2. CASE ~((good \/ full) /\ ~low)
    <3>1. kept = 0
      BY <1>8, <2>2
    <3>. QED  BY <1>1, <2>2, <3>1, Sizes
  <2>. QED  BY <2>1, <2>2
<1> HIDE DEF kept
<1>11. meaning' \in [CipherNames -> 0 .. mm - 1] /\ meaning'[d] = kept
  BY <1>1, <1>6, <1>10
<1>12. ASSUME NEW s \in CipherNames, sound'[s], ~crossed'[s]
       PROVE  Stands(slots'[s], meaning'[s])
  <2>1. CASE s = d
    <3>1. good /\ ~low
      BY <1>8, <1>12, <2>1
    <3>. QED  BY <1>7, <1>9, <1>10, <1>11, <2>1, <3>1
  <2>2. CASE s # d
    <3>1. slots'[s] = slots[s] /\ meaning'[s] = meaning[s] /\ sound'[s] = sound[s] /\ crossed'[s] = crossed[s]
      BY <1>1, <1>6, <2>2
    <3>. QED  BY <1>1, <1>12, <3>1
  <2>. QED  BY <2>1, <2>2
<1>13. \A s \in CipherNames : sound'[s] /\ ~crossed'[s] => (Stands(slots[s], meaning[s]))'
  BY <1>2, <1>12 DEF Stands
<1>14. ASSUME NEW s \in CipherNames, overfull'[s], ~crossed'[s]
       PROVE  Decrypt(slots'[s]) = meaning'[s]
  <2>1. CASE s = d
    <3>1. full /\ ~low
      BY <1>8, <1>14, <2>1
    <3>. QED  BY <1>7, <1>9, <1>10, <1>11, <2>1, <3>1
  <2>2. CASE s # d
    <3>1. slots'[s] = slots[s] /\ meaning'[s] = meaning[s] /\ overfull'[s] = overfull[s] /\ crossed'[s] = crossed[s]
      BY <1>1, <1>6, <2>2
    <3>. QED  BY <1>1, <1>14, <3>1
  <2>. QED  BY <2>1, <2>2
<1>15. \A s \in CipherNames : overfull'[s] /\ ~crossed'[s] => (Decrypt(slots[s]) = meaning[s])'
  BY <1>2, <1>3, <1>14 DEF Decrypt, DecryptFull
<1>. QED  BY <1>2, <1>4, <1>5, <1>9, <1>11, <1>13, <1>15 DEF ShortintInv

LEMMA InitShortint == ShortintInit => ShortintInv
<1> SUFFICES ASSUME ShortintInit PROVE ShortintInv
  OBVIOUS
<1>1. /\ Chosen /\ meaning \in [CipherNames -> 0 .. mm - 1]
      /\ slots = [s \in CipherNames |-> Fresh(meaning[s])]
      /\ sound = [s \in CipherNames |-> TRUE] /\ crossed = [s \in CipherNames |-> FALSE]
      /\ overfull = [s \in CipherNames |-> FALSE]
  BY DEF ShortintInit, Chosen
<1>2. ASSUME NEW s \in CipherNames
      PROVE  Fresh(meaning[s]) \in Ciphertexts /\ Stands(Fresh(meaning[s]), meaning[s])
  <2> DEFINE m == meaning[s]
  <2>1. m \in 0 .. mm - 1
    BY <1>1
  <2> HIDE DEF m
  <2>2. m \in 0 .. Padded - 1 /\ m < mm
    BY <1>1, <2>1, Sizes
  <2>3. Fresh(m) \in Ciphertexts /\ Stands(Fresh(m), m)
    BY <1>1, <2>2, Freshly
  <2>. QED  BY <2>3 DEF m
<1>. QED  BY <1>1, <1>2 DEF ShortintInv

\* What a call gives stands for m if all that it stems from does.
Meant(result, m, from, below) ==
  /\ result.ok \in BOOLEAN /\ result.ct \in Ciphertexts
  /\ result.ok /\ ~below /\ (\A s \in from : sound[s] /\ ~crossed[s]) => Stands(result.ct, m % mm)

\* What a refused addition leaves decrypts to m all the same.
Done(result, m, from, below) ==
  ~result.ok /\ ~below /\ (\A s \in from : sound[s] /\ ~crossed[s]) => Decrypt(result.ct) = m % mm

LEMMA Returned ==
  ASSUME ShortintInv, NEW d \in CipherNames, NEW result, NEW m, NEW from \in SUBSET CipherNames, NEW below \in BOOLEAN,
         Meant(result, m, from, below), ByValue(d, result), Remember(d, TRUE, m, from, below)
  PROVE  ShortintInv'
<1> DEFINE ct == result.ct
<1>1. /\ ct \in Ciphertexts /\ UNCHANGED params /\ slots' = [slots EXCEPT ![d] = ct]
      /\ ~below /\ (\A s \in from : sound[s] /\ ~crossed[s]) => Stands(ct, m % mm)
  BY DEF Meant, ByValue
<1> HIDE DEF ct
<1>2. TRUE \in BOOLEAN
  OBVIOUS
<1>. QED  BY <1>1, <1>2, Written, Zenon

LEMMA Assigned ==
  ASSUME ShortintInv, NEW d \in CipherNames, NEW result, NEW m, NEW from \in SUBSET CipherNames, NEW below \in BOOLEAN,
         Meant(result, m, from, below), Done(result, m, from, below),
         InPlace(d, result), Remember(d, result.ok, m, from, below)
  PROVE  ShortintInv'
<1> DEFINE ct == result.ct
           ok == result.ok
<1>1. /\ ct \in Ciphertexts /\ UNCHANGED params /\ slots' = [slots EXCEPT ![d] = ct] /\ ok \in BOOLEAN
      /\ ok /\ ~below /\ (\A s \in from : sound[s] /\ ~crossed[s]) => Stands(ct, m % mm)
      /\ ~ok /\ ~below /\ (\A s \in from : sound[s] /\ ~crossed[s]) => Decrypt(ct) = m % mm
  BY DEF Meant, Done, InPlace
<1>2. Remember(d, ok, m, from, below)
  OBVIOUS
<1> HIDE DEF ct, ok
<1>. QED  BY <1>1, <1>2, Written, Zenon

\* An assigning method that leaves what the ciphertext stands for if it fails.
LEMMA Replaced ==
  ASSUME ShortintInv, NEW d \in CipherNames, NEW result, NEW m, NEW from \in SUBSET CipherNames,
         Meant(Ok(result.ct), m, from, FALSE), InPlace(d, result), Remember(d, TRUE, m, from, FALSE)
  PROVE  ShortintInv'
<1> DEFINE ct == result.ct
<1>1. /\ ct \in Ciphertexts /\ UNCHANGED params /\ slots' = [slots EXCEPT ![d] = ct]
      /\ (\A s \in from : sound[s] /\ ~crossed[s]) => Stands(ct, m % mm)
  BY DEF Meant, InPlace, Ok
<1> HIDE DEF ct
<1>2. TRUE \in BOOLEAN /\ FALSE \in BOOLEAN
  OBVIOUS
<1>. QED  BY <1>1, <1>2, Written, Zenon

LEMMA StepAdd ==
  ASSUME ShortintInv, NEW a \in CipherNames, NEW b \in CipherNames, NEW d \in CipherNames,
         \/ Add(a, b, d) \/ UncheckedAdd(a, b, d)
         \/ AddAssign(a, b) \/ UncheckedAddAssign(a, b)
  PROVE  ShortintInv'
<1>1. /\ Chosen /\ slots[a] \in Ciphertexts /\ slots[b] \in Ciphertexts
      /\ \A s \in CipherNames : sound[s] /\ ~crossed[s] => Stands(slots[s], meaning[s])
  BY DEF ShortintInv
<1>2. Meant(AddOf(slots[a], slots[b]), meaning[a] + meaning[b], {a, b}, FALSE)
  BY <1>1, AddsCleaned DEF Meant
<1>3. Meant(UncheckedAddOf(slots[a], slots[b]), meaning[a] + meaning[b], {a, b}, FALSE)
  BY <1>1, Adds DEF Meant
<1>9. Done(AddOf(slots[a], slots[b]), meaning[a] + meaning[b], {a, b}, FALSE)
  <2> DEFINE result == AddOf(slots[a], slots[b])
  <2>1. \A x, y : Stands(slots[a], x) /\ Stands(slots[b], y) =>
          IF result.ok THEN Stands(result.ct, (x + y) % mm) ELSE Decrypt(result.ct) = (x + y) % mm
    BY <1>1, AddsCleaned
  <2> HIDE DEF result
  <2>2. (\A s \in {a, b} : sound[s] /\ ~crossed[s]) =>
          Stands(slots[a], meaning[a]) /\ Stands(slots[b], meaning[b])
    BY <1>1
  <2>3. Done(result, meaning[a] + meaning[b], {a, b}, FALSE)
    BY <2>1, <2>2 DEF Done
  <2>. QED  BY <2>3 DEF result
<1>10. Done(UncheckedAddOf(slots[a], slots[b]), meaning[a] + meaning[b], {a, b}, FALSE)
  <2> DEFINE result == UncheckedAddOf(slots[a], slots[b])
  <2>1. ~result.ok => \A x, y : Stands(slots[a], x) /\ Stands(slots[b], y) => Decrypt(result.ct) = (x + y) % mm
    BY <1>1, Adds
  <2> HIDE DEF result
  <2>2. (\A s \in {a, b} : sound[s] /\ ~crossed[s]) =>
          Stands(slots[a], meaning[a]) /\ Stands(slots[b], meaning[b])
    BY <1>1
  <2>3. Done(result, meaning[a] + meaning[b], {a, b}, FALSE)
    BY <2>1, <2>2 DEF Done
  <2>. QED  BY <2>3 DEF result
<1>4. FALSE \in BOOLEAN /\ {a, b} \in SUBSET CipherNames
  OBVIOUS
<1>5. CASE Add(a, b, d)
  BY <1>2, <1>4, <1>5, Returned, Zenon DEF Add
<1>6. CASE UncheckedAdd(a, b, d)
  BY <1>3, <1>4, <1>6, Returned, Zenon DEF UncheckedAdd
<1>7. CASE AddAssign(a, b)
  BY <1>2, <1>4, <1>7, <1>9, Assigned, Zenon DEF AddAssign
<1>8. CASE UncheckedAddAssign(a, b)
  BY <1>3, <1>4, <1>8, <1>10, Assigned, Zenon DEF UncheckedAddAssign
<1>. QED  BY <1>5, <1>6, <1>7, <1>8

LEMMA StepSub ==
  ASSUME ShortintInv, NEW a \in CipherNames, NEW b \in CipherNames, NEW d \in CipherNames,
         \/ Sub(a, b, d) \/ UncheckedSub(a, b, d)
         \/ SubAssign(a, b) \/ UncheckedSubAssign(a, b)
  PROVE  ShortintInv'
<1> DEFINE cleaned == Below(MessageExtract(slots[a]), MessageExtract(slots[b]))
           raw == Below(slots[a], slots[b])
<1>1. /\ Chosen /\ slots[a] \in Ciphertexts /\ slots[b] \in Ciphertexts
      /\ \A s \in CipherNames : sound[s] /\ ~crossed[s] => Stands(slots[s], meaning[s])
  BY DEF ShortintInv
<1>2. Meant(SubOf(slots[a], slots[b]), meaning[a] - meaning[b], {a, b}, cleaned)
  BY <1>1, SubtractsCleaned DEF Meant
<1>3. Meant(UncheckedSubOf(slots[a], slots[b]), meaning[a] - meaning[b], {a, b}, raw)
  BY <1>1, Subtracts DEF Meant
<1>9. Done(SubOf(slots[a], slots[b]), meaning[a] - meaning[b], {a, b}, cleaned)
  BY <1>1, SubtractsCleaned DEF Done
<1>10. Done(UncheckedSubOf(slots[a], slots[b]), meaning[a] - meaning[b], {a, b}, raw)
  BY <1>1, Subtracts DEF Done
<1>4. cleaned \in BOOLEAN /\ raw \in BOOLEAN /\ {a, b} \in SUBSET CipherNames
  BY DEF Below
<1>5. CASE Sub(a, b, d)
  BY <1>2, <1>4, <1>5, Returned, Zenon DEF Sub
<1>6. CASE UncheckedSub(a, b, d)
  BY <1>3, <1>4, <1>6, Returned, Zenon DEF UncheckedSub
<1>7. CASE SubAssign(a, b)
  BY <1>2, <1>4, <1>7, <1>9, Assigned, Zenon DEF SubAssign
<1>8. CASE UncheckedSubAssign(a, b)
  BY <1>3, <1>4, <1>8, <1>10, Assigned, Zenon DEF UncheckedSubAssign
<1>. QED  BY <1>5, <1>6, <1>7, <1>8
\* A clear factor: a refusal leaves the ciphertext and what it stands for.
Scaled(ct, k, result) ==
  /\ result.ok \in BOOLEAN /\ result.ct \in Ciphertexts
  /\ \A i : Stands(ct, i) => IF result.ok THEN Stands(result.ct, (i * k) % mm) ELSE Stands(result.ct, i)

LEMMA ScaledMeaning ==
  ASSUME ShortintInv, NEW a \in CipherNames, NEW k \in Nat, NEW result, Scaled(slots[a], k, result)
  PROVE  /\ Meant(result, k * meaning[a], {a}, FALSE)
         /\ Meant(Ok(result.ct), IF result.ok THEN k * meaning[a] ELSE meaning[a], {a}, FALSE)
<1> DEFINE i == meaning[a]
<1>1. /\ sound[a] /\ ~crossed[a] => Stands(slots[a], i)
      /\ i \in Nat /\ mm \in Nat /\ i < mm
  BY Sizes DEF ShortintInv
<1> HIDE DEF i
<1>2. /\ result.ok \in BOOLEAN /\ result.ct \in Ciphertexts
      /\ Stands(slots[a], i) => IF result.ok THEN Stands(result.ct, (i * k) % mm) ELSE Stands(result.ct, i)
  BY DEF Scaled
<1>3. i % mm = i /\ i * k = k * i
  BY <1>1
<1>4. sound[a] /\ ~crossed[a] =>
        IF result.ok THEN Stands(result.ct, (k * i) % mm) ELSE Stands(result.ct, i % mm)
  BY <1>1, <1>3, <1>2
<1>5. Meant(result, k * i, {a}, FALSE)
  BY <1>4, <1>2 DEF Meant
<1>6. CASE result.ok
  <2>1. Meant(Ok(result.ct), k * i, {a}, FALSE)
    BY <1>4, <1>6, <1>2 DEF Meant, Ok
  <2>. QED  BY <1>5, <1>6, <2>1 DEF i
<1>7. CASE ~result.ok
  <2>1. Meant(Ok(result.ct), i, {a}, FALSE)
    BY <1>4, <1>7, <1>2 DEF Meant, Ok
  <2>. QED  BY <1>5, <1>7, <2>1 DEF i
<1>. QED  BY <1>6, <1>7

LEMMA StepScale ==
  ASSUME ShortintInv, NEW a \in CipherNames, NEW d \in CipherNames, NEW k \in Nat,
         ScalarMulAssign(a, k) \/ UncheckedScalarMulAssign(a, k) \/ ScalarMul(a, k, d)
  PROVE  ShortintInv'
<1> DEFINE cleaned == ScalarMulOf(slots[a], k)
           raw == UncheckedScalarMulOf(slots[a], k)
           meant(result) == IF result.ok THEN k * meaning[a] ELSE meaning[a]
<1>1. Chosen /\ slots[a] \in Ciphertexts
  BY DEF ShortintInv
<1>2. Scaled(slots[a], k, cleaned)
  BY <1>1, ScalesCleaned DEF Scaled
<1>3. Scaled(slots[a], k, raw)
  BY <1>1, Scales DEF Scaled
<1> HIDE DEF cleaned, raw
<1>4. /\ Meant(cleaned, k * meaning[a], {a}, FALSE)
      /\ Meant(Ok(cleaned.ct), meant(cleaned), {a}, FALSE)
      /\ Meant(Ok(raw.ct), meant(raw), {a}, FALSE)
  <2>1. /\ Meant(cleaned, k * meaning[a], {a}, FALSE)
        /\ Meant(Ok(cleaned.ct), IF cleaned.ok THEN k * meaning[a] ELSE meaning[a], {a}, FALSE)
    BY <1>2, ScaledMeaning, Zenon
  <2>2. Meant(Ok(raw.ct), IF raw.ok THEN k * meaning[a] ELSE meaning[a], {a}, FALSE)
    BY <1>3, ScaledMeaning, Zenon
  <2>. QED  BY <2>1, <2>2
<1>5. FALSE \in BOOLEAN /\ {a} \in SUBSET CipherNames
  OBVIOUS
<1>6. CASE ScalarMulAssign(a, k)
  <2>1. InPlace(a, cleaned) /\ Remember(a, TRUE, meant(cleaned), {a}, FALSE)
    BY <1>6, Zenon DEF ScalarMulAssign, cleaned
  <2> HIDE DEF meant
  <2>. QED  BY <1>4, <1>5, <2>1, Replaced, Zenon
<1>7. CASE UncheckedScalarMulAssign(a, k)
  <2>1. InPlace(a, raw) /\ Remember(a, TRUE, meant(raw), {a}, FALSE)
    BY <1>7, Zenon DEF UncheckedScalarMulAssign, raw
  <2> HIDE DEF meant
  <2>. QED  BY <1>4, <1>5, <2>1, Replaced, Zenon
<1>8. CASE ScalarMul(a, k, d)
  <2>1. ByValue(d, cleaned) /\ Remember(d, TRUE, k * meaning[a], {a}, FALSE)
    BY <1>8, Zenon DEF ScalarMul, cleaned
  <2>. QED  BY <1>4, <1>5, <2>1, Returned, Zenon
<1>. QED  BY <1>6, <1>7, <1>8

\* To negate is to multiply by the message modulus less one.
LEMMA Complement ==
  ASSUME NEW n \in Nat, n > 0, NEW i \in Int
  PROVE  (i * (n - 1)) % n = (n - i) % n
<1>1. i - 1 \in Int /\ i * (n - 1) = i * n - i /\ n * (i - 1) = i * n - n
  OBVIOUS
<1>2. i * (n - 1) = (n - i) + n * (i - 1) /\ i * (n - 1) \in Int /\ n - i \in Int
  BY <1>1
<1>3. Congruent(i * (n - 1), n - i, n)
  BY <1>1, <1>2 DEF Congruent
<1> DEFINE x == i * (n - 1)
           y == n - i
<1>4. x \in Int /\ y \in Int /\ Congruent(x, y, n)
  BY <1>2, <1>3
<1> HIDE DEF x, y
<1>5. x % n = y % n
  BY <1>4, CongruentSame
<1>. QED  BY <1>5 DEF x, y

LEMMA StepNeg ==
  ASSUME ShortintInv, NEW a \in CipherNames, NEW d \in CipherNames, NegAssign(a) \/ Neg(a, d)
  PROVE  ShortintInv'
<1> DEFINE i == meaning[a]
           k == mm - 1
           result == ScalarMulOf(slots[a], k)
<1>1. /\ Chosen /\ slots[a] \in Ciphertexts /\ k \in Nat /\ mm \in Nat /\ mm > 0 /\ i \in Int
      /\ sound[a] /\ ~crossed[a] => Stands(slots[a], i)
  BY Sizes DEF ShortintInv
<1>2. CASE NegAssign(a)
  <2>1. ScalarMulAssign(a, k)
    BY <1>2 DEF NegAssign
  <2> HIDE DEF k
  <2>. QED  BY <1>1, <2>1, StepScale
<1>3. CASE Neg(a, d)
  <2>1. ByValue(d, result) /\ Remember(d, TRUE, mm - i, {a}, FALSE)
    BY <1>3, Zenon DEF Neg, NegOf
  <2>2. (i * k) % mm = (mm - i) % mm
    <3> HIDE DEF i
    <3>. QED  BY <1>1, Complement
  <2> HIDE DEF k
  <2>3. /\ result.ok \in BOOLEAN /\ result.ct \in Ciphertexts
        /\ result.ok => \A v : Stands(slots[a], v) => Stands(result.ct, (v * k) % mm)
    BY <1>1, ScalesCleaned
  <2> HIDE DEF i, result
  <2>4. Meant(result, mm - i, {a}, FALSE)
    BY <1>1, <2>2, <2>3 DEF Meant
  <2>5. FALSE \in BOOLEAN /\ {a} \in SUBSET CipherNames
    OBVIOUS
  <2>. QED  BY <2>1, <2>4, <2>5, Returned, Zenon
<1>. QED  BY <1>2, <1>3

LEMMA StepExtract ==
  ASSUME ShortintInv, NEW a \in CipherNames, MessageExtractAssign(a)
  PROVE  ShortintInv'
<1> DEFINE x == MessageExtract(slots[a])
           i == meaning[a]
<1>1. /\ Chosen /\ slots[a] \in Ciphertexts /\ i \in Nat /\ mm \in Nat /\ i < mm
      /\ sound[a] /\ ~crossed[a] => Stands(slots[a], i)
  BY Sizes DEF ShortintInv
<1>2. x \in Ciphertexts /\ (sound[a] /\ ~crossed[a] => Stands(x, i)) /\ i % mm = i
  <2>1. x \in Ciphertexts /\ (sound[a] /\ ~crossed[a] => Stands(x, i))
    BY <1>1, Extracts
  <2> HIDE DEF i
  <2>. QED  BY <1>1, <2>1
<1>3. InPlace(a, Ok(x)) /\ Remember(a, TRUE, i, {a}, FALSE)
  BY Zenon DEF MessageExtractAssign
<1> HIDE DEF x, i
<1>4. Meant(Ok(x), i, {a}, FALSE) /\ Ok(x).ok
  BY <1>2 DEF Meant, Ok
<1>5. Ok(x).ct = x /\ FALSE \in BOOLEAN /\ {a} \in SUBSET CipherNames
  BY DEF Ok
<1>6. Meant(Ok(Ok(x).ct), i, {a}, FALSE)
  BY <1>4, <1>5
<1>. QED  BY <1>3, <1>5, <1>6, Replaced, Zenon

LEMMA StepLookup ==
  ASSUME ShortintInv, NEW a \in CipherNames, NEW d \in CipherNames, NEW name \in Tables, ApplyLookupTable(a, name, d)
  PROVE  ShortintInv'
<1> DEFINE x == Bootstrapped(slots[a], UnivariateTable(name))
           m == TableMeaning(name, meaning[a])
           given == GivesMessages(name)
<1>1. /\ Chosen /\ slots[a] \in Ciphertexts /\ name \in {"bitnot", "next", "double"}
      /\ sound[a] /\ ~crossed[a] => Stands(slots[a], meaning[a])
  BY ParametersAssumption DEF ShortintInv
<1>2. x \in Ciphertexts /\ given \in BOOLEAN
      /\ (given /\ sound[a] /\ ~crossed[a] => Stands(x, m % mm))
      /\ (~given /\ sound[a] /\ ~crossed[a] => Decrypt(x) = m % mm)
  BY <1>1, LooksUp DEF GivesMessages
<1>3. ByValue(d, Ok(x)) /\ Remember(d, given, m, {a}, FALSE)
  BY Zenon DEF ApplyLookupTable
<1> HIDE DEF x, m, given
<1>4. UNCHANGED params /\ slots' = [slots EXCEPT ![d] = x]
  BY <1>3 DEF ByValue, Ok
<1>5. /\ given /\ ~FALSE /\ (\A s \in {a} : sound[s] /\ ~crossed[s]) => Stands(x, m % mm)
      /\ ~given /\ ~FALSE /\ (\A s \in {a} : sound[s] /\ ~crossed[s]) => Decrypt(x) = m % mm
  BY <1>2
<1>6. FALSE \in BOOLEAN /\ {a} \in SUBSET CipherNames
  OBVIOUS
<1>. QED  BY <1>2, <1>3, <1>4, <1>5, <1>6, Written, Zenon

LEMMA StepBivariate ==
  ASSUME ShortintInv, NEW a \in CipherNames, NEW b \in CipherNames, NEW d \in CipherNames, NEW method \in Methods,
         ApplyBivariate(a, b, method, d) \/ ApplyBivariateAssign(a, b, method)
  PROVE  ShortintInv'
<1> DEFINE result == BivariateOf(slots[a], slots[b], method)
           i == meaning[a]
           m == Evaluate(method, meaning[a], meaning[b])
<1>1. /\ Chosen /\ slots[a] \in Ciphertexts /\ slots[b] \in Ciphertexts
      /\ \A s \in CipherNames : sound[s] /\ ~crossed[s] => Stands(slots[s], meaning[s])
      /\ i \in Nat /\ mm \in Nat /\ i < mm
  BY Sizes DEF ShortintInv
<1>2. /\ result.ok \in BOOLEAN /\ result.ct \in Ciphertexts
      /\ ~result.ok => \A v : Stands(slots[a], v) => Stands(result.ct, v)
      /\ result.ok => \A v, w : Stands(slots[a], v) /\ Stands(slots[b], w) =>
                                  Stands(result.ct, Evaluate(method, v, w) % mm)
  BY <1>1, Bivariate
<1>3. i % mm = i
  <2> HIDE DEF i
  <2>. QED  BY <1>1
<1>4. /\ ApplyBivariate(a, b, method, d) => ByValue(d, result) /\ Remember(d, TRUE, m, {a, b}, FALSE)
      /\ ApplyBivariateAssign(a, b, method) =>
           /\ InPlace(a, result)
           /\ result.ok => Remember(a, TRUE, m, {a, b}, FALSE)
           /\ ~result.ok => Remember(a, TRUE, i, {a}, FALSE)
  BY Zenon DEF ApplyBivariate, ApplyBivariateAssign
<1> HIDE DEF result
<1>5. result.ok /\ (\A s \in {a, b} : sound[s] /\ ~crossed[s]) => Stands(result.ct, m % mm)
  BY <1>1, <1>2
<1>6. ~result.ok /\ (\A s \in {a} : sound[s] /\ ~crossed[s]) => Stands(result.ct, i % mm)
  BY <1>1, <1>2, <1>3
<1> HIDE DEF m, i
<1>7. FALSE \in BOOLEAN /\ {a} \in SUBSET CipherNames /\ {a, b} \in SUBSET CipherNames
  OBVIOUS
<1>8. Meant(result, m, {a, b}, FALSE)
  BY <1>2, <1>5 DEF Meant
<1>9. CASE ApplyBivariate(a, b, method, d)
  BY <1>4, <1>7, <1>8, <1>9, Returned, Zenon
<1>10. CASE ApplyBivariateAssign(a, b, method) /\ result.ok
  <2>1. Meant(Ok(result.ct), m, {a, b}, FALSE)
    BY <1>2, <1>5, <1>10 DEF Meant, Ok
  <2>. QED  BY <1>4, <1>7, <1>10, <2>1, Replaced, Zenon
<1>11. CASE ApplyBivariateAssign(a, b, method) /\ ~result.ok
  <2>1. Meant(Ok(result.ct), i, {a}, FALSE)
    BY <1>2, <1>6, <1>11 DEF Meant, Ok
  <2>. QED  BY <1>4, <1>7, <1>11, <2>1, Replaced, Zenon
<1>. QED  BY <1>9, <1>10, <1>11

LEMMA StepEncrypt ==
  ASSUME ShortintInv, NEW d \in CipherNames, NEW message \in 0 .. mm - 1, Encrypt(d, message)
  PROVE  ShortintInv'
<1>1. Chosen /\ UNCHANGED params /\ slots' = [slots EXCEPT ![d] = Fresh(message)]
  BY DEF ShortintInv, Encrypt
<1>2. Remember(d, TRUE, message, {}, FALSE)
  BY Zenon DEF Encrypt
<1>3. message \in 0 .. Padded - 1 /\ message < mm /\ message % mm = message
  BY <1>1, Sizes
<1>4. Fresh(message) \in Ciphertexts /\ Stands(Fresh(message), message % mm)
  BY <1>1, <1>3, Freshly
<1>5. TRUE \in BOOLEAN /\ FALSE \in BOOLEAN /\ {} \in SUBSET CipherNames
  OBVIOUS
<1>. QED  BY <1>1, <1>2, <1>4, <1>5, Written, Zenon

LEMMA StepShortint == ShortintInv /\ [ShortintNext]_shortintVars => ShortintInv'
<1> SUFFICES ASSUME ShortintInv, [ShortintNext]_shortintVars PROVE ShortintInv'
  OBVIOUS
<1>1. CASE \E d \in CipherNames, message \in 0 .. mm - 1 : Encrypt(d, message)
  BY <1>1, StepEncrypt
<1>2. CASE \E a, b, d \in CipherNames : Add(a, b, d) \/ UncheckedAdd(a, b, d) \/ Sub(a, b, d) \/ UncheckedSub(a, b, d)
  BY <1>2, StepAdd, StepSub
<1>3. CASE \E a, b \in CipherNames :
             AddAssign(a, b) \/ UncheckedAddAssign(a, b) \/ SubAssign(a, b) \/ UncheckedSubAssign(a, b)
  BY <1>3, StepAdd, StepSub
<1>4. CASE \E a \in CipherNames, k \in Scalars : ScalarMulAssign(a, k) \/ UncheckedScalarMulAssign(a, k)
  BY <1>4, StepScale, ParametersAssumption
<1>5. CASE \E a, d \in CipherNames, k \in Scalars : ScalarMul(a, k, d)
  BY <1>5, StepScale, ParametersAssumption
<1>6. CASE \E a, d \in CipherNames : Neg(a, d)
  BY <1>6, StepNeg
<1>7. CASE \E a \in CipherNames : MessageExtractAssign(a) \/ NegAssign(a)
  BY <1>7, StepExtract, StepNeg
<1>8. CASE \E a, d \in CipherNames, name \in Tables : ApplyLookupTable(a, name, d)
  BY <1>8, StepLookup
<1>9. CASE \E a, b, d \in CipherNames, method \in Methods : ApplyBivariate(a, b, method, d)
  BY <1>9, StepBivariate
<1>10. CASE \E a, b \in CipherNames, method \in Methods : ApplyBivariateAssign(a, b, method)
  BY <1>10, StepBivariate
<1>11. CASE UNCHANGED shortintVars
  <2>1. UNCHANGED <<params, slots, meaning, sound, overfull, crossed>>
    BY <1>11 DEF shortintVars
  <2>2. mm' = mm /\ cm' = cm
    BY <2>1 DEF mm, cm
  <2>. QED  BY <2>1, <2>2 DEF ShortintInv, Chosen, Ciphertexts, Stands, Decrypt, DecryptFull, Padded, TotalModulus,
       MaxDegree, MaxNoise
<1>. QED  BY <1>1, <1>2, <1>3, <1>4, <1>5, <1>6, <1>7, <1>8, <1>9, <1>10, <1>11 DEF ShortintNext
-----------------------------------------------------------------------------
\* Every call, a refused one too, leaves ciphertexts of the range that the
\* parameters allow: a plaintext modulo twice the total modulus, a degree
\* below the padding bit and a noise below the bound.
THEOREM ShortintTypeCorrect == ShortintSpec => []ShortintTypeOK
<1>1. ShortintInit => ShortintInv
  BY InitShortint
<1>2. ShortintInv /\ [ShortintNext]_shortintVars => ShortintInv'
  BY StepShortint
<1>3. ShortintInv => ShortintTypeOK
  BY DEF ShortintInv, ShortintTypeOK, Ciphertexts
<1>. QED  BY <1>1, <1>2, <1>3, PTL DEF ShortintSpec

\* A ciphertext decrypts to what the calls make of the messages, and its
\* plaintext is within its degree: no call, checked or not, reaches the
\* padding bit with an operand that is sound and stems from no subtraction
\* below zero.  An addition in place that is refused leaves the sum.
THEOREM DegreeIsHonest == ShortintSpec => []DegreeBoundsPlaintext
<1>1. ShortintInit => ShortintInv
  BY InitShortint
<1>2. ShortintInv /\ [ShortintNext]_shortintVars => ShortintInv'
  BY StepShortint
<1>3. ShortintInv => DegreeBoundsPlaintext
  <2>1. ASSUME ShortintInv, NEW s \in CipherNames, sound[s], ~crossed[s]
        PROVE  slots[s].plain <= slots[s].degree /\ Decrypt(slots[s]) = meaning[s]
    <3>1. Chosen /\ slots[s] \in Ciphertexts /\ Stands(slots[s], meaning[s])
      BY <2>1 DEF ShortintInv
    <3>2. Decrypt(slots[s]) = meaning[s]
      BY <3>1, Decrypts
    <3>. QED  BY <3>1, <3>2 DEF Stands
  <2>2. ASSUME ShortintInv, NEW s \in CipherNames, overfull[s], ~crossed[s]
        PROVE  Decrypt(slots[s]) = meaning[s]
    BY <2>2 DEF ShortintInv
  <2>. QED  BY <2>1, <2>2 DEF DegreeBoundsPlaintext
<1>. QED  BY <1>1, <1>2, <1>3, PTL DEF ShortintSpec
=============================================================================
