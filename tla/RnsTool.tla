------------------------------ MODULE RnsTool -------------------------------
(***************************************************************************)
(* Residue number systems as the BFV and BGV schemes use them              *)
(* (silent-math: arith, numth, rns, rns_tool).  A number modulo the        *)
(* product of a base, a set of coprime moduli, is a function from the      *)
(* base to residues.  An operator converts one coefficient; the code       *)
(* applies it to each coefficient of a polynomial.                         *)
(*                                                                         *)
(* A machine word has the values 0 .. Word - 1.  Some multiples of a       *)
(* modulus are counted in floating point; drift, in units of 1 / (2 * the  *)
(* base's product), is the error of that sum.                              *)
(***************************************************************************)
EXTENDS Integers, Sequences, FiniteSets, FiniteSetsExt, TLC

CONSTANT Word

Failed == 0 - 1
-----------------------------------------------------------------------------
\* Arithmetic on words.  A lazy product may keep one multiple of m too many.
AddMod(a, b, m) == IF a + b >= m THEN a + b - m ELSE a + b
SubMod(a, b, m) == IF a < b THEN a - b + m ELSE a - b
ReduceOnce(v, m) == IF v >= m THEN v - m ELSE v
NegMod(a, m) == IF a = 0 THEN 0 ELSE m - a
MulMod(a, b, m) == (a * b) % m
ShoupQuotient(b, m) == (b * Word) \div m
Lazy(a, b, m) == (a * b - ((a * ShoupQuotient(b, m)) \div Word) * m) % Word
Shoup(a, b, m) == ReduceOnce(Lazy(a, b, m), m)

\* One word times another in two halves, with the quotient estimated from the
\* double-word ratio floor(Word^2 / m).
Carried(first, second, whole) ==
  whole + first \div Word + second \div Word + ((first % Word) + (second % Word)) \div Word
Estimate(z0, z1, low, high) ==
  Carried((z0 * low) \div Word + ((z0 * high) % Word), z1 * low, z1 * high + (z0 * high) \div Word)
Barrett(a, b, m) ==
  LET Ratio == (Word * Word) \div m
      q == Estimate((a * b) % Word, (a * b) \div Word, Ratio % Word, Ratio \div Word)
  IN  ReduceOnce((((a * b) % Word) - q * m) % Word, m)

\* round(p / q * the centred value), halves away from zero.
AwayFromZero(v, q) == IF v >= 0 THEN (v + q \div 2) \div q ELSE 0 - ((q \div 2 - v) \div q)
RoundCentred(v, q, p) == AwayFromZero((IF v > q \div 2 THEN v - q ELSE v) * p, q) % p
-----------------------------------------------------------------------------
RECURSIVE Gcd(_, _), ExtendedGcd(_, _, _, _), ModPow(_, _, _), OddPart(_)
Gcd(a, b) == IF b = 0 THEN a ELSE Gcd(b, a % b)
ExtendedGcd(a, b, x0, x1) ==
  IF b = 0 THEN [gcd |-> a, x |-> x0]
  ELSE ExtendedGcd(b, a % b, x1, x0 - (a \div b) * x1)
InverseOf(e, m) == IF e.gcd # 1 THEN Failed ELSE e.x % m
ModInverse(v, m) == InverseOf(ExtendedGcd(v, m, 1, 0), m)

ModPow(b, e, m) ==
  IF e = 0 THEN 1 % m
  ELSE (ModPow((b * b) % m, e \div 2, m) * (IF e % 2 = 1 THEN b % m ELSE 1)) % m

\* Trial division by the small primes, then Miller-Rabin with them as bases.
SmallPrimes == {2, 3, 5, 7, 11, 13, 17, 19, 23, 29, 31, 37}
OddPart(n) == IF n % 2 = 1 THEN n ELSE OddPart(n \div 2)
Witness(a, n) ==
  \A d \in {OddPart(n - 1)} :
    /\ ModPow(a, d, n) # 1
    /\ \A k \in 0 .. 15 : d * 2 ^ k < n - 1 => ModPow(a, d * 2 ^ k, n) # n - 1
IsPrime(n) ==
  /\ n >= 2
  /\ \/ n \in SmallPrimes
     \/ \A p \in SmallPrimes : n % p # 0 /\ ~Witness(p, n)

IsPowerOfTwo(n) == n > 0 /\ \E k \in 0 .. 30 : n = 2 ^ k
IsPrimitiveRoot(root, degree, m) ==
  /\ IsPowerOfTwo(degree) /\ m > 0
  /\ ModPow(root, degree, m) = 1 /\ ModPow(root, degree \div 2, m) # 1
\* The root of the first candidate that gives one.
Least(S) == IF S = {} THEN Failed ELSE Min(S)
RootOf(c, degree, m) == ModPow(c, (m - 1) \div degree, m)
FirstWithRoot(degree, m) ==
  Least({c \in 2 .. m - 1 : \A root \in {RootOf(c, degree, m)} : root # 1 /\ IsPrimitiveRoot(root, degree, m)})
TryPrimitiveRoot(degree, m) ==
  IF ~IsPowerOfTwo(degree) \/ m < 3 \/ (m - 1) % degree # 0 THEN Failed
  ELSE LET c == FirstWithRoot(degree, m) IN IF c = Failed THEN Failed ELSE RootOf(c, degree, m)

Factorize(n) == {d \in 2 .. n : n % d = 0 /\ \A e \in 2 .. d - 1 : d % e # 0}
RECURSIVE EulerPhiOf(_, _)
EulerPhiOf(n, primes) ==
  IF primes = {} THEN n
  ELSE LET p == Min(primes) IN EulerPhiOf((n \div p) * (p - 1), primes \ {p})
EulerPhi(n) == EulerPhiOf(n, Factorize(n))

\* Primes that are 1 modulo the step, above one step.
NttPrimes(from, to, step) == {x \in from .. to : x > step /\ (x - 1) % step = 0 /\ IsPrime(x)}
Greatest(S) == IF S = {} THEN Failed ELSE Max(S)
PrevNttPrime(start, step) == Greatest(NttPrimes(step + 1, start - 1, step))
\* In the code the search ends with the words.
NextNttPrime(start, step) == Least(NttPrimes(start, 2 * Word, step))
FirstNttPrimeWithBits(bits, step) == Least(NttPrimes(2 ^ (bits - 1), 2 ^ bits - 1, step))
-----------------------------------------------------------------------------
\* A base and its constants; a number's residues, and the number.
IsBase(B) == B # {} /\ \A p, q \in B : p # q => Gcd(p, q) = 1
RECURSIVE Prod(_), SumOver(_, _)
Prod(B) == IF B = {} THEN 1 ELSE LET q == CHOOSE q \in B : TRUE IN q * Prod(B \ {q})
SumOver(terms, B) ==
  IF B = {} THEN 0 ELSE LET q == CHOOSE q \in B : TRUE IN terms[q] + SumOver(terms, B \ {q})
Total(terms) == SumOver(terms, DOMAIN terms)
Hat(B, q) == Prod(B \ {q})
HatInv(B, q) == ModInverse(Hat(B, q) % q, q)
Decompose(x, B) == [q \in B |-> x % q]
Compose(r) ==
  LET B == DOMAIN r
  IN  Total([q \in B |-> MulMod(r[q], HatInv(B, q), q) * Hat(B, q)]) % Prod(B)
Restricted(r, B) == [q \in B |-> r[q]]

\* Without knowing how often the sum of the terms wraps: the result stands for
\* the number plus a multiple of the base's product.
TimesInverse(v, inverse, q) == IF inverse = 1 THEN ReduceOnce(v, q) ELSE Lazy(v, inverse, q)
FastSum(temp, p) == Total([q \in DOMAIN temp |-> temp[q] * (Hat(DOMAIN temp, q) % p)])
FastSums(temp, P) == [p \in P |-> FastSum(temp, p) % p]
FastConvert(r, P) ==
  LET B == DOMAIN r
      Single == CHOOSE q \in B : TRUE
  IN  IF Cardinality(B) = 1 THEN [p \in P |-> IF Single <= p THEN r[Single] ELSE r[Single] % p]
      ELSE FastSums([q \in B |-> TimesInverse(r[q], HatInv(B, q), q)], P)

\* The switch that lets the multiples stay.
ApproxSwitch(r, P) == FastConvert(r, P)

\* floor(1/2 + numerator / product), computed with the given error, at least 0.
FloatFloor(numerator, product, drift) == (2 * numerator + product + drift) \div (2 * product)

\* What a switch between the bases Q and P needs; with t, what the division by
\* P that keeps the number modulo t needs.
SwitchTables(Q, P, t) ==
  [hatInv |-> [q \in Q |-> HatInv(Q, q)], hat |-> [p \in P |-> [q \in Q |-> Hat(Q, q) % p]],
   hatInvP |-> [p \in P |-> HatInv(P, p)], hatP |-> [q \in Q |-> [p \in P |-> Hat(P, p) % q]],
   wraps |-> [p \in P |-> [a \in 0 .. Cardinality(Q) |-> MulMod(a % p, Prod(Q) % p, p)]],
   wrapsP |-> [q \in Q |-> [a \in 0 .. Cardinality(P) |-> MulMod(a % q, Prod(P) % q, q)]],
   pInv |-> [q \in Q |-> ModInverse(Prod(P) % q, q)],
   tInv |-> [p \in P |-> ModInverse(t % p, p)],
   tPInv |-> [q \in Q |-> MulMod(t % q, ModInverse(Prod(P) % q, q), q)]]

\* With the multiples counted in floating point and taken away: the result
\* stands for the number of least absolute value.
Scaled(r) == [q \in DOMAIN r |-> Shoup(r[q], HatInv(DOMAIN r, q), q)]
Wraps(scaled, drift) ==
  LET B == DOMAIN scaled
      parts == [q \in B |-> scaled[q] * Hat(B, q)]
  IN  Min({FloatFloor(Total(parts), Prod(B), drift), Cardinality(B)})
SwitchSums(scaled, P, T, alpha) ==
  [p \in P |-> SubMod(Total([q \in DOMAIN scaled |-> scaled[q] * T.hat[p][q]]) % p, T.wraps[p][alpha], p)]
SwitchScaled(scaled, P, drift) ==
  SwitchSums(scaled, P, SwitchTables(DOMAIN scaled, P, 1), Wraps(scaled, drift))
SwitchBasis(r, P, drift) == SwitchScaled(Scaled(r), P, drift)
\* The way back takes each product lazily.
BackSums(scaled, Q, T, alpha) ==
  [q \in Q |-> SubMod(Total([p \in DOMAIN scaled |-> Lazy(scaled[p], T.hatP[q][p], q)]) % q, T.wrapsP[q][alpha], q)]
BackScaled(scaled, Q, drift) ==
  BackSums(scaled, Q, SwitchTables(Q, DOMAIN scaled, 1), Wraps(scaled, drift))
SwitchBack(r, Q, drift) == BackScaled(Scaled(r), Q, drift)

ApproxModUp(r, P) == ApproxSwitch(r, P) @@ r
Expand(r, P, drift) == SwitchBasis(r, P, drift) @@ r

\* From Q * P down to Q, divided by P, and with t the error is a multiple of t.
DividedByP(x, conv, T) == [q \in DOMAIN conv |-> Shoup(SubMod(x[q], conv[q], q), T.pInv[q], q)]
DividedByPModT(x, conv, T) ==
  [q \in DOMAIN conv |-> SubMod(Shoup(x[q], T.pInv[q], q), Shoup(conv[q], T.tPInv[q], q), q)]
DownModT(x, Q, P, T) ==
  DividedByPModT(x, ApproxSwitch([p \in P |-> Shoup(x[p], T.tInv[p], p)], Q), T)
ApproxModDown(x, Q, P, t) ==
  IF t = 0 THEN DividedByP(x, ApproxSwitch(Restricted(x, P), Q), SwitchTables(Q, P, 1))
  ELSE DownModT(x, Q, P, SwitchTables(Q, P, t))
-----------------------------------------------------------------------------
\* RnsRounder: the nearest multiple of Q / t, one reading with a search for the
\* quotient, one in double words.
QuotientUpTo(numerator, Q, t) == Max({k \in 0 .. t : k * Q <= numerator})
RoundExact(r, t) ==
  LET Q == Prod(DOMAIN r) IN ReduceOnce(QuotientUpTo(Compose(r) * t + (Q \div 2), Q, t), t)
RoundInDoubleWords(r, t) ==
  LET Q == Prod(DOMAIN r)
      terms == [q \in DOMAIN r |-> Shoup(r[q], HatInv(DOMAIN r, q), q) * Hat(DOMAIN r, q)]
  IN  (((Total(terms) % Q) * t + (Q \div 2)) \div Q) % t

\* The same in floating point: an integer part modulo t, and fractions; if the
\* moduli are long each residue is split at the bit shift.
ScaleSplit(Q, t, c) ==
  [whole |-> [q \in Q |-> ((c * t * HatInv(Q, q)) \div q) % t],
   fraction |-> [q \in Q |-> (c * t * HatInv(Q, q)) % q]]
ScaleAndRoundTables(Q, t, shift) == [low |-> ScaleSplit(Q, t, 1), high |-> ScaleSplit(Q, t, 2 ^ shift)]
Low(v, shift) == IF shift = 0 THEN v ELSE v % 2 ^ shift
High(v, shift) == IF shift = 0 THEN 0 ELSE v \div 2 ^ shift
Wholes(r, t, shift, T) ==
  Total([q \in DOMAIN r |->
         (Low(r[q], shift) * T.low.whole[q] + High(r[q], shift) * T.high.whole[q]) % t]) % t
Fractions(r, shift, T) ==
  Total([q \in DOMAIN r |->
         (Low(r[q], shift) * T.low.fraction[q] + High(r[q], shift) * T.high.fraction[q]) * Hat(DOMAIN r, q)])
RoundTotal(total, Q, t, drift) ==
  FloatFloor(total - t * Max({(total + drift) \div (t * Q), 0}) * Q, Q, drift) % t
RoundParts(whole, fractions, Q, t, drift) ==
  IF IsPowerOfTwo(t) THEN (whole + FloatFloor(fractions, Q, drift)) % t
  ELSE RoundTotal(whole * Q + fractions, Q, t, drift)
RoundWith(r, t, shift, drift, T) ==
  RoundParts(Wholes(r, t, shift, T), Fractions(r, shift, T), Prod(DOMAIN r), t, drift)
RoundFloat(r, t, shift, drift) == RoundWith(r, t, shift, drift, ScaleAndRoundTables(DOMAIN r, t, shift))
-----------------------------------------------------------------------------
\* HPS: round(t / Q * the number modulo Q * R) modulo R.  The fraction's
\* numerator is a product of three words in a double word.
HpsScaleTables(Q, R, t) ==
  LET inv == [m \in Q \union R |-> ModInverse(Hat(Q \union R, m) % m, m)]
  IN  [fraction |-> [q \in Q |-> (((Prod(R) % q) * (t % q) * inv[q]) % (Word * Word)) % q],
       whole |-> [r \in R |-> [m \in Q \union {r} |-> ((Prod(R) * t * inv[m]) \div m) % r]]]
HpsAlpha(x, Q, T, drift) ==
  FloatFloor(Total([q \in Q |-> T.fraction[q] * x[q] * Hat(Q, q)]), Prod(Q), drift)
HpsSums(x, Q, R, T, alpha) ==
  [r \in R |-> AddMod(Total([m \in Q \union {r} |-> Lazy(x[m] % r, T.whole[r][m], r)]) % r, alpha % r, r)]
HpsWith(x, Q, R, T, drift) == HpsSums(x, Q, R, T, HpsAlpha(x, Q, T, drift))
HpsScale(x, Q, R, t, drift) == HpsWith(x, Q, R, HpsScaleTables(Q, R, t), drift)
\* The same without the fractions.
ApproxScaleTables(Q, P, t) ==
  LET inv == [m \in Q \union P |->
                IF m \in Q THEN ModInverse(MulMod(Prod(P) % m, Hat(Q, m) % m, m), m)
                ELSE ModInverse(MulMod(Prod(Q) % m, Hat(P, m) % m, m), m)]
  IN  [p \in P |-> [m \in Q \union {p} |-> ((Prod(P) * t * inv[m]) \div m) % p]]
ApproxWith(x, Q, P, T) == [p \in P |-> Total([m \in Q \union {p} |-> Lazy(x[m], T[p][m], p)]) % p]
ApproxScale(x, Q, P, t) == ApproxWith(x, Q, P, ApproxScaleTables(Q, P, t))
-----------------------------------------------------------------------------
\* BEHZ: to the base Bsk without a multiple of Q, by a Montgomery reduction
\* with mTilde; divide by Q; back to Q, msk telling the multiples of B.
BehzTables(Q, B, msk, mTilde) ==
  LET Bsk == B \union {msk}
  IN  [Q |-> Q, B |-> B, Bsk |-> Bsk, msk |-> msk, mTilde |-> mTilde,
       negInvQ |-> NegMod(ModInverse(Prod(Q) % mTilde, mTilde), mTilde),
       prodQ |-> [m \in Bsk |-> Prod(Q) % m],
       invQ |-> [m \in Bsk |-> ModInverse(Prod(Q) % m, m)],
       invMTilde |-> [m \in Bsk |-> ModInverse(mTilde % m, m)],
       invB |-> ModInverse(Prod(B) % msk, msk),
       prodB |-> [q \in Q |-> Prod(B) % q]]
BehzConvert(x, T) == FastConvert([q \in T.Q |-> Shoup(x[q], T.mTilde % q, q)], T.Bsk \union {T.mTilde})
\* The Montgomery residue left where it is, not moved to around zero.
BehzMontgomeryPlain(y, T) ==
  LET r == Shoup(y[T.mTilde], T.negInvQ, T.mTilde)
  IN  [m \in T.Bsk |-> Shoup(AddMod(y[m], Shoup(r, T.prodQ[m], m), m), T.invMTilde[m], m)]
BehzMontgomery(y, T) ==
  LET r == Shoup(y[T.mTilde], T.negInvQ, T.mTilde)
      Centred(m) == IF r >= T.mTilde \div 2 THEN r + m - T.mTilde ELSE r
  IN  [m \in T.Bsk |-> Shoup(AddMod(y[m], Shoup(Centred(m), T.prodQ[m], m), m), T.invMTilde[m], m)]
DividedByQ(x, conv, T) == [m \in T.Bsk |-> Shoup(SubMod(x[m], conv[m], m), T.invQ[m], m)]
BehzFloor(x, T) == DividedByQ(x, FastConvert(Restricted(x, T.Q), T.Bsk), T)
LessMultiples(conv, a, T) ==
  [q \in T.Q |-> AddMod(conv[q], IF a > T.msk \div 2 THEN Shoup(T.msk - a, T.prodB[q], q)
                                 ELSE Shoup(a, NegMod(T.prodB[q], q), q), q)]
MultiplesOfB(x, conv, T) == Shoup(SubMod(conv[T.msk], x[T.msk] % T.msk, T.msk), T.invB, T.msk)
BehzBackWith(x, conv, T) == LessMultiples(conv, MultiplesOfB(x, conv, T), T)
BehzBack(x, T) == BehzBackWith(x, FastConvert(Restricted(x, T.B), T.Q \union {T.msk}), T)

\* A second implementation, after OpenFHE, without Shoup products; the floor
\* multiplies by t too.
OpenFheTables(Q, B, msk, mTilde, t) ==
  LET Bsk == B \union {msk}
      Times(c) == [q \in Q |-> MulMod(c % q, HatInv(Q, q), q)]
  IN  [Q |-> Q, B |-> B, Bsk |-> Bsk, msk |-> msk, mTilde |-> mTilde,
       mTildeHatInv |-> Times(mTilde), tHatInv |-> Times(t), hatInvB |-> [b \in B |-> HatInv(B, b)],
       hat |-> [m \in Bsk \union {mTilde} |-> [q \in Q |-> Hat(Q, q) % m]],
       hatB |-> [m \in Q \union {msk} |-> [b \in B |-> Hat(B, b) % m]],
       inv |-> [m \in Bsk |-> [q \in Q |-> ModInverse(q % m, m)]],
       prodQ |-> [m \in Bsk |-> Prod(Q) % m], prodB |-> [q \in Q |-> Prod(B) % q],
       tInvQ |-> [m \in Bsk |-> MulMod(t % m, ModInverse(Prod(Q) % m, m), m)],
       invMTilde |-> [m \in Bsk |-> ModInverse(mTilde % m, m)],
       negInvQ |-> NegMod(ModInverse(Prod(Q) % mTilde, mTilde), mTilde),
       invB |-> ModInverse(Prod(B) % msk, msk)]
Termwise(x, c) == [q \in DOMAIN c |-> MulMod(x[q], c[q], q)]
Inner(xi, c, m) == Total([q \in DOMAIN xi |-> MulMod(xi[q], c[q], m)]) % m
ConvCentred(xi, r, T) ==
  LET Centred(m) == (IF r >= T.mTilde \div 2 THEN r + m - T.mTilde ELSE r) % m
  IN  [m \in T.Bsk |->
         MulMod(AddMod(MulMod(Centred(m), T.prodQ[m], m), Inner(xi, T.hat[m], m), m), T.invMTilde[m], m)]
ConvTerms(xi, T) ==
  ConvCentred(xi, (Total([q \in T.Q |-> xi[q] * T.hat[T.mTilde][q]]) * T.negInvQ) % T.mTilde, T)
ConvMontgomery(x, T) == ConvTerms(Termwise(x, T.mTildeHatInv), T)
FloorTerms(x, xi, T) ==
  [m \in T.Bsk |-> SubMod(MulMod(x[m], T.tInvQ[m], m), Inner(xi, T.inv[m], m), m)]
RnsFloor(x, T) == FloorTerms(x, Termwise(x, T.tHatInv), T)
SkCentred(xi, alpha, T) ==
  LET Alpha(q) == IF alpha > T.msk \div 2 THEN SubMod(alpha % q, T.msk % q, q) ELSE alpha % q
  IN  [q \in T.Q |-> SubMod(Inner(xi, T.hatB[q], q), MulMod(Alpha(q), T.prodB[q], q), q)]
SkTerms(x, xi, T) ==
  SkCentred(xi, MulMod(SubMod(Inner(xi, T.hatB[T.msk], T.msk), x[T.msk] % T.msk, T.msk), T.invB, T.msk), T)
ConvSk(x, T) == SkTerms(x, Termwise(x, T.hatInvB), T)

\* The base B and the modulus msk: the primes below the last of Q, and if they
\* are too short a longer msk.
RECURSIVE PrimesBelow(_, _, _)
PrimesBelow(last, step, n) ==
  IF n = 0 THEN <<>>
  ELSE LET p == PrevNttPrime(last, step) IN <<p>> \o PrimesBelow(p, step, n - 1)
BitsOf(v) == CHOOSE n \in 1 .. 30 : 2 ^ (n - 1) <= v /\ v < 2 ^ n
EnoughFor(B, msk, Q, t, degree) == Prod(B) * msk >= Prod(Q) * 2 * degree * t
LongerThan(v, degree) == {FirstNttPrimeWithBits(n, 2 * degree) : n \in BitsOf(v) + 1 .. BitsOf(v) + 4} \ {Failed}
WithMsk(B, next, Q, t, degree) ==
  [B |-> B, msk |-> IF EnoughFor(B, next, Q, t, degree) THEN next
                    ELSE Min({m \in LongerThan(next, degree) : EnoughFor(B, m, Q, t, degree)})]
ParamsOf(ps, Q, t, degree) ==
  WithMsk({ps[k] : k \in 1 .. Cardinality(Q)}, ps[Cardinality(Q) + 1], Q, t, degree)
BehzParams(lastQ, Q, t, degree) == ParamsOf(PrimesBelow(lastQ, 2 * degree, Cardinality(Q) + 1), Q, t, degree)
-----------------------------------------------------------------------------
(***************************************************************************)
(* Polynomials modulo X^N + 1 and a prime q, and their transform: the      *)
(* values at the odd powers of a 2N-th root psi, in bit-reversed order     *)
(* (silent-math ntt, silent-ring context and poly).  A polynomial, or a    *)
(* transform, is a function from 0 .. N - 1 to words.                      *)
(*                                                                         *)
(* The lazy transforms leave words below 4q and 2q that stand for          *)
(* residues; each way assumes the ranges the other leaves.                 *)
(***************************************************************************)
\* A function with its values computed.
Computed(f) == IF f = f THEN f ELSE f

Log(n) == CHOOSE k \in 0 .. 30 : 2 ^ k = n
ReverseBits(v, bits) == Total([k \in 0 .. bits - 1 |-> ((v \div 2 ^ k) % 2) * 2 ^ (bits - 1 - k)])
Power(b, e, q) == ModPow(b, e, q)

\* The roots in the order in which the layers read them.
Roots(root, N, q) == Computed([k \in 0 .. N - 1 |-> Power(root, ReverseBits(k, Log(N)), q)])
InverseRoots(root, N, q) ==
  Computed([k \in 0 .. N - 1 |-> IF k = 0 THEN 1 ELSE Power(root, ReverseBits(k - 1, Log(N)) + 1, q)])
TablesOf(N, q, psi, inverse, invN) ==
  [N |-> N, q |-> q, roots |-> Roots(psi, N, q), inverse |-> inverse, invN |-> invN,
   scaled |-> Computed([k \in 0 .. N - 1 |-> MulMod(inverse[k], invN, q)])]
TablesOfRoot(N, q, psi) ==
  TablesOf(N, q, psi, InverseRoots(ModInverse(psi, q), N, q), ModInverse(N, q))
NttTables(N, q) == TablesOfRoot(N, q, TryPrimitiveRoot(2 * N, q))
HasTables(N, q) == IsPowerOfTwo(N) /\ IsPrime(q) /\ TryPrimitiveRoot(2 * N, q) # Failed
-----------------------------------------------------------------------------
\* One layer of m blocks: the pair of an index, and the root of its block.
Gap(T, m) == T.N \div (2 * m)
Block(T, m, i) == i \div (2 * Gap(T, m))
Upper(T, m, i) == (i \div Gap(T, m)) % 2 = 0
First(T, m, i) == IF Upper(T, m, i) THEN i ELSE i - Gap(T, m)

ForwardPair(u, v, upper, q) == IF upper THEN u + v ELSE u + 2 * q - v
Strict(v, q) == ReduceOnce(ReduceOnce(v, 2 * q), q)
ForwardAt(x, T, m, i, first) ==
  ForwardPair(ReduceOnce(x[first], 2 * T.q),
              Lazy(x[first + Gap(T, m)], T.roots[m + Block(T, m, i)], T.q), first = i, T.q)
ForwardLayer(x, T, m, strict) ==
  LET out == [i \in DOMAIN x |-> ForwardAt(x, T, m, i, First(T, m, i))]
  IN  Computed(IF strict /\ Gap(T, m) = 1 THEN [i \in DOMAIN x |-> Strict(out[i], T.q)] ELSE out)

\* On the way back the last layer multiplies by 1 / N too.
InversePair(u, v, upper, q) ==
  IF upper THEN ReduceOnce((u + v) % Word, 2 * q) ELSE (u + 2 * q - v) % Word
InverseFactor(T, m, i) ==
  IF m = 1 THEN IF Upper(T, m, i) THEN T.invN ELSE T.scaled[T.N - 1]
  ELSE T.inverse[T.N - 2 * m + 1 + Block(T, m, i)]
InverseAt(x, T, m, i, first) ==
  InversePair(IF m = 1 THEN ReduceOnce(x[first], 2 * T.q) ELSE x[first], x[first + Gap(T, m)], first = i, T.q)
InverseLayer(x, T, m) ==
  LET out == [i \in DOMAIN x |-> InverseAt(x, T, m, i, First(T, m, i))]
  IN  Computed([i \in DOMAIN x |-> IF Upper(T, m, i) /\ m # 1 THEN out[i] ELSE Lazy(out[i], InverseFactor(T, m, i), T.q)])

RECURSIVE DwtForward(_, _, _, _), DwtInverse(_, _, _)
DwtForward(x, T, m, strict) ==
  IF 2 * m > T.N THEN x ELSE DwtForward(ForwardLayer(x, T, m, strict), T, 2 * m, strict)
DwtInverse(x, T, m) ==
  IF m = 0 THEN x ELSE DwtInverse(InverseLayer(x, T, m), T, m \div 2)

NttForward(x, T) == DwtForward(x, T, 1, TRUE)
NttForwardLazy(x, T) == DwtForward(x, T, 1, FALSE)
NttInverseLazy(x, T) == DwtInverse(x, T, T.N \div 2)
Reduced(x, q) == Computed([i \in DOMAIN x |-> ReduceOnce(x[i], q)])
NttInverse(x, T) == Reduced(NttInverseLazy(x, T), T.q)
-----------------------------------------------------------------------------
\* X to X^k.  In a transform: where the value of each index comes from; among
\* the coefficients: where each goes, and with which sign.
RawIndex(k, i, N) == ((k * ReverseBits(N + i, Log(N) + 1)) \div 2) % N
AutomorphismMap(k, N) == [i \in 0 .. N - 1 |-> ReverseBits(RawIndex(k, i, N), Log(N))]
Permuted(x, map) == Computed([i \in DOMAIN x |-> x[map[i]]])
ApplyAutomorphism(x, k, N) == Permuted(x, AutomorphismMap(k, N))
CoeffGaloisMap(k, N) == [i \in 0 .. N - 1 |-> (i * k) % (2 * N)]
\* A mutant: the coefficients that wrap around keep their sign.
Source(map, j, N) == CHOOSE i \in 0 .. N - 1 : map[i] % N = j
ApplyGaloisCoeffUnsigned(x, k, N, q) ==
  LET map == CoeffGaloisMap(k, N) IN Computed([j \in DOMAIN x |-> x[Source(map, j, N)]])
Signed(v, wraps, q) == IF wraps THEN NegMod(v, q) ELSE v
ApplyGaloisCoeff(x, k, N, q) ==
  LET map == CoeffGaloisMap(k, N)
      signed == [i \in 0 .. N - 1 |-> Signed(x[i], map[i] >= N, q)]
  IN  Computed([j \in DOMAIN x |-> signed[Source(map, j, N)]])

\* The automorphism that rotates the slots by a number of steps.
GaloisElementFromStep(step, N) ==
  LET up == ModPow(3, IF step < 0 THEN 0 - step ELSE step, 2 * N)
  IN  IF step < 0 THEN ModInverse(up, 2 * N) ELSE up
=============================================================================
